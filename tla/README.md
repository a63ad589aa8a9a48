# TLA+ verification of the ChernoAlpha game engine

ChernoAlpha is a C++20 engine for a networked first-person shooter, with an
editor and asset tools. This directory holds TLA+ models of the parts of it that
carry state through concurrency, failure or long sequences of calls, the TLC
configurations that check them, and TLAPS proofs. Paths below are relative to
`src/src/`.

    tlc -workers 2 -config ReliableSafety.cfg MCReliableChannel
    tlapm ReliableChannelProofs.tla

`PROJECT.json` lists every run with its module and configuration, the lines each
definition models, a mutation of the code's logic that refutes each property, the
hazards and the theorems. Definitions named `X_Something` are altered forms of
`X`, kept beside it, that show which mistake a property would catch.

## 1. The system and its parts

| part | state it keeps | operations | interacts with | hard behaviour | what makes it correct |
|---|---|---|---|---|---|
| reliable channel, `networking/ReliableChannel.cpp` | send sequence, newest received sequence, 32-bit ack field, resend queue | send, poll (resend, acks, ack state, callback) | a UDP socket, the peer's channel, Session | loss, duplication, reordering, 16-bit wrap | nothing is dropped unreceived; acks are true; the ack state never goes back; what is resent arrives |
| task scheduler, `core/TaskScheduler.cpp` | queue, pending count, stop flag, two mutexes, two condition variables | submit, wait, worker loop, destructor | the physics step submits and waits | interleaving, lost wakeups, shutdown, throwing tasks | each task runs once; wait is a barrier; no task is left behind; calls return |
| ECS world, `core/ecs/World.cpp`, `Archetype.cpp` | entity records, free list, archetype tables | create, destroy, add, remove, write, iterate | every game system | swap-removal moves rows of others, slots are recycled | a handle reads what was last written under it, and only while its entity lives |
| command buffer, `core/ecs/CommandBuffer.cpp` | recorded commands, pending count | record, flush | World, while a View is walked | handles go stale and slots are reused before the flush | pending entities end as the batch says; nobody else is touched |
| save system, `tools/SaveSystem.cpp`, `ByteWriter.cpp` | files, their `.tmp`, `latest.checkpoint`, the layout of what is in them | save, delete, checkpoint, clean up, load | the file system, other instances | crash between calls, refused renames, cut lengths | a target is old or new, never torn or gone; what is read is what was saved |
| damage system, `app/DamageSystem.cpp` | queue, processed serials with their tick, attackers, death RPCs | setAttacker, submitRequest, tick | reliable channel, history ring, physics, event bus | repeated delivery, pruning, death within a batch | a shot counts once, a life ends once, memory is bounded |
| lag compensation, `physics/LagCompensator.cpp` | saved transforms of one call | rewind, cast, restore | history ring, physics world | rows of several entities, the static tree | a raycast sees the past and leaves the live world as it was |
| replication, `networking/ReplicationSystem.cpp`, `SnapshotBuffer.cpp`, `PredictionBuffer.cpp` | history ring, acknowledged sequence, snapshot slots, predicted frames | tick, acknowledge, push, sample, reconcile | game loop | rings overwritten by tick modulo size; late snapshots | a ring never answers with another tick; what is shown does not go back |
| unreliable ordered channel, `networking/UnreliableOrderedChannel.cpp` | send and applied sequence per key | send, poll, reset | socket, replication | newest-wins, wrap | what is applied only gets newer |
| encodings, `networking/Serializer.cpp`, `BitStreamImpl.cpp`, `Packet.h` | a cursor over bits or bytes | write and read of fields, messages, headers | everything on the wire | ends inside a field, widths, quantisation | a whole message comes back; a short one is flagged |
| network ids, registry, `NetworkIdAllocator.cpp` | next id, free ids, id to entity | allocate, release, register | join and leave | ids used again | no two living entities share an id |
| game loop, `app/GameLoop.cpp` | accumulated time, input ring | serverTick, clientTick, join, flush and receive inputs | nearly everything | redundant input batches | the server acts on inputs the client gave |
| physics world, `physics/PhysicsWorld.cpp`, `internal/NarrowPhase.cpp`, `internal/BroadPhase.cpp` | bodies, ids, static tree, triggers, active overlaps | add, remove, move, step, queries | task scheduler, event bus | stale tree, tasks in any order, recycled entities | a step sees the bodies as they are; Enter and Exit match; characters stay out of walls |
| event bus, `core/public/core/EventBus.h` | listeners per type | subscribe, publish | triggers, damage, game loop | change during publication | each listener hears each event once |
| editor, `editor/EditorApp.cpp`, panels, `editor/commands` | scene, undo history, dirty flag, dialog, files, play session | edit, undo, redo, save, open, play, stop, close | World, serializers, prefab files | handles after redo, failed saves, play over an edited scene | clean means saved; nothing is lost unasked; undo touches its own entity; stop restores |
| scene and prefab files, `tools/SceneSerializer.cpp`, `PrefabSerializer.cpp` | entities and links as values | save, load, capture, instantiate | editor, disk | handles that change from file to world | links lead inside what was loaded |
| rendering, `rendering/GpuDevice.cpp`, `FrameGraph.cpp`, `MeshManager.cpp`, `app/MeshRenderSystem.cpp` | frame ring, fence, states of resources, uploads, meshes by entity index | begin, record, submit, resize, upload, draw | the GPU's queue, windows | the GPU is frames behind; several state trackers | a resource outlives its use and is in the state named; an entity is drawn with its mesh |
| application shell, `app/Engine.cpp`, `app/Application.cpp`, `demos/SpinDemo.cpp`, scene manager | clock, message queue, scenes | frame loop, pump, load, unload, shutdown | rendering, input | resizes, minimising, closing between any two steps | the loops keep the device's rules |
| assets, `tools/AssetImporter.cpp`, `IblCooker.cpp`, `EassetLoader.cpp`, `editor/EditorImporter.cpp` | `.easset` and `.meta` files, one background future, what panels hold | import, cook, load, preview | disk, editor, the cooker program | files overwritten in place under a reader | a load gives nothing or what was asked for; success can be read |
| configuration, logging, profiling, memory, mathematics, file wrappers, BVH of the demos | - | - | - | formatting, floating point, thin wrappers | outside of these models |

How they fit together: `Engine` runs one frame loop on one thread; `Application`
and `GameLoop` tick the systems in order on it. The other threads are the task
scheduler's workers, which the physics step uses, and the editor's import
thread; beside the process run the GPU, the peer at the other end of the network, and
other programs on the same files (a second server, `asset_cooker`). Clients send
inputs and shots through a `Session`; the server applies them to a `World`, resolves
shots in `DamageSystem` and sends snapshots back. Elsewhere the difficulty is in
long sequences of calls: an editor session, joins and departures, recycled handles.

## 2. Modules

| module | models | checked by | proved in |
|---|---|---|---|
| `ReliableChannel` | two peers and the network | `reliable_*` | `ReliableChannelProofs` |
| `TaskScheduler` | workers, client, synchronisation | `scheduler` | `CoreProofs` |
| `EntityStore` | abstract specification of the World | (refined in `command_batch`) | refined in `CoreProofs` |
| `EcsWorld` | records, free list, archetype tables | through `CommandBuffer` | `CoreProofs` |
| `CommandBuffer` | recording and flushing, extends `EcsWorld` | `command_batch` | `CoreProofs` |
| `SaveSystem` | one process's writes, call by call | through `ServerData` | `ServerProofs` |
| `SaveFiles` | layout, container, readers | through `ServerData` | `ServerProofs` |
| `ServerData` | `SaveSystem` and `SaveFiles` together | `save_crash` | `ServerProofs` |
| `DamageSystem` | requests, ticks, deaths | `damage_dedup` | `ServerProofs` |
| `CollisionGeometry` | contact tests, rays, sweeps | through `PhysicsWorld` | sweeps against boxes in `CharacterControllerProofs` |
| `StaticBVH` | the tree over static bodies | through `PhysicsWorld` | - |
| `CharacterController` | move-and-slide of one character | through `PhysicsWorld` | `CharacterControllerProofs` |
| `PhysicsWorld` | bodies, step, characters, triggers, rewind | `physics_world` | - |
| `WireCodec` | bits, bytes, every message | through `Netplay` | - |
| `Netplay` | server, client, network between them | `netplay` | `NetplayProofs` |
| `EditorWorld` | world, commands, prefab and scene files as values | through `EditorApp` | `EditorAppProofs` |
| `EditorApp` | an editing session | `editor_session` | `EditorAppProofs` |
| `GpuFrames` | device, frame graph, uploads, the queue | through `EditorFrames` | `EditorFramesProofs` |
| `GameFrames` | loops of the engine and of a demo | through `EditorFrames` | `EditorFramesProofs` |
| `EditorFrames` | the editor's loop, composed with the above | `frames` | `EditorFramesProofs` |
| `EassetFile` | writers and loaders of `.easset` | through `AssetImport` | its cuts in `AssetImportProofs` |
| `AssetImport` | three writers, the panels that read | `asset_import` | `AssetImportProofs` |

The `MC*` modules hold the functions and sets that their configurations assign to
constants. A module without state (`SaveFiles`, `CollisionGeometry`, `StaticBVH`,
`CharacterController`, `WireCodec`, `EditorWorld`, `GpuFrames`, `EassetFile`) holds
operators on values, which a module with state extends.

### ReliableChannel

Variables carry the names of the class's members: `recvSequence`,
`recvAckBitfield`, `resendQueue`; `sent[p]` is the count whose remainder is
`sendSequence_`. The model names a message by its index and puts only its
remainder modulo `SeqMod` on the wire; every comparison of the code is made on
remainders, and the indices (`msg`, `ackOf`, `highest`, `delivered`) are history
that no guard reads, save the environment's `Window`. `Send` is `send()`;
`PollBegin` is the entry of `poll()` with `resendUnacked()`; `Receive` is one
iteration of its loop, with `processAcks` and `updateAckState`; `PollEnd` is its
return. `Expire` lets the resend time of an entry pass. The bit field is a set
of ages, so a shift is an addition and the field's width a bound.

The network is a set of datagrams. `Transmit` may lose any of the datagrams it is
given, `Receive` may leave a copy behind, and order is free.

*Window.* Sixteen-bit comparison cannot work if messages further apart than half
of the range are about. The code does not enforce that; the assumption is that a
sender does not run more than `Window < SeqMod / 2` messages (32767 in the code)
ahead of the oldest one that a queue, a datagram or an ack still mentions. It
is a guard of `Send` and part of the theorems' hypotheses.

### TaskScheduler

A step is an atomic operation of a thread: a lock, a critical section, an
access to `pending_` or `stopping_`, going to sleep, a notification. Program
counters name them. A wait on a condition variable is split into the test of
the predicate (`WorkerPark`, still holding the mutex) and the release of the mutex
with the sleep (`WorkerSleep`), for the destructor stores `stopping_` between
the two without the mutex. `notify_one` wakes some sleeper, if there is one; any
sleeper may also wake spuriously (`SpuriousWake`), which no property may count on. A
throwing task skips the rest of its packaged function.

### EntityStore, EcsWorld, CommandBuffer

`EntityStore` is what a user may rely on: a map from living handles to component
values, and handles that are never issued twice. `EcsWorld` keeps the code's
representation: `entities` is `entities_` (archetype, row, generation), `freeList`
is `freeList_`, `table[mask]` is the archetype with these components as a sequence
of rows. `SwapRemove` and `IsMoved` are `archetypeSwapRemoveRow` and the fix of
the moved row's record; `MoveEntity` appends, copies shared components and
swap-removes. The refinement maps `store` to the rows that living handles
reach and `issued` to the handles whose generation has been used.

`CommandBuffer` adds the recorded commands and the local state of `flush()`.
A flush is one action per command, so that what a command does is compared with
the World before it; between recording and flushing, `Direct` takes any step of
`EcsWorld`. Callers name real handles (alive or stale) and pending handles of the
current batch.

### SaveSystem, SaveFiles, ServerData

`SaveSystem`: one action per file-system call of `atomicWrite` and of the copy to
`latest.checkpoint`, in the code's order, each of which may fail as it can.
`Crash` may come before any of them and `Restart` runs the constructor's clean-up.
`OtherCleanup` is a second instance on the same directory, whose constructor or
`setRootPath` deletes `.tmp` files under the first. Contents are the number of the
write that made them, `Absent`, or `Torn`.

`SaveFiles` says what the contents are: profile, match record and checkpoint, field by field as
`ByteWriter` writes and `ByteReader` reads them, in the container with its magic,
raw size and checksum. A number field is a cell; LZ4 is the identity that fails when
anything is missing; a reader that runs over the end goes on with zeros, as the
code's does. `ServerData` gives every write of `SaveSystem` something to save and
asks what a load of any file gives after any step.

### DamageSystem

`Submit` is a delivery of a request (with `setAttackerForRequest`); the same
request may be submitted any number of times, as the channel's callback does with
duplicates. `Tick(agree)` is the whole of `tick()`: prune, drop repeats, validate,
add up, shield, apply, publish deaths. `agree` is the set of requests for which a
raycast agrees. Respawn and departure belong to the game.

### CollisionGeometry, StaticBVH, CharacterController, PhysicsWorld

In `PhysicsWorld` the world is a vertical line: positions and velocities are integers,
rotations the identity. What is kept is all bookkeeping: the body vector with swap-removal and
`idToIndex`, the static tree (built, split and searched as the code does) with its
dirty flag, the slices the tasks take, the impulse and position passes over the
merged contacts, the characters with their sweeps, ground and coyote time, trigger
overlap with Enter and Exit, and `rewindAndRaycast`. A step of the simulation
is `StepBegin` (integration, rebuild, submission), one `RunTask` per worker in any
order, and `StepEnd` (solver, characters, triggers). Between steps, anyone may add,
move, push or remove anything.

On a line no sweep ever goes sideways, and it is there that sweeping the ends of a capsule
for the whole of it matters. So rays, sweeps and `UpdateCharacter` are written
for a plane, the line and one horizontal: a point is `<<x, y>>`, a ray, a sweep and a
character's velocity go along an axis (the slide along a hit is kept as the code has it; since the
reported normal is the way back, it leaves nothing). The unit of length is the skin that the
code keeps; the ground check and the coyote window, 120 of their units in the code, are two here. The
characters of `PhysicsWorld` move straight up and down among its bodies; `WallsHold` asks of
`UpdateCharacter`, which depends on no other state, what becomes of one that walks in the plane.

### WireCodec, Netplay

`WireCodec` translates the bit streams and the byte streams, variable-length
integers, quantised vectors and quaternions, headers and their obfuscation, input
messages, shot claims, snapshots and their deltas. `CodecsExact` asks, over values at
and beyond the edges of every width, that a whole message comes back and that
a short one raises the overflow flag; it depends on no state, and `CodecsFaithful` asks
it before the first move.

`Netplay` composes the parts as their interfaces intend (nothing under `src/` wires all of
them): a server that ticks, gives out ids and spawn points, records its history
and sends snapshots and single updates; a client that ticks, predicts, sends its
latest inputs again and again, buffers snapshots, samples between two of them and
reconciles. Datagrams carry values. The network holds a bounded set; loss is never
being taken or never being sent, duplication leaves a copy, order is free. No
update stays under way for half of the sequence space.

### EditorWorld, EditorApp

`EditorWorld` gives the World with recycled slots as a value, each command's
execute and undo, prefab capture and instantiation with their links, and scene
files. `EditorApp` is the session: `ed` is the scene with its undo and redo stacks,
dirty flag, path, dialog and selection; `pie` the play session. Handlers call
each other (Save in the dialog saves, maybe asks for a name, then goes on with what
was pending), so they are operators from an editor to the set it may become, over
failures of the file. The dialog takes the focus from panels and menus but
not from the shortcuts of `frame()`, as in the code. `drift` is history: changes that
nothing marks (listed in section 5), so that `CleanIsSaved` says what is left.

### GpuFrames, GameFrames, EditorFrames

`GpuFrames` holds a device record: lists, fences, back buffers, the queue of
submitted lists, and what the GPU knows of each resource. `Executed` runs the next
list whenever the GPU likes and notes a fault when a command finds its resource
gone, in another state than the one named, a mesh not copied yet or a texture dropped. The
textures of a mesh, with their upload buffers, are one thing with the number of the mesh:
`UploadTexture` records their copy on the list of the frame, `DrawScene` samples them,
`ClearTextures` is what `MeshRenderSystem::clear()` does to them when a scene is unloaded. `GameFrames`
is the thread of `Engine::run` with `Application`'s callback, or of `SpinDemo`, as a
program counter, with the operating system posting messages between any two steps.
`EditorFrames` adds `EditorApp::frame`: viewport, play window with its own swap
chain, preview panel, and the registry of meshes keyed by entity index. `host`
selects the program; one run checks the three.

### EassetFile, AssetImport

`EassetFile` is the container in 32-bit words: table of sections, meshes,
colliders, textures with mip chains, cube maps, and every check the loaders make.
`AssetImport` has three writers (import thread, texture import on the main
thread, cooker), each a stream whose buffer reaches the file when it is full and
at the close, after `good()` was asked; the conversion of glTF primitives with missing
streams and of images to mip chains; and the parts of the editor that read. A write may fail at
any buffer and the editor or cooker may crash between any two.

## 3. Runs

| run | instance | distinct states | shows |
|---|---|---|---|
| `reliable_safety` | range 8, field 2, window 3; 9 and 2 messages; 1 datagram in flight per direction | 780 000 | no loss from the queue after message 0, honest and complete acks, ack state only forward |
| `reliable_live` | the same range; 2 and 1 messages; 2 in flight | 3 500 | every message after the first is received, under a fair-lossy network |
| `reliable_first_lost` | 3 and 1 messages | - | **violated**: message 0 may leave the queue unreceived |
| `scheduler` | 2 workers, 4 tasks, the third throws | 4 000 | one place per task, barrier, every task runs, `wait` returns unless a task threw |
| `command_batch` | 2 slots recycled once, 2 components, 2 values, 2 commands | 378 000 | rows and records agree, stale handles dead, pending handles end as the batch says, a command touches what it names, the World refines `EntityStore` |
| `save_crash` | profile, match, 2 checkpoints, 3 writes; lengths wrap at 3 | 248 000 | durability, nothing torn is promoted, `latest` follows the checkpoints, a load gives what was saved or nothing |
| `damage_dedup` | 1 client, 2 serials, 2 targets, queue of 2, 5 ticks, memory of 1 tick | 304 000 | a serial counts once while remembered, bounded memory, one death per life |
| `physics_world` | 2 entities, floor, balls with and without an offset, character; 4 calls, 2 steps, 2 workers; walls of 4 sizes, capsules of 4 | 1 130 000 | ids, tree and tasks exact, nothing missed between colliders without an offset; listeners' picture is `activeOverlaps`; characters that move up or down stay out of solids, those that walk stay out of boxes tall enough for them; a rewind sees the past and leaves no trace |
| `netplay` | 2 entities, 2 spawn points, 5 moves, rings of 2, sequence space of 4 | 2 030 000 | ids, rings, inputs and codecs exact; what is shown never goes back |
| `editor_session` | 3 slots, 2 scenes, 1 file, undo cap 2, 4 gestures | 301 000 | clean means saved, nothing is lost unasked, undo and prefabs keep to their own entities, stop restores, the close box is heard |
| `frames` | 4 frames, 1 message, 3 calls, 2 assets, 1 entity, 3 hosts | 1 198 000 | targets and depth buffers are alive and in the state named, meshes copied before they are drawn (not in the game, see 5.17), lists outlive the GPU, the editor draws each entity with its own mesh |
| `asset_import` | 5 sources for 2 files, buffer of 60 words, 2 requests, 1 load, 1 fault | 241 000 | a load gives nothing or what was asked for; a reported success is readable |

Why the bounds are enough to be interesting:

- *Reliable channel.* Nine messages pass the end of a range of eight, so sequence
  numbers wrap and old ones come back; a field of two with a window of three
  has gaps inside, at and beyond its width. One datagram in flight at a time
  still gives reordering, since a resend or an older duplicate may be
  the one that is there. The proofs cover every size.
- *Scheduler.* Two workers are the code's minimum and enough for one to sleep, one
  to run and the client to notify between. The pool may also be destroyed
  with tasks in the queue.
- *World and command buffer.* Two slots recycled once give a stale handle beside
  its successor, and a removal that moves the other entity's row; two components give
  moves between four tables. Two commands in a batch destroy and create into the
  slot, or create and change a pending entity, while `Direct` changes the World
  before, between and after.
- *Saves.* Three writes let each checkpoint be written after the other and a
  crash fall into a second write of a path already saved. Texts, lists and the data of components are
  empty, short and as long as a length field with three values allows.
- *Damage.* With a memory of one tick the prune happens within five ticks, with
  a repeat before and after. Two hits of a half-shielded target are needed to kill.
- *Physics.* Four calls set up a floor, a ball, a character or trigger and one
  change to them; in two steps a ball falls into contact and leaves it, and a trigger
  is entered and left. `Reach` only stops bodies that fall for ever.
  The characters of `WallsHold` start from every point around the wall, some steps
  short of it and some long enough to pass it, with a ball that is met first or let through.
- *Netplay.* Rings of two are overwritten within five moves, with a tick too old
  and one not recorded yet to look up; three updates sent before the client comes
  put the next ones across the end of a sequence space of four; an id is released and handed out again.
- *Editor.* Four gestures are the fewest that create, destroy, create into the
  slot and undo past it; a cap of two drops the oldest command; two scenes
  give a handle of the first to use in the second.
- *Frames.* Four frames pass the ring of two frames in flight and a resize
  inside it; three calls load, unload and load a scene again, or assign, play and stop.
- *Assets.* A buffer of 60 words splits the larger files into two or three writes, so
  that a load meets each prefix; two requests let two writers have the same path.

`CHECK_DEADLOCK FALSE` is set where the system may stop: a destroyed scheduler,
an editor or importer that was closed, a batch, tick, move or call at its bounds. The
channel, the save system and the frame loops (whose end is the explicit stuttering
step `Stopped`) are checked for deadlock.

*Fairness.* `reliable_live`: both peers go on polling, timers expire, and a datagram sent
again and again is taken in the end (strong fairness), which is the least a retry
protocol can ask for. `scheduler`: the operating system runs every thread
that can run (weak fairness per worker) and no mutex starves a thread (strong
fairness of taking one); the client must go on with a call it is in, never start
one; nothing obliges a spurious wakeup. `editor_session`: `run()` tests the close
box at the head of every frame (weak fairness of `CloseCheck` alone); the user owes nothing.
The other runs check safety and assume no fairness.

## 4. What is proved

*Reliable channel* (`ReliableChannelProofs`): for every range, field width below
half of the range, number of messages and network capacity,
`NoneLostAfterFirst`, `HonestAcks`, `AckStateAdvances` and `RecentAcked` (which holds the types).
Assumptions: `SeqAssumption` (sizes) and `BoundAssumption` (types of the bounds).
`NoneLostAfterFirst` is not inductive: whether an ack removes an unreceived
message depends on what its header says and on how far back it may reach.
`IInv` adds four parts: every index mentioned has been sent (`SentInv`); the
receiver's state and its field name received messages only (`AckInv`); each
datagram holds an honest copy of it, however old (`NetInv`); and what is about
spans at most the window (`SpanInv`). From the span, `SeqCompare` shows that
modular comparison of sequence numbers agrees with the order of the indices;
`NewerIff` and `AcksHonest` carry that to `updateAckState` and `processAcks`.
The module's first lemmas are the facts about remainders that this needs, proved from the
definition of division. `RecentIsAcked` has an invariant of its own on top of `IInv`.

*Save system* (`ServerProofs`, its second half): for any sets of files and number of writes,
type correctness, `OnlyCurrentWrite`, `Durable` and `LatestTrails`, from
`SaveAssumption` (the kinds of files have different names, as their extensions
do). The theorems are about `SaveSystem!Spec`; `DataImplementsSave` carries
them to `ServerData`, and `FilesOfTheirKind` adds that what a target holds complete was
given to a write of that target, and what `latest.checkpoint` holds to a checkpoint. Durability
needs that up to its rename a write's `.tmp` is either its own content or gone
(`Staged`), that it is there unless the path was disturbed (`Untouched`), and that
write numbers grow (`CommittedBound`). `Durable` speaks of the paths no rename of
which was refused and whose `.tmp` nobody else removed; section 5 tells what
happens to the others. `OnlyCurrentWrite` holds for all paths.

`LoadsWhatWasSaved` is proved of `ServerData` for any width of the length fields and any profiles,
matches and checkpoints that fit them (`DataAssumption`: the code writes what is left of a longer
one's length and all its bytes, and such a file is read back as something else). A reader that has
been served so far is `Rd(in, out)`; `NumNext`, `TextNext` and `BlobNext` move it over a
field, and `ComponentsRead`, `PlayersRead`, `EntitiesRead` and `CellsRead` over a counted list of
any length. These are inductions over data: `FlatRun` says where the input stands before each item,
and `SameRun`, from `SetInduction` (below), that the reader's recursive function follows it to the end.
`ProfileLoads`, `MatchLoads` and `CheckpointLoads` put the fields together, `ContainerLoads` the
container around them. A copy that was broken off is refused for its size (`CutRefused`), whatever the
checksum says: `Crc` stays unexpanded. `KindInv` says that the values meet files of their kind.

*Task scheduler* (`CoreProofs`, its first part): for any finite or infinite set of workers,
any number of tasks and any of them throwing, `EachTaskOnce` and `WaitIsBarrier`, from
`WorkersAssumption` and `TasksAssumption` (threads and tasks have names of their own).
`EachTaskOnce` alone does not survive a step. `Placed` says where a task may be from
the program counters: in the queue, in one worker's hands between `WorkerTake` and
`WorkerCount`, or finished; `Counts` says that `pending` is the cardinality of the
tasks whose decrement is still to come, or never comes because they threw. The barrier
is `Counts` read at zero: nothing outstanding means every task has finished.

*World* (`CoreProofs`, its second part): for any sets of components and values and any bounds on
slots and generations, that records, rows and the free list stay consistent
(`Consistent`, which is `WorldConsistent` without the buffer), `StaleHandlesStayDead`, and that `EcsWorld`
implements `EntityStore`. `Consistent` is inductive by itself. What is hard is that every
row that moves belongs to somebody else. `Vacates` describes what destruction
and both kinds of move have in common, `OthersFollow` shows that after it
the record of each other entity leads to the row it had, and `CreateEffect`,
`DestroyEffect`, `MoveEffect`, `AddEffect`, `RemoveEffect` and `WriteHolds` give the call's
effect in terms of handles. From those every call is a step of the store
(`CreateRefines` and the lemmas after it).

*Command buffer* (`CoreProofs`, its last part): for batches of any length, `WorldConsistent`,
`StaleHandlesStayDead`, `Refinement`, `TouchesNamed` and `PendingFate`. The first
three follow from the World's lemmas once each command is shown to be one of its calls or nothing
(`FlushSteps`). `PendingFate` speaks of the end of a flush; the invariant `Fates` says
the same of the commands before `at`, so that one more command extends it
(`FateFollows`). It needs `Recorded` (a pending number is created once, before it is used) and
`Mapped` (the flush's map is injective and meets no handle that the batch names), without which a
command for a real handle could land on an entity of the batch.

*Damage* (`ServerProofs`, its first half): for any clients, serials, targets, shields, queue
and length of memory, `OneDeathPerLife` and `HitOnce`, from `DamageAssumption`
(positive health, damage and memory, shields in percent). The invariant adds that
a hit young enough to be remembered is in `processed` (`HitsRemembered`) and that the
queue's entries have attackers (`AttackersKnown`). `LossBySerial` needs that
the shield's rounding never takes more from several hits than their sum
(`PercentBounds`).

*Replication* (`NetplayProofs`): for any ring lengths, snapshot interval, delay, sequence
space, network, spawn points and number of players, `LiveIdsUnique`, `RingsExact`, `InputsExact`
and `NeverGoesBack`, from `NetplayAssumption`: sizes are positive, the
sequence space has two numbers at least, and spawn points have integer
fields. `NetplayInv` has a part for each story. `HistoryInv` and
`PredictionInv` say which tick each slot of a ring holds, so that a look-up by remainder cannot
meet another tick. `InputsInv` follows an input from the ring through a
datagram to the server. `UpdatesInv` relates each sequence number under way to the count it is the remainder of and
bounds its age by half of the space, which makes `SeqNewer` the order of the
counts. `PlacesInv` says that the first player's place grows with the number of
the snapshot it is told in and, while these arrive in order, round the client's ring;
`RingInOrder` turns that into an order by time, and `BetweenGrows`, `BetweenLater` and `BetweenBounds`
carry it through the integer interpolation of `sample()`.

*Characters* (`CharacterControllerProofs`): `TallBoxesHold`, which is `WallsHold` for any capsule, any
bodies in any order, any position and any velocity along an axis. It is about the operator
`UpdateCharacter` and assumes types alone. `TallIsMet` is the geometry: if the
capsule overlaps a tall box somewhere along the way, one of its two ends is within the box
widened by its radius there, so one of the two rays that stand for it meets the box no later. `SweptGives`
is the arithmetic of the move: a step ends short of the nearest thing met, whatever else is
there. For boxes that are not `Tall` the statement is false (section 5.10).

*Editor* (`EditorAppProofs`): for any number of slots, scenes and gestures, any files,
values and cap of the history, `CleanIsSaved`, `NothingLostUnasked`, `OwnEntityOnly` and
`StopRestores`, from `WorldAssumption` and `EditorAssumption` (values and bounds are
numbers, no file has the empty name). `EditorInv` says what an editor is made of, that
every slot is in use or once in the free list (`WorldOK`), that undo and redo stack hold
at most `Cap` commands together and an undone creation names no entity (`HistoryOK`), that
the dialog is open just when something is pending (`DialogOK`), that a prefab's links stay inside
(`LinksInside`), and what a play session keeps (`PlayOK`). `CleanOnDisk` is
`CleanIsSaved` proper; it survives `Stop` only because `SnapshotOnDisk` says, while the scene is played, that
the file holds the snapshot: the world itself is the game's by then. `Leads` is what a
handler that replaces or saves the scene may make of an editor, and `LeadsOn` composes
two of them, as the dialog does. `NewHandles`, `InstanceLinks` and
`SlotsUsed` follow an instance from the free slots it takes to its links. That the members
of a set of slots can be put in ascending order (`Ascending`, for `KillAll`), and what the
recursive functions in `Loaded` and `Duplicated` do, is proved by induction over sets of
numbers (`SetInduction`, from the least member of a set), since the library's
induction theorems, with an operator as a parameter, cannot be used.

*Assets* (`AssetImportProofs`): for any sources, stream buffer, requests, loads and faults,
`FilesReadWhole` and `SuccessIsReadable`, from `BufferAssumption` (a buffer holds something) and
`FormatAssumption`, which is about files that are whole and that nobody disturbs: each announces its
length in its third word and loads as its source says. TLC evaluates it on the run's sources; it
is a computation on given data, and everything that happens to a file on the disk is proved. `FileInv` is
the invariant of a file that two writers do not mix: it is a cut of what its author
was asked for (`HoldsCut`), a writer in the middle of it is its author, stands where the cut ends
and has the rest in its buffer (`Under`), and one that ended well (`Ended`) or was
reported (`Reported`) has written it all. `CutGivesOnly` shows from the loaders' checks that
a cut shorter than the file is refused: no header, or a length that is not the file's. So a
load in the middle of an import, after a fault or after a crash gives nothing.

*Frame loops* (`EditorFramesProofs`): for any number of back buffers, entity slots, paths, lines and
steps, `NoFaults` (of targets, depth buffers and, outside of the game, mesh copies; textures are taken out of
it), `ListsOutliveGpu` and `DrawsOwnMeshes` (of the editor), from `DeviceAssumption`, `LoopAssumption`
(sizes) and `TwoInFlight`: at most two frames are in flight, which is the code's
`kMaxFramesInFlight`. That one is needed: a frame graph lets go of the buffers it held of the last play window
when the list is recorded, without a wait, and with three frames in flight TLC finds `NoFaults`
violated. `Leads(a, cmds, b)` says that commands take the resources' states from `a` to `b` with
every barrier naming the state it meets; it is composed as lists are (`LeadsOn`), through the
passes of a graph, its restoring barriers and the hand-written ones of the editor
(`ExecuteOpen`). `Open` says this of the list under way, from rest to the `Stage` of the frame, and which
resources and meshes it may use; `EntryOK` says that each entry of the queue goes from rest to rest over resources that
are alive and draws no mesh before its copy (`Fed`), in itself or in an entry before it.
`Paced` relates fences, slots and signals, so that an open slot is in no entry; a drained
queue (`Idle`) is empty, which is why resizes and releases meet no entry. Folds over
lists (`Along`) are recursive functions, and `SetInduction` proves what they do: `PerformedRun`
for the GPU, and one lemma each for passes, barriers and uploads. `EdMeshes` says that the registry
names the path of the mesh behind each handle, and of the entity itself once the frame has scanned.

*Only model-checked:*

- Liveness (`EventuallyReceived`, `EveryTaskRuns`, `WaitReturnsUnlessThrown`,
  `CloseHeard`): the prover does not reason about fairness and `ENABLED`.
- `CodecsFaithful`: what the codecs compute is written with folds of the community modules, whose
  parameters are operators.
- `CollisionsExact`, `ToldMatchesActive`, `CharacterStaysOut` and `RewindIsLocal` of
  `PhysicsWorld`: its static tree (`StaticBVH`) is a recursive operator. `TallBoxesHold` is about the
  operator its steps use; that they use it on the bodies as they are is checked.


*Layout.* A `*Proofs` module extends the modules it is about and has, for each of them, the inductive invariant first,
then one lemma per action (and, for `EcsWorld` and `Netplay`, one on what the
action changes, apart from the invariant), and the theorems last. The
invariants, apart from types over infinite sets, were checked by TLC on the runs'
instances as well. No fact is assumed beside the named assumptions of the modules, all of which TLC
evaluates on the runs.

## 5. Disagreements between code and documentation

One is a run that expects a violation (`reliable_first_lost`); the others were met
while modelling, are part of the models as the code has them, and narrow what the
properties can claim.

*Network and server.*

1. A header sent before anything was received carries ack 0; `processAcks` takes it
   for an acknowledgement of message 0 (`networking/ReliableChannel.cpp:123`).
2. Serials of all clients share one map (`app/DamageSystem.cpp:115`);
   `docs/networking-lag-compensation.md:147` keeps them per client.
3. `readQuatSmallestThree` says that it gives the identity on overflow
   (`networking/Serializer.cpp:237`) and gives a quaternion of other length;
   `readVarint` of five continued bytes returns a value without a flag.
4. `GameModeStateBlob::size` has 8 bits: a state of 256 bytes is sent with size 0
   (`app/GameLoop.cpp:99`).
5. `SnapshotBuffer::push` ignores sequence numbers, and past the newest snapshot the
   last one is held, where the header speaks of extrapolation. `flushInputMessages`
   sends newest first, so the server, which keeps the last it reads, acts on the oldest.
6. Nothing under `src/` calls `recordTransforms`, so `DamageSystem` as shipped always
   casts live rays. `onPlayerJoin` counts the joining player itself, wherever it was made, among the
   players a spawn point must be free of (`app/GameLoop.cpp:133`).

*Scheduler and physics.*

7. `stopping_` is stored and notified outside of `queueMutex_`
   (`core/TaskScheduler.cpp:26`): the wakeup may be lost and join hangs, against
   `core/public/core/TaskScheduler.h:22`.
8. A throwing task never decrements `pending_` (`core/TaskScheduler.cpp:41`), so
   `wait()` hangs, against `core/public/core/TaskScheduler.h:38`.
9. Contact normals of sphere against box and sphere against capsule point the other
   way than those of the rest (`physics/internal/NarrowPhase.cpp:189`): a box that falls on a
   box is taken to be separating and is not stopped.
10. Restoring after a rewind collapses entities with several bodies onto one place;
    rays, sweeps and overlap tests ignore `enabled`; two bodies of one entity enter a trigger
    twice; removing a trigger or the bus publishes no exits, and a recycled index inherits its
    predecessor's overlap.
    `localOffset` moves the bounding box (`physics/internal/BroadPhase.cpp:16`) and nothing
    else: not the contact test, rays, sweeps or overlap tests. Pairs that touch where the shapes are
    positioned are missed, and others are found that do not touch, against
    `docs/developer/06_physics_movement.md:29`. `CollisionsExact` asks only of colliders
    without an offset that nothing is missed, and of the others that the test at the
    bodies' positions invents nothing.

    Sweeps of a character cast the ends of its capsule: against a sphere the upper one unless the way is
    down (`physics/internal/NarrowPhase.cpp:337`), against a box both (`:352`). A level step
    goes through a sphere at the feet and a box at the waist, against "without tunnelling" in
    `docs/developer/06_physics_movement.md:81`: a capsule of radius 2 and half length 5 at the height
    12 walks into a box of half extent 1 at the same height. `WallsHold` says what is left: boxes
    that no capsule's ends pass above and below. Sweeps ignore capsules. The hit normal is the way
    back (`physics/PhysicsWorld.cpp:574`), so nothing slides along a wall and no ground is too steep;
    a character inside a box, or at no distance from it, is not pushed out and cannot leave.

*Saves and assets.*

11. `atomicWrite` removes the target when the rename is refused
    (`tools/SaveSystem.cpp:127`); until the second rename, and for good after a
    crash there, neither content exists ("All writes are atomic").
12. Missing trailing fields do not default: a short checkpoint is refused, a short
    profile overwrites defaults with 0, a blob whose bytes are missing is zeros.
    Counts of 16 bits are cut while all bytes are written. `loadProfile`
    gives a default profile for a corrupt file too, so load, change, save loses the
    real one (`docs/developer/09_persistence.md:246`).
13. Asset writers ask `good()` before the close that writes the last buffer; two
    writers of one path mix; a texture import overwrites the mesh of the same
    stem and leaves its `.meta`; a glTF that does not parse becomes a unit cube and a
    reported success; a result that is ready is dropped when the next import begins
    before the tick (`editor/EditorImporter.cpp:80`), against
    `docs/Phase_6/task-10-editor.md:466`. Panels remember a failed or stale load.

*Editor and rendering.*

14. Ctrl+S during play writes the running world (`editor/EditorApp.cpp:1576`), against
    `docs/developer/10_editor_pie.md:188`; the undo history is not cleared when play
    starts; New and Open during play leave the play session a scene that is gone.
15. A failed save truncates the only copy under a clean title; "Save" on the way out
    leaves even if the save failed; Discard before a file that does not open clears the flag.
16. Gizmo and component edits are not tracked; undoing back to the saved state stays
    dirty; undoing a Destroy gives a new handle; a dropped prefab that was captured from an
    instance adds `PrefabInstance` twice; undoing Save as Prefab deletes a file that was there before.
17. `Application::run` never calls `syncCommandList` (`app/Application.cpp:137`), against
    `rendering/public/rendering/MeshManager.h:21`: uploads after the first frame are
    recorded on a list that may be closed. `frames` allows the game this one fault.
    `MeshRenderSystem::clear()`, which a scene's unload calls, drops textures and their upload
    buffers and hands out their slots again (`app/MeshRenderSystem.cpp:397`) while the list being
    recorded and the frames in flight use them, against
    `rendering/internal/UploadHelper.h:9`. `GpuFrames` notes it as the fault "texture gone", which `NoFaults` exempts.
    In the game nothing scans or evicts the handles, which are kept by entity index
    (`app/MeshRenderSystem.cpp:268`): an entity in a recycled slot, one whose load
    was queued by a predecessor, and one of another active scene are drawn with a mesh that is not theirs,
    against `docs/Phase_6/task-03-entity-system.md:41`. `GameFrames` has these steps; `DrawsOwnMeshes`
    is about the editor only.
18. A mesh imported again under the same path is never uploaded again;
    `isKeyPressed` is never true (`core/public/core/Input.h:55`), for the copy of the last keys is made after the pump.

## 6. What is not modelled, and why

- Floating-point computation: mathematics, cooking kernels, vertex-cache order,
  ray picking, rotations, hulls and triangle meshes, damping and restitution. Physics is
  an integer line, or a plane for a character; what it shows is bookkeeping and order, not numbers.
  Character moves and sweeps that are neither level nor upright are left out.
- Winsock, Win32, D3D12 and Dear ImGui, except as the environment of the parts
  above; shaders, pipelines, descriptor heaps, layout of panels, thumbnails.
- Configuration, logging and profiling (formatting under one mutex); the pool and
  arena of `core/memory`, which no modelled part uses; file wrappers; the culling
  tree of the demos.
- Mouse, gamepad and the action map; layers and filters of physics; Session's
  migration to another address; the scene factory's archetypes; JSON of each component.
- Functions without a caller under `src/`: `UnreliableOrderedChannel::reset`,
  `loadIblEasset`, `isStale`, `requestThumbnail`, `uploadSkinned`.
- In the modelled parts: payload bytes where no property tells them apart, assertion
  failures (a caller's obligation; a release build drops them), `submit()` from
  inside a task, loss of power between a write and the device.
- Hazards known and left without a property: the reliable channel's callback runs in arrival
  order and again for duplicates (`networking/ReliableChannel.cpp:183`); its queue and
  `attackers_` (`app/DamageSystem.cpp:43`) have no limit; a pending handle kept across
  `flush()` (`core/ecs/CommandBuffer.cpp:126`); a subscriber that submits, subscribes or
  changes triggers while it is told (`core/public/core/EventBus.h:52`) invalidates an iteration: no
  subscriber in the source does; a message received more than 32 numbers behind the newest is
  acknowledged by no header and resent for ever (`networking/ReliableChannel.cpp:98`); `MeshManager`'s uploads are never freed and heaps
  of 1024 and 64 slots are not checked; materials, which are only added, are left out.

Two limits of the checker shape the runs. Liveness of the channel has an instance of its own, since with the
safety run's messages TLC's graph does not fit in memory; and three
commands with two components are past what a run should take.

## 7. Plan

The models are complete up to section 6. What remains is proof:

1. `PhysicsWorld`: the tree of `StaticBVH` as recursive functions, and its properties.
2. `SaveSystem`: what remains of `Durable` on the paths section 5 takes out of it, stated
   as an action property.
3. `ReliableChannel`: a set of messages on their way as its abstract specification, which it implements.
4. `WireCodec`: its codecs as recursive functions, so that a round trip can be proved for every width.
