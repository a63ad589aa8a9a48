----------------------------- MODULE GameFrames -----------------------------
(***************************************************************************)
(* The main loops: Engine::run with Application's frame callback (host     *)
(* "game") and the demos' own loop (host "demo").  One thread polls the    *)
(* window, pumps input, begins a frame, ticks the scenes, records and      *)
(* submits; the GPU executes what was submitted, and the operating system  *)
(* posts messages, whenever they like.  pc is where the thread is.         *)
(* EditorFrames adds the editor's loop to the same state.                  *)
(***************************************************************************)
EXTENDS GpuFrames

CONSTANTS MaxEnts,   \* entity slots of a scene's world
          Step,      \* kFixedDt, in units of time
          FrameCap,  \* kMaxFrameTime, in the same units
          Elapsed,   \* what the clock may say a frame took
          MaxLines,  \* DebugDraw's primitive limit
          MaxFrames, MaxMsgs, MaxOps   \* bounds: frames run, messages posted, game or user calls

ASSUME LoopAssumption == MaxEnts \in Nat \ {0} /\ MaxLines \in Nat

VARIABLES
    host,     \* which program this is
    pc,       \* where its thread is
    gpu,      \* GpuFrames' device record
    win,      \* Window::Impl: client size (0: minimised), closed
    os,       \* the thread's message queue
    input,    \* core InputSystem
    clock,    \* the accumulator, in units of time
    scenes,   \* SceneManager's entries, in order
    frameWorld, \* the scene whose world this frame uses, "" the engine's own
    mm,       \* MeshManager, or none yet
    handles,  \* MeshRenderSystem: mesh of an entity index, 0 none
    loads,    \* pendingMeshLoads_
    lines,    \* DebugDraw's queue
    ed,       \* the editor's own state
    left      \* what is left of the bounds

vars == <<host, pc, gpu, win, os, input, clock, scenes, frameWorld, mm, handles, loads, lines, ed, left>>
world == <<scenes, frameWorld, mm, handles, loads, lines, ed>>

Goes(to) == pc' = to
Ents == 1 .. MaxEnts
\* The entity slots of S, as forEach visits them.
Those(S) == Along(LAMBDA acc, i : IF i \in S THEN Append(acc, i) ELSE acc, <<>>, [i \in Ents |-> i])
NoHandles == [i \in Ents |-> 0]
------------------------------------------------------------------------------
(* The operating system and the queue. *)
Messages == [kind : {"size"}, n : 0 .. 2] \union [kind : {"close", "move", "down", "up"}, n : {1}]

\* Raw input matters to the game's pump alone; the others would drop it unread.
Post(m) == /\ pc # "stopped" /\ left.msgs > 0
           /\ m.kind \in {"size", "close"} \/ host = "game"
           /\ os' = Append(os, m) /\ left' = [left EXCEPT !.msgs = @ - 1]
           /\ UNCHANGED <<host, pc, gpu, win, input, clock, world>>

GpuStep == /\ gpu.queue # <<>> /\ gpu' = Executed(gpu)
           /\ UNCHANGED <<host, pc, win, os, input, clock, world, left>>

\* WndProc
Handled(w, m) == [size |-> IF m.kind = "size" THEN m.n ELSE w.size,
                  closed |-> w.closed \/ m.kind = "close"]

\* InputSystem::processRawInput
RawInput(in, m) == CASE m.kind = "move" -> [in EXCEPT !.pending = @ + m.n]
                     [] m.kind = "down" -> [in EXCEPT !.curr = TRUE]
                     [] m.kind = "up"   -> [in EXCEPT !.curr = FALSE]
                     [] OTHER -> in

Updated(in) == [in EXCEPT !.prev = in.curr, !.delta = in.pending, !.pending = 0]

\* Window::wantsClose takes every message, input too, which nobody then sees.
WantsClose == /\ win' = Along(LAMBDA w, m : Handled(w, m), win, os)
              /\ os' = <<>>

Leaves == win'.closed \/ left.frames = 0

Poll == /\ pc = "poll" /\ WantsClose
        /\ IF Leaves THEN gpu' = Signal(gpu) /\ Goes("flush") ELSE UNCHANGED gpu /\ Goes(IF host = "game" THEN "pump" ELSE
                                                              IF host = "demo" THEN "begin" ELSE "pre")
        /\ left' = IF Leaves THEN left ELSE [left EXCEPT !.frames = @ - 1]
        /\ UNCHANGED <<host, input, clock, world>>

\* Engine::run's own pump, then InputSystem::update.
Pump == /\ pc = "pump" /\ Goes("begin")
        /\ win' = Along(LAMBDA w, m : Handled(w, m), win, os) /\ os' = <<>>
        /\ input' = Updated(Along(LAMBDA in, m : RawInput(in, m), input, os))
        /\ UNCHANGED <<host, gpu, clock, world, left>>

Quit == /\ pc = "flush" /\ Idle(gpu) /\ Goes("stopped")
        /\ UNCHANGED <<host, gpu, win, os, input, clock, world, left>>

Stopped == pc = "stopped" /\ UNCHANGED vars
------------------------------------------------------------------------------
(* GpuDevice::beginFrame, in three steps: drain for a resize, wait, record. *)
Begin == /\ pc = "begin"
         /\ IF NeedsResize(gpu, win.size) THEN gpu' = Signal(gpu) /\ Goes("drain")
                                          ELSE UNCHANGED gpu /\ Goes("slot")
         /\ UNCHANGED <<host, win, os, input, clock, world, left>>

Drained == /\ pc = "drain" /\ Idle(gpu) /\ gpu' = Resized(gpu, win.size) /\ Goes("slot")
           /\ UNCHANGED <<host, win, os, input, clock, world, left>>

SlotFree == /\ pc = "slot" /\ FrameIsFree(gpu) /\ gpu' = BeginFrame(gpu) /\ Goes("update")
            /\ UNCHANGED <<host, win, os, input, clock, world, left>>
------------------------------------------------------------------------------
(* The scenes. *)
NewScene(n) == [name |-> n, wired |-> FALSE, active |-> FALSE, camera |-> FALSE,
                ents |-> [i \in Ents |-> [alive |-> FALSE, life |-> 0]]]
Loaded(n) == \E k \in DOMAIN scenes : scenes[k].name = n
Entry(n) == CHOOSE k \in DOMAIN scenes : scenes[k].name = n
ActiveScene == SelectInSeq(scenes, LAMBDA s : s.active)

\* Scene::activate asks the mesh-load delegate for every entity with a mesh.
Asked(s) == IF s.wired THEN Those({i \in Ents : s.ents[i].alive}) ELSE <<>>

\* Scene::tick: lifetimes run out.  The clock's unit of a life is one step.
Aged(e) == IF ~e.alive \/ e.life = 0 THEN e
           ELSE [alive |-> e.life > 1, life |-> e.life - 1]
Ticked(s) == IF s.active THEN [s EXCEPT !.ents = [i \in Ents |-> Aged(@[i])]] ELSE s

\* The meshUnloadFn wireScene gave the scene.
Unloaded(s) == IF s.wired THEN handles' = NoHandles /\ loads' = <<>> /\ gpu' = ClearTextures(gpu)
                          ELSE UNCHANGED <<handles, loads, gpu>>

Op == pc = "hook" /\ left.ops > 0 /\ left' = [left EXCEPT !.ops = @ - 1]
OpOnly == UNCHANGED <<host, pc, win, os, input, clock, frameWorld, mm, ed>>

LoadScene(n) == /\ Op /\ ~Loaded(n) /\ scenes' = Append(scenes, NewScene(n))
                /\ UNCHANGED <<gpu, handles, loads, lines>> /\ OpOnly

\* The frame still uses its world: a game must not unload that scene from a tick.
UnloadScene(n) == /\ Op /\ Loaded(n) /\ n # frameWorld
                  /\ scenes' = RemoveAt(scenes, Entry(n)) /\ Unloaded(scenes[Entry(n)])
                  /\ UNCHANGED lines /\ OpOnly

ActivateScene(n) == /\ Op /\ Loaded(n) /\ ~scenes[Entry(n)].active
                    /\ scenes' = [scenes EXCEPT ![Entry(n)].active = TRUE]
                    /\ loads' = loads \o Asked(scenes[Entry(n)])
                    /\ UNCHANGED <<gpu, handles, lines>> /\ OpOnly

DeactivateScene(n) == /\ Op /\ Loaded(n) /\ scenes[Entry(n)].active
                      /\ scenes' = [scenes EXCEPT ![Entry(n)].active = FALSE]
                      /\ UNCHANGED <<gpu, handles, loads, lines>> /\ OpOnly

SpawnEntity(n, i, life) == /\ Op /\ Loaded(n) /\ ~scenes[Entry(n)].ents[i].alive
                           /\ scenes' = [scenes EXCEPT ![Entry(n)].ents[i] = [alive |-> TRUE, life |-> life]]
                           /\ UNCHANGED <<gpu, handles, loads, lines>> /\ OpOnly

\* An entity with the main Camera.
SpawnCamera(n) == /\ Op /\ Loaded(n) /\ ~scenes[Entry(n)].camera
                  /\ scenes' = [scenes EXCEPT ![Entry(n)].camera = TRUE]
                  /\ UNCHANGED <<gpu, handles, loads, lines>> /\ OpOnly

\* DebugDraw::pushLine
PushLine == /\ Op /\ lines' = IF lines < MaxLines THEN lines + 1 ELSE lines
            /\ UNCHANGED <<gpu, scenes, handles, loads>> /\ OpOnly
------------------------------------------------------------------------------
(* Application's frame callback. *)
\* The textures of mesh m, for the entity of the active scene that asked.
Textured(g, m) == IF ActiveScene = 0 THEN g ELSE UploadTexture(g, m)

\* A load that fails registers nothing.  The mesh's copies go to the list the
\* manager was made with, nobody calls syncCommandList here; the textures' do not.
Uploads(ok) ==
  Along(LAMBDA acc, i : IF i \notin ok THEN acc ELSE
             [gpu |-> Textured(UploadStatic(acc.gpu, acc.mm), Len(acc.mm.paths) + 1), mm |-> WithMesh(acc.mm, "game"),
              handles |-> [acc.handles EXCEPT ![i] = Len(acc.mm.paths) + 1]],
           [gpu |-> [gpu EXCEPT !.held = FALSE], handles |-> handles,
            mm |-> IF mm.list = Frames THEN MeshManager(gpu) ELSE mm], loads)

\* A frame counts for kMaxFrameTime at most.
FrameTime(dt) == IF dt > FrameCap THEN FrameCap ELSE dt

Update(dt, ok) ==
  /\ pc = "update" /\ host = "game" /\ Goes("ticks")
  /\ LET u == Uploads(ok) IN gpu' = u.gpu /\ mm' = u.mm /\ handles' = u.handles
  /\ frameWorld' = IF ActiveScene = 0 THEN "" ELSE scenes[ActiveScene].name
  /\ loads' = <<>>
  /\ clock' = clock + FrameTime(dt)
  /\ UNCHANGED <<host, win, os, input, scenes, lines, ed, left>>

Tick == /\ pc = "ticks" /\ clock >= Step /\ Goes("hook")
        /\ clock' = clock - Step
        /\ scenes' = [k \in DOMAIN scenes |-> Ticked(scenes[k])]
        /\ UNCHANGED <<host, gpu, win, os, input, frameWorld, mm, handles, loads, lines, ed, left>>

HookDone == pc = "hook" /\ Goes("ticks") /\ UNCHANGED <<host, gpu, win, os, input, clock, world, left>>

\* MeshRenderSystem::tick draws the entities of a world that have a mesh handle.
Drawn(ents, r) == [k \in 1 .. Len(ents) |-> DrawScene(gpu, r, handles[ents[k]])]
Meshes(s) == Those({i \in Ents : s.ents[i].alive /\ handles[i] # 0})

WithMeshes(graph, cmds) ==
  IF cmds = <<>> THEN graph
  ELSE AddPass(graph, <<[h |-> 1, to |-> "target"], [h |-> 2, to |-> "depth"]>>, cmds)
Screen(g) == ImportDepthBuffer(ImportBackBuffer(EmptyGraph, BackBuffer(g.back), "target"), Depth)
DebugLines(graph, g) ==
  AddPass(graph, <<[h |-> 1, to |-> "target"]>>, IF lines = 0 THEN <<>> ELSE <<Draw(BackBuffer(g.back), 0)>>)

\* Without a camera nothing is imported or drawn, and the lines stay queued.
DrawGame ==
  /\ pc = "ticks" /\ clock < Step /\ Goes("poll")
  /\ LET s == scenes[Entry(frameWorld)]
     IN  IF frameWorld # "" /\ s.camera
         THEN /\ gpu' = [EndFrame(Execute(gpu, DebugLines(WithMeshes(Screen(gpu), Drawn(Meshes(s), BackBuffer(gpu.back))), gpu)))
                           EXCEPT !.held = TRUE]
              /\ lines' = 0
         ELSE gpu' = EndFrame(gpu) /\ UNCHANGED lines
  /\ UNCHANGED <<host, win, os, input, clock, scenes, frameWorld, mm, handles, loads, ed, left>>
------------------------------------------------------------------------------
(* SpinDemo: a frame for the upload, flushed, then a loop that draws it. *)
DemoUpload == /\ pc = "update" /\ host = "demo" /\ mm = NoMeshManager /\ Goes("uploaded")
              /\ mm' = WithMesh(MeshManager(gpu), "demo")
              /\ gpu' = Signal(EndFrame(UploadStatic(gpu, MeshManager(gpu))))
              /\ UNCHANGED <<host, win, os, input, clock, scenes, frameWorld, handles, loads, lines, ed, left>>

DemoUploaded == /\ pc = "uploaded" /\ Idle(gpu) /\ Goes("poll")
                /\ UNCHANGED <<host, gpu, win, os, input, clock, world, left>>

DemoFrame == /\ pc = "update" /\ host = "demo" /\ mm # NoMeshManager /\ Goes("poll")
             /\ gpu' = [EndFrame(Execute(gpu, WithMeshes(Screen(gpu), <<Draw(BackBuffer(gpu.back), 1)>>))) EXCEPT !.held = TRUE]
             /\ UNCHANGED <<host, win, os, input, clock, world, left>>
------------------------------------------------------------------------------
(* The start scene as onInit leaves it: it may have spawned entities and   *)
(* activated the scene anew, which asks for their meshes.                  *)
StartScene(cam, alive) ==
  [NewScene("start") EXCEPT !.wired = TRUE, !.active = TRUE, !.camera = cam,
                            !.ents = [i \in Ents |-> [alive |-> i \in alive, life |-> 0]]]

InitCommon ==
  /\ win = [size |-> 1, closed |-> FALSE] /\ os = <<>>
  /\ input = [curr |-> FALSE, prev |-> FALSE, delta |-> 0, pending |-> 0]
  /\ clock = 0
  /\ frameWorld = "" /\ mm = NoMeshManager /\ handles = NoHandles /\ lines = 0
  /\ left = [frames |-> MaxFrames, msgs |-> MaxMsgs, ops |-> MaxOps]

InitGame == /\ host = "game" /\ pc = "poll" /\ gpu = Created(1) /\ ed = <<>>
            /\ \E cam \in BOOLEAN, alive \in SUBSET Ents :
                 scenes = <<StartScene(cam, alive)>> /\ loads = Asked(StartScene(cam, alive))

InitDemo == /\ host = "demo" /\ pc = "begin" /\ gpu = Created(1) /\ ed = <<>>
            /\ scenes = <<>> /\ loads = <<>>

Loop == Poll \/ Pump \/ Quit \/ Begin \/ Drained \/ SlotFree
Game == \/ \E dt \in Elapsed, ok \in SUBSET Ents : Update(dt, ok)
        \/ Tick \/ HookDone \/ DrawGame \/ PushLine
        \/ \E n \in {"start", "other"} :
             \/ LoadScene(n) \/ UnloadScene(n) \/ ActivateScene(n) \/ DeactivateScene(n) \/ SpawnCamera(n)
             \/ \E i \in Ents, life \in {0, 1} : SpawnEntity(n, i, life)
Demo == DemoUpload \/ DemoUploaded \/ DemoFrame
Environment == GpuStep \/ \E m \in Messages : Post(m)
=============================================================================
