---------------------------- MODULE CommandBuffer -----------------------------
(***************************************************************************)
(* core/ecs/CommandBuffer: structural changes recorded while a View walks  *)
(* the tables, applied to the World by flush() in the order recorded.  A   *)
(* handle that createEntity() returns names no slot yet: its index lies    *)
(* above kPendingBase and flush() maps it to the entity it then creates.   *)
(* Between recording and flush() the World may change under the handles.   *)
(***************************************************************************)
EXTENDS EcsWorld, TLC

CONSTANT MaxCommands      \* bound: commands of a batch

ASSUME CommandsAssumption == MaxCommands \in Nat

VARIABLES cmds,           \* cmds_
          pendingCount,   \* pendingEntityCount_
          pendingMap,     \* flush()'s local map: pending number -> entity
          at              \* the command flush() is at; 0 outside flush()

buffer  == <<cmds, pendingCount, pendingMap, at>>
allVars == <<entities, freeList, table, cmds, pendingCount, pendingMap, at>>

PendingBase == MaxEntities
Pending(k)  == [index |-> PendingBase + k, generation |-> 0]
IsPending(e) == e.index > PendingBase

(* What a caller can name: a handle the World has handed out, alive or     *)
(* stale by now, or a pending one of this batch.                           *)
Nameable == Issued \union {Pending(k) : k \in 1..pendingCount}

Command == [type : {"Create", "Destroy"}, entity : Nameable]
           \union [type : {"Add"}, entity : Nameable, component : Components, value : Values]
           \union [type : {"Remove"}, entity : Nameable, component : Components]

BufferTypeOK ==
    /\ TypeOK
    /\ Len(cmds) <= MaxCommands
    /\ \A i \in DOMAIN cmds : cmds[i] \in Command
    /\ \A k \in DOMAIN pendingMap : k \in 1..pendingCount /\ pendingMap[k] \in Handles
    /\ at \in 0..(Len(cmds) + 1)
    /\ at = 0 => pendingMap = <<>>

(* Component types only differ by name: sound for TLC to permute.          *)
ComponentSymmetry == Permutations(Components)

BufferInit == Init /\ cmds = <<>> /\ pendingCount = 0 /\ pendingMap = <<>> /\ at = 0
------------------------------------------------------------------------------
Recording == at = 0 /\ Len(cmds) < MaxCommands

(* createEntity().                                                         *)
RecordCreate ==
    /\ Recording
    /\ pendingCount' = pendingCount + 1
    /\ cmds' = Append(cmds, [type |-> "Create", entity |-> Pending(pendingCount + 1)])
    /\ UNCHANGED <<vars, pendingMap, at>>

(* destroyEntity(e), addComponent<T>(e, value), removeComponent<T>(e).     *)
RecordOne(cmd) ==
    /\ Recording
    /\ cmds' = Append(cmds, cmd)
    /\ UNCHANGED <<vars, pendingCount, pendingMap, at>>

(* The World changed directly, outside flush().                            *)
Direct == at = 0 /\ Next /\ UNCHANGED buffer

FlushBegin ==
    /\ at = 0 /\ cmds # <<>>
    /\ at' = 1
    /\ UNCHANGED <<vars, cmds, pendingCount, pendingMap>>

Resolve(e) == IF IsPending(e) THEN pendingMap[e.index - PendingBase] ELSE e

(* hasComponent, asked of a living entity.                                 *)
Has(e, c) == c \in entities[e.index].archetype

Live_BySlot(e) == e.index \in Slots /\ entities[e.index].archetype # NoArchetype   \* mutant
Live(e) == IsAlive(e)

(* The commands that the flush skips.                                      *)
Skipped(cmd) ==
    LET e == Resolve(cmd.entity)
    IN  /\ cmd.type # "Create"
        /\ \/ ~Live(e)
           \/ cmd.type = "Add" /\ Has(e, cmd.component)
           \/ cmd.type = "Remove" /\ ~Has(e, cmd.component)

(* The entity that this step creates is the one on the new last row.       *)
ApplyCreate(cmd) ==
    /\ CreateEntity
    /\ \E i \in DOMAIN entities' :
          /\ entities'[i].archetype = {}
          /\ entities'[i].row = Len(table[{}]) + 1
          /\ pendingMap' = [k \in DOMAIN pendingMap \union {cmd.entity.index - PendingBase} |->
                 IF k = cmd.entity.index - PendingBase
                   THEN [index |-> i, generation |-> entities'[i].generation]
                   ELSE pendingMap[k]]

Apply(cmd) ==
    LET e == Resolve(cmd.entity)
    IN  \/ cmd.type = "Create" /\ ApplyCreate(cmd)
        \/ Skipped(cmd) /\ UNCHANGED <<vars, pendingMap>>
        \/ /\ ~Skipped(cmd) /\ cmd.type # "Create"
           /\ \/ cmd.type = "Destroy" /\ DestroyEntity(Handle(e.index))
              \/ cmd.type = "Add" /\ AddComponent(Handle(e.index), cmd.component, cmd.value)
              \/ cmd.type = "Remove" /\ RemoveComponent(Handle(e.index), cmd.component)
           /\ UNCHANGED pendingMap

FlushNext ==
    /\ at \in DOMAIN cmds
    /\ Apply(cmds[at])
    /\ at' = at + 1
    /\ UNCHANGED <<cmds, pendingCount>>

FlushEnd ==
    /\ at = Len(cmds) + 1
    /\ at' = 0 /\ cmds' = <<>> /\ pendingCount' = 0 /\ pendingMap' = <<>>
    /\ UNCHANGED vars

BufferNext ==
    \/ RecordCreate
    \/ \E e \in Nameable :
          \/ RecordOne([type |-> "Destroy", entity |-> e])
          \/ \E c \in Components :
                \/ RecordOne([type |-> "Remove", entity |-> e, component |-> c])
                \/ \E v \in Values : RecordOne([type |-> "Add", entity |-> e, component |-> c, value |-> v])
    \/ Direct
    \/ FlushBegin \/ FlushNext \/ FlushEnd

BufferSpec == BufferInit /\ [][BufferNext]_allVars
------------------------------------------------------------------------------
(* Through destruction, recycling and swap-removal, in a flush and outside *)
(* it, no two entities share a slot or a row, every record points at its   *)
(* own row and no handle of the batch in hand is unresolvable.             *)
WorldConsistent == BufferTypeOK /\ RecordsMatchRows /\ FreeListExact

(* What the commands of a batch, taken alone, make of the entity they      *)
(* create: the commands before its Destroy, the first Add of a component   *)
(* since its last Remove.                                                  *)
Names(i, k) == cmds[i].entity = Pending(k)
Gone(k)     == \E i \in DOMAIN cmds : cmds[i].type = "Destroy" /\ Names(i, k)

Changes(k, c) == {i \in DOMAIN cmds : /\ Names(i, k) /\ cmds[i].type \in {"Add", "Remove"}
                                      /\ cmds[i].component = c}
Adder(k, c) ==     \* the commands whose value stays, one at most
    {i \in Changes(k, c) :
        /\ cmds[i].type = "Add"
        /\ \A j \in Changes(k, c) : j > i => cmds[j].type = "Add"
        /\ \A j \in Changes(k, c) : j < i /\ cmds[j].type = "Add" =>
               \E r \in Changes(k, c) : j < r /\ r < i /\ cmds[r].type = "Remove"}

(* "Its real index is resolved on flush": when the flush ends, an entity   *)
(* created by the batch is what the batch's own commands made of it,       *)
(* whatever slots were recycled and rows moved within the batch.           *)
PendingFate ==
    at = Len(cmds) + 1 /\ at # 1 =>
        \A k \in 1..pendingCount :
            LET e == pendingMap[k]
            IN  /\ IsAlive(e) <=> ~Gone(k)
                /\ ~Gone(k) =>
                     /\ DOMAIN RowOf(e).value = {c \in Components : Adder(k, c) # {}}
                     /\ \A c \in Components : \A i \in Adder(k, c) :
                            RowOf(e).value[c] = cmds[i].value

(* A command touches the entity it names and no other: one recorded for a  *)
(* handle that has gone stale since leaves the slot's next occupant alone. *)
TouchesNamed ==
    [][(at \in DOMAIN cmds /\ at' = at + 1) =>
           \A h \in Alive : (cmds[at].type = "Create" \/ h # Resolve(cmds[at].entity)) =>
               IsAlive(h)' /\ RowOf(h)' = RowOf(h)]_allVars
==============================================================================
