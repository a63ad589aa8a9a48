------------------------------- MODULE EcsWorld -------------------------------
(***************************************************************************)
(* core/ecs/World and Archetype: entities are rows of archetype tables, one*)
(* table for each set of components; an entity's record says where its row *)
(* is, and swap-removal moves rows about.  An archetype is named by its    *)
(* component mask, which getOrCreateArchetype keeps unique; the add and    *)
(* remove edges only cache that look-up.  Indices and rows count from 1.   *)
(***************************************************************************)
EXTENDS Integers, Sequences

CONSTANTS Components,     \* registered component types
          Values,         \* component values
          Default,        \* what construct, or zeroed bytes, leave
          NoArchetype,    \* nullptr
          MaxEntities,    \* bound: slots of entities_
          MaxGeneration   \* bound: times a slot is recycled, 2^32 - 1

ASSUME ValuesAssumption == /\ Default \in Values
                           /\ NoArchetype \notin SUBSET Components
ASSUME BoundsAssumption == MaxEntities \in Nat /\ MaxGeneration \in Nat

VARIABLES entities,    \* entities_: [archetype, row, generation]
          freeList,    \* freeList_
          table        \* mask -> rows, each [entity, value]

vars == <<entities, freeList, table>>

Masks   == SUBSET Components
Handles == [index : 1..MaxEntities, generation : 0..MaxGeneration]
Slots   == 1..Len(entities)

Handle(i)  == [index |-> i, generation |-> entities[i].generation]
IsAlive(e) == /\ e.index \in Slots
              /\ entities[e.index].archetype # NoArchetype
              /\ entities[e.index].generation = e.generation

Alive == {Handle(i) : i \in {s \in Slots : entities[s].archetype # NoArchetype}}

(* The row of a living entity.                                             *)
RowOf(e) == table[entities[e.index].archetype][entities[e.index].row]

TypeOK ==
    /\ entities \in Seq([archetype : Masks \union {NoArchetype}, row : Nat,
                         generation : 0..MaxGeneration])
    /\ Len(entities) <= MaxEntities
    /\ freeList \in Seq(Slots)
    /\ table \in [Masks -> Seq([entity : Handles,
                     value : UNION {[mask -> Values] : mask \in Masks}])]

Init == /\ entities = <<>>
        /\ freeList = <<>>
        /\ table = [mask \in Masks |-> <<>>]
------------------------------------------------------------------------------
(* archetypeSwapRemoveRow: the last row takes the place of the removed one.*)
SwapRemove(rows, r) ==
    [k \in 1..(Len(rows) - 1) |-> IF k = r THEN rows[Len(rows)] ELSE rows[k]]

(* The slot whose record the caller has to fix afterwards.                 *)
IsMoved_Never(rows, r, i) == FALSE     \* mutant: the moved record keeps its row
IsMoved(rows, r, i) == r # Len(rows) /\ rows[Len(rows)].entity.index = i

(* createEntity(): reuse the last freed slot, or add one.                  *)
Record(archetype, row, generation) ==
    [archetype |-> archetype, row |-> row, generation |-> generation]

Popped(list) == SubSeq(list, 1, Len(list) - 1)

CreateEntity ==
    LET row == Len(table[{}]) + 1
        New(i, g) == table' = [table EXCEPT ![{}] =
                        Append(@, [entity |-> [index |-> i, generation |-> g],
                                   value |-> [c \in {} |-> Default]])]
    IN \/ /\ freeList # <<>>
          /\ LET i == freeList[Len(freeList)]
                 g == entities[i].generation
             IN /\ entities' = [entities EXCEPT ![i] = Record({}, row, g)]
                /\ New(i, g)
          /\ freeList' = Popped(freeList)
       \/ /\ freeList = <<>>
          /\ Len(entities) < MaxEntities
          /\ entities' = Append(entities, Record({}, row, 0))
          /\ New(Len(entities) + 1, 0)
          /\ UNCHANGED freeList

(* destroyEntity(e): remove the row, fix the record of the row that moved, *)
(* then bump the generation and recycle the slot.                          *)
Bumped_Not(e) == e.generation          \* mutant: the generation is not bumped
Bumped(e) == e.generation + 1

Freed(e) == e.index

DestroyEntity(e) ==
    /\ IsAlive(e)
    /\ e.generation < MaxGeneration
    /\ LET mask == entities[e.index].archetype
           r    == entities[e.index].row
       IN /\ entities' = [i \in Slots |->
                 IF i = e.index THEN Record(NoArchetype, 0, Bumped(e))
                 ELSE IF IsMoved(table[mask], r, i)
                      THEN [entities[i] EXCEPT !.row = r] ELSE entities[i]]
          /\ table' = [table EXCEPT ![mask] = SwapRemove(@, r)]
    /\ freeList' = Append(freeList, Freed(e))

(* moveEntity(e, dst): append a row with the shared components copied, then*)
(* swap-remove the old row.  "value" is the row after the caller's memcpy. *)
MoveEntity(e, dst, value) ==
    LET src == entities[e.index].archetype
        r   == entities[e.index].row
    IN /\ entities' = [i \in Slots |->
              IF i = e.index
                THEN Record(dst, Len(table[dst]) + 1, e.generation)
                ELSE IF IsMoved(table[src], r, i)
                     THEN [entities[i] EXCEPT !.row = r] ELSE entities[i]]
       /\ table' = [table EXCEPT
              ![dst] = Append(@, [entity |-> e, value |-> value]),
              ![src] = SwapRemove(@, r)]
       /\ UNCHANGED freeList

(* addComponent<T>(e, value) and addComponentRaw: e is alive and does not  *)
(* have c.                                                                 *)
Copied_Not(e, c) == Default            \* mutant: shared components are not copied
Copied(e, c) == RowOf(e).value[c]

AddComponent(e, c, v) ==
    /\ IsAlive(e)
    /\ LET mask == entities[e.index].archetype
       IN /\ c \notin mask
          /\ MoveEntity(e, mask \union {c},
                [k \in mask \union {c} |-> IF k = c THEN v ELSE Copied(e, k)])

(* removeComponent<T>(e): e is alive and has c.                            *)
RemoveComponent(e, c) ==
    /\ IsAlive(e)
    /\ LET mask == entities[e.index].archetype
       IN /\ c \in mask
          /\ MoveEntity(e, mask \ {c}, [k \in mask \ {c} |-> Copied(e, k)])

(* A write through the reference that get<T>(e) returns.                   *)
WriteComponent(e, c, v) ==
    /\ IsAlive(e)
    /\ LET mask == entities[e.index].archetype
           r    == entities[e.index].row
       IN /\ c \in mask
          /\ table' = [table EXCEPT ![mask][r].value[c] = v]
    /\ UNCHANGED <<entities, freeList>>

Next == \/ CreateEntity
        \/ \E e \in Alive :
              \/ DestroyEntity(e)
              \/ \E c \in Components :
                    \/ RemoveComponent(e, c)
                    \/ \E v \in Values : AddComponent(e, c, v) \/ WriteComponent(e, c, v)

Spec == Init /\ [][Next]_vars
------------------------------------------------------------------------------
(* Every living record points at its own row, and every row belongs to the *)
(* living entity whose record points at it, in the archetype of its        *)
(* components: swap-removal and moves never cross two entities.            *)
RecordsMatchRows ==
    /\ \A i \in Slots : entities[i].archetype # NoArchetype =>
          /\ entities[i].row \in DOMAIN table[entities[i].archetype]
          /\ RowOf(Handle(i)).entity = Handle(i)
    /\ \A mask \in Masks : \A r \in DOMAIN table[mask] :
          /\ IsAlive(table[mask][r].entity)
          /\ entities[table[mask][r].entity.index].archetype = mask
          /\ entities[table[mask][r].entity.index].row = r
          /\ DOMAIN table[mask][r].value = mask

(* The free list holds each dead slot once and no living one: two          *)
(* entities never share a slot.                                            *)
FreeListExact ==
    /\ \A i \in Slots : entities[i].archetype = NoArchetype <=>
                           \E k \in DOMAIN freeList : freeList[k] = i
    /\ \A j, k \in DOMAIN freeList : freeList[j] = freeList[k] => j = k

(* A handle whose entity was destroyed is never alive again: slots are     *)
(* recycled, generations are not.                                          *)
StaleHandlesStayDead ==
    [][\A i \in Slots :
          /\ entities'[i].generation >= entities[i].generation
          /\ entities'[i].generation = entities[i].generation =>
                (entities'[i].archetype = NoArchetype <=>
                    entities[i].archetype = NoArchetype)
                \/ entities[i].archetype = NoArchetype]_vars

(* The World implements the entity store: what a handle's components hold  *)
(* is what was last put there, through every move of its row.              *)
Store  == [e \in Alive |-> RowOf(e).value]
Issued == {e \in Handles : /\ e.index \in Slots
                           /\ \/ e.generation < entities[e.index].generation
                              \/ IsAlive(e)}

Abstract == INSTANCE EntityStore WITH store <- Store, issued <- Issued

Refinement == Abstract!Spec
==============================================================================
