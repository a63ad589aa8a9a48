----------------------------- MODULE EditorWorld -----------------------------
(***************************************************************************)
(* The editor's view of a World, of the commands of its undo history and   *)
(* of scene and prefab files, as operators on values.  A world maps the    *)
(* slots of living entities to their components; a handle is a slot and    *)
(* its generation.  "tr" stands for the Transform (and the Name that goes  *)
(* with it), "body" for a ColliderComponent or a MeshHandle, "pre" for a   *)
(* PrefabInstance, "kid" for a HierarchyComponent, of which the link to    *)
(* the first child is kept.                                                *)
(***************************************************************************)
EXTENDS Integers, Sequences, FiniteSets, SequencesExt

CONSTANTS Slots,         \* how many entities a world holds at once (a bound)
          Poses, Sizes   \* values of "tr" and of "body"

ASSUME WorldAssumption == /\ Slots \in Nat /\ 0 \in Poses /\ 0 \in Sizes
                          /\ Poses \union Sizes \subseteq Nat

(* Components: a single one, a set of them over another, and the numbers   *)
(* of a set in ascending order.                                            *)
Just(k, v) == [q \in {k} |-> v]
Onto(f, g) == [q \in DOMAIN f \union DOMAIN g |-> IF q \in DOMAIN f THEN f[q] ELSE g[q]]
Ascending(S) == CHOOSE s \in [1..Cardinality(S) -> S] : \A m, n \in DOMAIN s : m < n => s[m] < s[n]

Handles == (1..Slots) \X Nat
NoEntity == <<0, 0>>     \* kInvalidEntity

(* A link is a number: a handle as Link gives it, or in a prefab, negative,*)
(* the place of the entity in the prefab.                                  *)
Link(h) == h[1] + (Slots + 1) * h[2]
Linked(n) == <<n % (Slots + 1), n \div (Slots + 1)>>

(* The free list has the unused slots at its bottom: createEntity takes a  *)
(* slot never used only when no other is free.                             *)
EmptyWorld == [gen  |-> [i \in 1..Slots |-> 0],
               ent  |-> << >>,
               free |-> [i \in 1..Slots |-> Slots + 1 - i]]

IsAlive_IndexOnly(w, h) == h[1] \in DOMAIN w.ent      \* mutant
IsAlive(w, h) == h[1] \in DOMAIN w.ent /\ w.gen[h[1]] = h[2]

Living(w) == {<<i, w.gen[i]>> : i \in DOMAIN w.ent}

NextHandle(w) == <<Last(w.free), w.gen[Last(w.free)]>>

Room(w, n) == Len(w.free) >= n

(* createEntity and the addComponent calls that follow it.                 *)
Created(w, comps) == [gen  |-> w.gen,
                      ent  |-> Onto(Just(Last(w.free), comps), w.ent),
                      free |-> Front(w.free)]

Destroyed(w, h) == [gen  |-> [w.gen EXCEPT ![h[1]] = @ + 1],
                    ent  |-> [i \in DOMAIN w.ent \ {h[1]} |-> w.ent[i]],
                    free |-> Append(w.free, h[1])]

Kill(w, h) == IF IsAlive(w, h) THEN Destroyed(w, h) ELSE w

Of(w, h) == w.ent[h[1]]
Has(w, h, k) == IsAlive(w, h) /\ k \in DOMAIN Of(w, h)
Placed(w, h, comps) == [gen  |-> w.gen,
                        ent  |-> [w.ent EXCEPT ![h[1]] = comps],
                        free |-> w.free]
Written(w, h, k, v) == Placed(w, h, Onto(Just(k, v), Of(w, h)))

(* Kills living entities, in slot order (the code: in archetype order).    *)
KillAll(w, hs) ==
    LET slots == {h[1] : h \in hs}
    IN  [gen  |-> [i \in 1..Slots |-> IF i \in slots THEN w.gen[i] + 1 ELSE w.gen[i]],
         ent  |-> [i \in DOMAIN w.ent \ slots |-> w.ent[i]],
         free |-> w.free \o Ascending(slots)]
------------------------------------------------------------------------------
(* Commands: what push and redo execute, what undo undoes.  A command      *)
(* carries the handles and the values it was built with.                   *)
Command(k, e, src, from, to) == [k |-> k, e |-> e, src |-> src, from |-> from, to |-> to]

CreateCommand == Command("create", NoEntity, NoEntity, << >>, Just("tr", 0))
DestroyCommand(w, h) ==      \* the constructor keeps the Name and the Transform only
    Command("destroy", h, NoEntity,
            [k \in DOMAIN Of(w, h) \intersect {"tr"} |-> Of(w, h)[k]], << >>)
DuplicateCommand(h) == Command("duplicate", NoEntity, h, << >>, << >>)
BodyCommand(h, from, to) == Command("body", h, NoEntity, Just("body", from), Just("body", to))
PrefabCommand == Command("prefab", NoEntity, NoEntity, << >>, << >>)

(* An operation on a world: the world after it and the command as it is    *)
(* kept, with the handle it now names.                                     *)
Result(w, c) == [w |-> w, c |-> c]

Apply(w, c, comps) ==      \* ColliderResizeCommand::apply, MaterialChangeCommand::apply
    Result(IF Has(w, c.e, "body") THEN Written(w, c.e, "body", comps["body"]) ELSE w, c)

Make(w, c, comps) == Result(Created(w, comps), [c EXCEPT !.e = NextHandle(w)])

ExecCreate(w, c) == Make(w, c, c.to)
ExecDestroy(w, c) == Result(Kill(w, c.e), c)
ExecDuplicate(w, c) ==
    IF ~IsAlive(w, c.src) THEN Result(w, c)
    ELSE LET cleared == Kill(w, c.e)
         IN  Make(cleared, c, Of(cleared, c.src))

Execute(w, c) == CASE c.k = "create"    -> ExecCreate(w, c)
                   [] c.k = "destroy"   -> ExecDestroy(w, c)
                   [] c.k = "duplicate" -> ExecDuplicate(w, c)
                   [] c.k = "body"      -> Apply(w, c, c.to)
                   [] c.k = "prefab"    -> Result(w, c)

UndoMade(w, c) == Result(Kill(w, c.e), [c EXCEPT !.e = NoEntity])
UndoDestroy(w, c) == Make(w, c, c.from)

Revert(w, c) == CASE c.k \in {"create", "duplicate"} -> UndoMade(w, c)
                  [] c.k = "destroy"   -> UndoDestroy(w, c)
                  [] c.k = "body"      -> Apply(w, c, c.from)
                  [] c.k = "prefab"    -> Result(w, c)    \* the file is removed

NeedsRoom(c, undoing) == IF undoing THEN c.k = "destroy" ELSE c.k \in {"create", "duplicate"}
------------------------------------------------------------------------------
(* PrefabSerializer.  The subtree of an entity: a child is followed by its *)
(* handle, and taken even if it is gone.                                   *)
Subtree(w, root) ==
    LET child(h) == IF Has(w, h, "kid") THEN <<Linked(Of(w, h)["kid"])>> ELSE << >>
        kids == child(root)
    IN  <<root>> \o kids \o IF kids = << >> THEN << >> ELSE child(kids[1])

(* capture of a child that is gone reads the slot, whoever has it now; with*)
(* nobody in it the program does not survive.                              *)
Capturable(w, root) == \A n \in DOMAIN Subtree(w, root) : Subtree(w, root)[n][1] \in DOMAIN w.ent

(* The components of the subtree, its links turned into places.            *)
Captured(w, root) ==
    LET all == Subtree(w, root)
        Place(link) == SelectLastInSeq(all, LAMBDA h : h[1] = Linked(link)[1])
        Stored(comps) ==
            [k \in {q \in DOMAIN comps : q = "kid" => Place(comps[q]) > 0} |->
                IF k = "kid" THEN 0 - Place(comps[k]) ELSE comps[k]]
    IN  [n \in DOMAIN all |-> Stored(w.ent[all[n][1]])]

(* instantiate: all the entities, then their components, with links        *)
(* between the new ones.  A prefab reference added by the editor makes the *)
(* root a prefab instance.                                                 *)
Attached(comps, made) == [k \in DOMAIN comps |-> IF k = "kid" /\ comps[k] < 0
                                                 THEN Link(made[0 - comps[k]]) ELSE comps[k]]
Instantiated(w, prefab, more) ==
    LET slot(n) == w.free[Len(w.free) + 1 - n]
        made == [n \in DOMAIN prefab |-> <<slot(n), w.gen[slot(n)]>>]
        comps(n) == IF n = 1 THEN Onto(more, Attached(prefab[1], made)) ELSE Attached(prefab[n], made)
    IN  [gen  |-> w.gen,
         ent  |-> Onto(w.ent, [i \in {slot(n) : n \in DOMAIN prefab} |->
                                 comps(CHOOSE n \in DOMAIN prefab : slot(n) = i)]),
         free |-> SubSeq(w.free, 1, Len(w.free) - Len(prefab))]

(* SceneSerializer::save: the components of every living entity, in the    *)
(* order of the entity table.  (Archetype order is taken as slot order: no *)
(* handle outlives a load.)                                                *)
Saved(w) == LET order == Ascending(DOMAIN w.ent)
            IN  [n \in DOMAIN order |-> w.ent[order[n]]]

(* SceneSerializer::load into a fresh world.  The prefab of an instance,   *)
(* if it is found, is instantiated anew; then the saved components         *)
(* overwrite what is there or are added, links as they were.               *)
LoadOne(w, comps, prefab) == IF "pre" \in DOMAIN comps /\ prefab # << >>
                             THEN Instantiated(w, prefab, comps) ELSE Created(w, comps)
Loaded(file, prefab) ==
    LET after[n \in 0..Len(file)] ==
            IF n = 0 THEN EmptyWorld ELSE LoadOne(after[n - 1], file[n], prefab)
    IN  after[Len(file)]

LoadSize(file, prefab) ==
    LET instances == Cardinality({n \in DOMAIN file : "pre" \in DOMAIN file[n]})
    IN  Len(file) + IF prefab = << >> THEN 0 ELSE instances * (Len(prefab) - 1)
==============================================================================
