----------------------------- MODULE PhysicsWorld -----------------------------
(***************************************************************************)
(* The physics world: bodies in a vector found through their ids, a tree   *)
(* over the static ones that is rebuilt when it is marked dirty, contact   *)
(* tests spread over worker tasks, character controllers, trigger volumes  *)
(* that report to the event bus, and the lag compensator that moves bodies *)
(* to where they were, casts a ray and puts them back.  The geometry is    *)
(* that of a vertical line; a step lasts one unit of time, masses are 1 or *)
(* 0, damping and the solver's slop are left out.                          *)
(***************************************************************************)
EXTENDS CharacterController, StaticBVH, Functions, TLC

CONSTANTS Entities,       \* <<index, generation>>
          Templates,      \* what addRigidBody is given: <<entity, [type, mass, enabled, shape]>>
          Character,      \* the capsule of a character controller
          Starts,         \* where bodies and triggers are put
          Workers,        \* threadCount()
          Reach,          \* bound: bodies are stepped while within it
          MaxBodies, MaxCalls, MaxSteps      \* bounds

ASSUME PhysicsAssumption ==
    /\ Entities \subseteq Nat \X Nat /\ Starts \subseteq Int
    /\ Workers \in Nat \ {0}
    /\ {Reach, MaxBodies, MaxCalls, MaxSteps} \subseteq Nat

VARIABLES
    bodies, idToIndex, nextId,
    tree, dirty,          \* staticBVH, staticDirty
    triggers, active, bus,        \* active: activeOverlaps; bus: eventBus is set
    work,                 \* the step under way: its dynamic bodies and tasks
    told,                 \* history: key -> TRUE while its last event was an enter
    shot,                 \* what the last call, a rewind, hit; else NoShot
    calls, steps          \* bounds

physics == <<bodies, idToIndex, nextId, tree, dirty>>
volumes == <<triggers, active, bus, told>>
vars == <<bodies, idToIndex, nextId, tree, dirty, triggers, active, bus, work, told,
          shot, calls, steps>>

NoShot == [hist |-> << >>, hit |-> << >>]
Gravity == -1
Baumgarte(depth) == depth \div 5
Resting == [pc |-> "idle", dyn |-> << >>, todo |-> {}, found |-> [t \in 0..Workers - 1 |-> << >>]]

Init == /\ bodies = << >> /\ idToIndex = << >> /\ nextId = 1
        /\ tree = << >> /\ dirty = TRUE
        /\ triggers = << >> /\ active = << >> /\ bus = FALSE
        /\ work = Resting /\ told = << >> /\ shot = NoShot /\ calls = 0 /\ steps = 0

Between == work.pc = "idle"            \* the world's functions are synchronous
Spend == Between /\ calls < MaxCalls /\ calls' = calls + 1
Call == Spend /\ shot' = NoShot
------------------------------------------------------------------------------
(* Bodies.                                                                 *)
IsDynamic(b) == b.type = "dynamic" /\ ~b.cc
Pushed(b) == /\ bodies' = Append(bodies, [b EXCEPT !.id = nextId])
             /\ idToIndex' = (nextId :> Len(bodies) + 1) @@ idToIndex
             /\ nextId' = nextId + 1

AddRigidBody(e, t, pos) ==
    /\ Call /\ Len(bodies) < MaxBodies
    /\ Pushed([id |-> 0, ent |-> e, pos |-> pos, vel |-> 0, force |-> 0, type |-> t.type,
               mass |-> t.mass, shape |-> t.shape, enabled |-> t.enabled, cc |-> FALSE,
               want |-> 0, grounded |-> FALSE, coyote |-> 0])
    /\ dirty' = TRUE
    /\ UNCHANGED <<tree, volumes, work, steps>>

(* The body keeps the default RigidBody, which is dynamic; no rebuild.     *)
AddCharacterController(e, pos) ==
    /\ Call /\ Len(bodies) < MaxBodies
    /\ Pushed([id |-> 0, ent |-> e, pos |-> pos, vel |-> 0, force |-> 0, type |-> "dynamic",
               mass |-> 1, shape |-> Character, enabled |-> TRUE, cc |-> TRUE,
               want |-> 0, grounded |-> FALSE, coyote |-> 0])
    /\ UNCHANGED <<tree, dirty, volumes, work, steps>>

(* Impl::remove: the last body takes the place of the removed one.         *)
WithoutBody(id) ==
    LET i == idToIndex[id]  last == Len(bodies)
    IN  [bs |-> SubSeq([bodies EXCEPT ![i] = bodies[last]], 1, last - 1),
         ix |-> [k \in DOMAIN idToIndex \ {id} |->
                     IF k = bodies[last].id THEN i ELSE idToIndex[k]]]

RemoveBody(id) ==
    /\ Call
    /\ IF id \notin DOMAIN idToIndex THEN UNCHANGED physics
       ELSE /\ bodies' = WithoutBody(id).bs /\ idToIndex' = WithoutBody(id).ix
            /\ dirty' = TRUE /\ UNCHANGED <<nextId, tree>>
    /\ UNCHANGED <<volumes, work, steps>>

Moved(bs, S, pos) == [i \in DOMAIN bs |-> IF i \in S THEN [bs[i] EXCEPT !.pos = pos] ELSE bs[i]]
Taints_Never(S) == FALSE
Taints(S) == \E i \in S : bodies[i].type = "static"

SetTransform(id, pos) ==
    /\ Call /\ id \in DOMAIN idToIndex
    /\ bodies' = Moved(bodies, {idToIndex[id]}, pos)
    /\ dirty' = (dirty \/ Taints({idToIndex[id]}))
    /\ UNCHANGED <<idToIndex, nextId, tree, volumes, work, steps>>

BodiesOf(e) == {i \in DOMAIN bodies : bodies[i].ent = e}
SetTransformByEntity(e, pos) ==
    /\ Call
    /\ bodies' = Moved(bodies, BodiesOf(e), pos)
    /\ dirty' = (dirty \/ Taints(BodiesOf(e)))
    /\ UNCHANGED <<idToIndex, nextId, tree, volumes, work, steps>>

(* setLinearVelocity, applyForce and setDesiredVelocity.                   *)
Push(id, v) ==
    /\ Call /\ id \in DOMAIN idToIndex
    /\ LET i == idToIndex[id]
       IN  \/ bodies' = [bodies EXCEPT ![i].vel = v]
           \/ bodies[i].type = "dynamic" /\ bodies' = [bodies EXCEPT ![i].force = @ + v]
           \/ bodies[i].cc /\ bodies' = [bodies EXCEPT ![i].want = v]
    /\ UNCHANGED <<idToIndex, nextId, tree, dirty, volumes, work, steps>>
------------------------------------------------------------------------------
(* A step: rebuild, integrate the velocities, deal the dynamic bodies out. *)
StaticEntry(i) == [body |-> i, aabb |-> ComputeAABB(bodies[i].shape, bodies[i].pos)]
InTree(i) == ~bodies[i].cc /\ bodies[i].enabled /\ bodies[i].type = "static"
Indices(P(_)) == SelectSeq([i \in DOMAIN bodies |-> i], P)
RebuildStaticBVH ==
    LET s == Indices(InTree) IN Build([k \in DOMAIN s |-> StaticEntry(s[k])])

Integrated(b) == IF ~IsDynamic(b) \/ b.mass = 0 THEN b
                 ELSE [b EXCEPT !.vel = @ + Gravity + b.force, !.force = 0]

Begin(t, n) == (n * t) \div Workers                     \* of the slice of task t
Slice(t) == Begin(t, Len(work.dyn)) + 1..Begin(t + 1, Len(work.dyn))

StepBegin ==
    /\ Between /\ steps < MaxSteps
    /\ \A i \in DOMAIN bodies : bodies[i].pos \in -Reach..Reach
    /\ steps' = steps + 1 /\ shot' = NoShot
    /\ tree' = IF dirty THEN RebuildStaticBVH ELSE tree
    /\ dirty' = FALSE
    /\ bodies' = [i \in DOMAIN bodies |-> Integrated(bodies[i])]
    /\ LET dyn == Indices(LAMBDA i : IsDynamic(bodies[i]) /\ bodies[i].enabled)
       IN  work' = [Resting EXCEPT !.pc = "detect", !.dyn = dyn,
                        !.todo = {t \in 0..Workers - 1 :
                                      Begin(t, Len(dyn)) < Begin(t + 1, Len(dyn))}]
    /\ UNCHANGED <<idToIndex, nextId, volumes, calls>>

(* A task reads the bodies and the tree and writes its own contacts.       *)
Touching(i, j) ==
    LET m == NarrowPhase(bodies[i].shape, bodies[i].pos, bodies[j].shape, bodies[j].pos)
    IN  [k \in DOMAIN m |-> [dyn |-> i, normal |-> m[k].normal, depth |-> m[k].depth]]
Candidates(i) == Query(tree, ComputeAABB(bodies[i].shape, bodies[i].pos))

RunTask(t) ==
    /\ work.pc = "detect" /\ t \in work.todo
    /\ LET seen(i) == FlattenSeq([k \in DOMAIN Candidates(i) |-> Touching(i, Candidates(i)[k])])
           mine == SelectSeq([k \in DOMAIN work.dyn |-> k], LAMBDA k : k \in Slice(t))
       IN  work' = [work EXCEPT !.todo = @ \ {t},
                        !.found[t] = FlattenSeq([k \in DOMAIN mine |-> seen(work.dyn[mine[k]])])]
    /\ UNCHANGED <<physics, volumes, shot, calls, steps>>

Merged == FlattenSeq([t \in 1..Workers |-> work.found[t - 1]])
------------------------------------------------------------------------------
(* The rest of the step: solve, move, characters, triggers.                *)
Solve(bs, c) ==
    LET b == bs[c.dyn]  vn == b.vel * c.normal
    IN  IF vn >= 0 \/ b.mass = 0 THEN bs
        ELSE [bs EXCEPT ![c.dyn].vel = @ - vn * c.normal,
                        ![c.dyn].pos = @ + c.normal * Baumgarte(c.depth)]

Drift(b) == IF IsDynamic(b) THEN [b EXCEPT !.pos = @ + b.vel] ELSE b

(* The characters move straight up and down among the bodies.              *)
Standing(b) == [shape |-> b.shape, at |-> Up(b.pos), type |-> b.type, cc |-> b.cc]
Placed(bs) == [i \in DOMAIN bs |-> Standing(bs[i])]
Updated(bs, b) ==
    LET c == UpdateCharacter(Placed(bs), Character,
                 [at |-> Up(b.pos), want |-> Up(b.want), grounded |-> b.grounded, coyote |-> b.coyote])
    IN  [b EXCEPT !.pos = c.at[2], !.grounded = c.grounded, !.coyote = c.coyote]

(* Overlaps are keyed by the two entity indices; a body is widened by 0.5  *)
(* or 0.3, here by one.  A subscriber is told of each new key, and of each *)
(* key that is gone.                                                       *)
Key(t, b) == <<t.ent[1], b.ent[1]>>
Overlaps(t, b) == b.type = "dynamic" /\ b.ent # t.ent /\ Abs(b.pos - t.center) <= t.half + 1
CurrentOverlaps(bs) ==
    LET pairs == {<<t, b>> \in Range(triggers) \X Range(bs) : Overlaps(t, b)}
    IN  [k \in {Key(p[1], p[2]) : p \in pairs} |->
            LET p == CHOOSE q \in pairs : Key(q[1], q[2]) = k IN [trig |-> p[1].ent, ent |-> p[2].ent]]
Reporting == bus /\ triggers # << >>
Entered(now) == DOMAIN now \ DOMAIN active
Left_Known(now) == {k \in DOMAIN active \ DOMAIN now : \E b \in Range(bodies) : b.ent[1] = k[2]}
Left(now) == DOMAIN active \ DOMAIN now

StepEnd ==
    /\ work.pc = "detect" /\ work.todo = {}
    /\ LET solved == FoldLeft(Solve, bodies, Merged)
           drifted == [i \in DOMAIN solved |-> Drift(solved[i])]
           final == [i \in DOMAIN drifted |->
                        IF drifted[i].cc THEN Updated(drifted, drifted[i]) ELSE drifted[i]]
           now == CurrentOverlaps(final)
       IN  /\ bodies' = final
           /\ IF ~Reporting THEN UNCHANGED <<active, told>>
              ELSE /\ active' = now
                   /\ told' = [k \in DOMAIN told \union Entered(now) |->
                                  k \in Entered(now) \/ (told[k] /\ k \notin Left(now))]
    /\ work' = Resting
    /\ UNCHANGED <<idToIndex, nextId, tree, dirty, triggers, bus, shot, calls, steps>>
------------------------------------------------------------------------------
(* Trigger volumes.  Triggers are forgotten by the whole entity, overlaps  *)
(* by its index, and without an exit event.                                *)
Kept(e) == SelectSeq(triggers, LAMBDA t : t.ent # e)
Unheard(f, e) == [k \in {x \in DOMAIN f : x[1] # e[1]} |-> f[k]]

SetEventBus(on) ==
    Call /\ bus' = on /\ UNCHANGED <<physics, triggers, active, told, work, steps>>

RemoveTrigger(e) ==
    /\ Call /\ triggers' = Kept(e)
    /\ active' = Unheard(active, e)
    /\ told' = [k \in {x \in DOMAIN told : x[1] # e[1]} |-> told[k]]
    /\ UNCHANGED <<physics, bus, work, steps>>

AddTrigger(e, pos) ==
    /\ Call /\ triggers' = Append(Kept(e), [ent |-> e, center |-> pos, half |-> 1])
    /\ active' = Unheard(active, e)
    /\ told' = [k \in {x \in DOMAIN told : x[1] # e[1]} |-> told[k]]
    /\ UNCHANGED <<physics, bus, work, steps>>

UpdateTrigger(e, pos) ==
    /\ Call
    /\ LET mine == {i \in DOMAIN triggers : triggers[i].ent = e}
       IN  triggers' = IF mine = {} THEN triggers
                       ELSE [triggers EXCEPT ![CHOOSE i \in mine : \A j \in mine : i <= j].center = pos]
    /\ UNCHANGED <<physics, active, bus, told, work, steps>>
------------------------------------------------------------------------------
(* LagCompensator: for each entity of the history, in turn, save where its *)
(* first body is and move all of them; cast the ray; move all of them back.*)
Raycast(bs, origin, dir, limit) ==     \* <<entity>> of the nearest, or << >>
    LET t(b) == CASE b.shape.kind = "sphere" -> RayVsSphere(Up(origin), Up(dir), Up(b.pos), b.shape.r)
                  [] b.shape.kind = "box" -> RayVsBox(Up(origin), Up(dir), Up(b.pos), b.shape.r)
                  [] OTHER -> RayVsCapsule(Up(origin), Up(dir), Up(b.pos), b.shape)
        reached == {i \in DOMAIN bs : ~bs[i].cc /\ t(bs[i]) \in 0..limit - 1}
        nearest == {i \in reached : \A k \in reached : t(bs[i]) <= t(bs[k])}
    IN  IF nearest = {} THEN << >>
        ELSE <<bs[CHOOSE i \in nearest : \A k \in nearest : i <= k].ent>>

LiveAt(bs, e) == LET mine == {i \in DOMAIN bs : bs[i].ent = e}
                 IN  IF mine = {} THEN 0 ELSE bs[CHOOSE i \in mine : \A j \in mine : i <= j].pos
PutAll(bs, places) ==      \* setTransformByEntity for each of a sequence <<entity, place>>
    FoldLeft(LAMBDA acc, p : Moved(acc, {i \in DOMAIN acc : acc[i].ent = p[1]}, p[2]), bs, places)

Restored_Last(bs, saved) == IF saved = << >> THEN bs ELSE PutAll(bs, <<Last(saved)>>)
Restored(bs, saved) == PutAll(bs, saved)

RewindAndRaycast(history) ==
    /\ Spend
    /\ LET saved == [k \in DOMAIN history |-> <<history[k][1], LiveAt(bodies, history[k][1])>>]
       IN  /\ bodies' = Restored(PutAll(bodies, history), saved)
           /\ dirty' = (dirty \/ \E k \in DOMAIN history : Taints(BodiesOf(history[k][1])))
    /\ shot' = [hist |-> history, hit |-> Raycast(PutAll(bodies, history), -Reach, 1, 2 * Reach)]
    /\ UNCHANGED <<idToIndex, nextId, tree, volumes, work, steps>>

Histories == {s \in UNION {[1..n -> Entities \X Starts] : n \in 1..2} :
                  \A i, j \in DOMAIN s : s[i][1] = s[j][1] => i = j}

Next == \/ \E t \in Templates, pos \in Starts : AddRigidBody(t[1], t[2], pos)
        \/ \E e \in Entities, pos \in Starts :
               \/ AddCharacterController(e, pos) \/ SetTransformByEntity(e, pos)
               \/ AddTrigger(e, pos) \/ UpdateTrigger(e, pos)
        \/ \E id \in 1..nextId - 1 : \/ RemoveBody(id) \/ \E pos \in Starts : SetTransform(id, pos)
                                     \/ Push(id, -2)
        \/ \E e \in Entities : RemoveTrigger(e)
        \/ \E on \in BOOLEAN : SetEventBus(on)
        \/ \E h \in Histories : RewindAndRaycast(h)
        \/ StepBegin \/ StepEnd \/ \E t \in 0..Workers - 1 : RunTask(t)

Spec == Init /\ [][Next]_vars
------------------------------------------------------------------------------
TypeOK == /\ DOMAIN idToIndex = {bodies[i].id : i \in DOMAIN bodies}
          /\ \A i \in DOMAIN bodies : idToIndex[bodies[i].id] = i /\ bodies[i].id < nextId
          /\ {dirty, bus} \subseteq BOOLEAN /\ DOMAIN active \subseteq DOMAIN told
          /\ calls \in 0..MaxCalls /\ steps \in 0..MaxSteps

(* While staticDirty is not set, a query of the tree finds exactly the     *)
(* enabled static bodies it should, by the place they have in the vector   *)
(* now, each once: every way to add, move or remove one marks it, and      *)
(* appending a character does not need to.                                 *)
CleanTreeExact ==
    Between /\ ~dirty =>
        \A lo \in -Reach..Reach, w \in {0, 2} :
            LET q == Query(tree, <<lo, lo + w>>)
            IN  /\ Range(q) = {i \in DOMAIN bodies :
                       InTree(i) /\ Intersects(StaticEntry(i).aabb, <<lo, lo + w>>)}
                /\ Len(q) = Cardinality(Range(q))

(* Whatever order the tasks ran in, what they found together is what one   *)
(* loop over all pairs of a dynamic and a static body would have found:    *)
(* nothing invented and nothing told twice, and nothing missed between     *)
(* bodies without a localOffset, which only the bounding boxes heed.       *)
Detected == work.pc = "detect" /\ work.todo = {}
Collided == {p \in Range(work.dyn) \X {k \in DOMAIN bodies : InTree(k)} : Touching(p[1], p[2]) # NoContact}
Plain(p) == bodies[p[1]].shape.off = 0 /\ bodies[p[2]].shape.off = 0
ContactsOf(pairs) == UNION {Range(Touching(p[1], p[2])) : p \in pairs}
ContactsExact ==
    Detected =>
        LET plain == {p \in Collided : Plain(p)}
        IN  /\ ContactsOf(plain) \subseteq Range(Merged) /\ Range(Merged) \subseteq ContactsOf(Collided)
            /\ Len(Merged) \in Cardinality(plain)..Cardinality(Collided)

(* A step collides with the world as it is: ids lead to their bodies, the  *)
(* tree is that of the bodies, and the tasks divide the work exactly.      *)
CollisionsExact == TypeOK /\ CleanTreeExact /\ ContactsExact

(* activeOverlaps is the listeners' picture: a pair of indices is in it    *)
(* exactly when the last event they had about it was an enter, unless the  *)
(* trigger was added again or removed in between.                          *)
ToldMatchesActive == DOMAIN active = {k \in DOMAIN told : told[k]}

(* A character that does not overlap a solid it can be swept against is    *)
(* not moved into one by a step straight up or down, whatever order bodies *)
(* are stored in.                                                          *)
InSolid(bs, pos) ==
    \E b \in ToSet(Placed(bs)) : /\ ~b.cc /\ b.shape.kind \in {"box", "sphere"}
                                 /\ Overlapping(Character, Up(pos), b)
CharacterStaysOut ==
    [][work.pc = "detect" /\ work'.pc = "idle" =>
          \A i \in DOMAIN bodies : bodies[i].cc /\ ~InSolid(bodies', bodies[i].pos)
                                      => ~InSolid(bodies', bodies'[i].pos)]_vars

(* Move-and-slide "resolves penetration without tunnelling"                *)
(* (docs/developer/06_physics_movement.md:81), to the side as well, as far *)
(* as the sweeps of internal/NarrowPhase.cpp can: they cast the two ends   *)
(* of the capsule, so that it is a box tall enough for it that no step     *)
(* leads into or through.  Asked before the first move, of capsules and    *)
(* boxes of several sizes, from everywhere around, with a ball in between. *)
Solid(kind, r, at) ==
    [shape |-> [kind |-> kind, r |-> r, h |-> 0, off |-> 0], at |-> at, type |-> "static", cc |-> FALSE]
Walks(far) == {Times(far, d) : d \in {<<1, 0>>, <<-1, 0>>, <<0, 1>>, <<0, -1>>}}
WallsHold ==
    calls = 0 /\ steps = 0 =>
        \A h, half \in 0..3, at \in (-Reach..Reach) \X (-Reach..Reach), want \in Walks(2) \union Walks(Reach) :
            LET capsule == [Character EXCEPT !.h = h]
                wall == Solid("box", half, <<0, 0>>)
                c == [at |-> at, want |-> want, grounded |-> FALSE, coyote |-> 0]
            IN  Tall(capsule, wall) =>
                    ~Enters(capsule, at, UpdateCharacter(<<Solid("sphere", 1, <<2, -1>>), wall>>, capsule, c).at, wall)

(* A rewind leaves every body where it was, if its entity has no other.    *)
RewindLeavesNoTrace ==
    shot' # NoShot =>
        \A i \in DOMAIN bodies : BodiesOf(bodies[i].ent) = {i} => bodies'[i] = bodies[i]

(* The ray sees every body of an entity of the history where it was, and   *)
(* the others where they are.                                              *)
ShotSeesThePast ==
    shot' # NoShot =>
        LET there == DOMAIN shot'.hist
            past == [i \in DOMAIN bodies |->
                       LET k == {x \in there : shot'.hist[x][1] = bodies[i].ent}
                       IN  IF k = {} THEN bodies[i]
                           ELSE [bodies[i] EXCEPT !.pos = shot'.hist[CHOOSE x \in k : TRUE][2]]]
        IN  shot'.hit = Raycast(past, -Reach, 1, 2 * Reach)

(* A shot is answered by the world as it was, and the world goes on as if  *)
(* nobody had asked.                                                       *)
RewindIsLocal == [][RewindLeavesNoTrace /\ ShotSeesThePast]_vars
==============================================================================
