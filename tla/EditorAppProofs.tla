--------------------------- MODULE EditorAppProofs ----------------------------
(***************************************************************************)
(* What a session of the editor guarantees for any number of slots, scenes, *)
(* files and gestures and any cap of the undo stack: a clean title means   *)
(* that the file holds the scene, nothing marked is lost unasked, undo     *)
(* keeps to its own entity and a prefab to its own links, and the end of   *)
(* play restores what play changed.  The world, the stacks and the dialog  *)
(* are typed first; then what each operation on a world leaves of it; then *)
(* the handlers, which only compose those.                                 *)
(***************************************************************************)
EXTENDS EditorApp, SequenceTheorems, FiniteSetTheorems, WellFoundedInduction, TLAPS

(* What the parts of a state are made of.                                  *)
Keys == {"tr", "body", "pre", "kid"}
Components == {c \in UNION {[K -> Int] : K \in SUBSET Keys} :
                  "body" \in DOMAIN c => c["body"] \in Sizes}
Tables == UNION {[D -> Components] : D \in SUBSET (1..Slots)}
Worlds == [gen : [1..Slots -> Nat], ent : Tables, free : Seq(1..Slots)]

Kinds == {"create", "destroy", "duplicate", "body", "prefab"}
Commands == {c \in [k : Kinds, e : Nat \X Nat, src : Nat \X Nat, from : Components, to : Components] :
                c.k = "body" => "body" \in DOMAIN c.from \intersect DOMAIN c.to}

Paths == Files \union {""}
SceneFiles == {NoFile, BadFile} \union [is : {"scene"}, ents : Seq(Components)]
PrefabFiles == [is : {"none", "bad", "prefab"}, ents : Seq(Components)]

Editors == [world : Worlds, id : Nat, undo : Seq(Commands), redo : Seq(Commands),
            dirty : BOOLEAN, path : Paths, disk : [Files -> SceneFiles],
            prefab : PrefabFiles, sel : Nat \X Nat, open : BOOLEAN,
            pending : {"none", "new", "open", "close"}, target : Paths,
            shown : BOOLEAN, running : BOOLEAN, crashed : BOOLEAN, drift : BOOLEAN]

(* Every slot is in use or once in the free list.                          *)
WorldOK(w) ==
    /\ w \in Worlds
    /\ \A m, n \in DOMAIN w.free : w.free[m] = w.free[n] => m = n
    /\ \A i \in 1..Slots : i \in DOMAIN w.ent <=> \A m \in DOMAIN w.free : w.free[m] # i

(* The links of a prefab stay inside of it.                                *)
LinksInside(ents) ==
    \A n \in DOMAIN ents : "kid" \in DOMAIN ents[n] => 0 - ents[n]["kid"] \in DOMAIN ents

(* The stacks hold Cap commands together, and a creation that was undone   *)
(* names no entity.                                                        *)
HistoryOK(d) ==
    /\ Len(d.undo) + Len(d.redo) <= Cap
    /\ \A n \in DOMAIN d.redo : d.redo[n].k \in {"create", "duplicate"} => d.redo[n].e = NoEntity

DialogOK(d) == /\ d.open <=> d.pending \in {"new", "open", "close"}
               /\ d.pending = "open" => d.target \in Files

EditorOK(d) == /\ d \in Editors /\ WorldOK(d.world) /\ LinksInside(d.prefab.ents)
               /\ HistoryOK(d) /\ DialogOK(d)

PlayOK == /\ pie.state \in {"stopped", "playing"} /\ pie.saved \in BOOLEAN
          /\ pie = [state |-> pie.state, scene |-> pie.scene, snap |-> pie.snap, saved |-> pie.saved]
          /\ pie.state = "stopped" => pie = Stopped
          /\ \A h \in DOMAIN pie.snap : h \in Handles /\ pie.snap[h] \in Components

(* The table of entities ent is what d's file holds; a scene without a     *)
(* file is empty.                                                          *)
OnDisk(d, ent) ==
    IF d.path = "" THEN DOMAIN ent = {}
    ELSE d.disk[d.path] \in {SceneFile([ent |-> ent]), BadFile}

(* The table that a snapshot was taken of.                                 *)
TableOf(snap) == [i \in {h[1] : h \in DOMAIN snap} |-> snap[CHOOSE h \in DOMAIN snap : h[1] = i]]

CleanOK(d, ent) == (d.running /\ ~d.dirty /\ ~d.drift) => OnDisk(d, ent)
CleanOnDisk == ~Playing => CleanOK(ed, ed.world.ent)

(* While playing, what the file holds is the snapshot, as long as nothing  *)
(* was marked and nothing saved, and the scene is the one that is played.  *)
SnapshotOnDisk ==
    (Playing /\ ~pie.saved /\ pie.scene = ed.id) => CleanOK(ed, TableOf(pie.snap))

EditorInv == /\ EditorOK(ed) /\ ed.id \in 1..MaxScenes
             /\ edits \in 0..MaxEdits /\ drag \in Sizes \union {-1}
             /\ PlayOK /\ CleanOnDisk /\ SnapshotOnDisk
------------------------------------------------------------------------------
(* Facts about numbers and finite sets that the proofs below need.         *)

(* Quotient and remainder.                                                 *)
LEMMA DivMod ==
    ASSUME NEW M \in Nat, M > 0, NEW a \in Int
    PROVE  /\ a % M \in 0..(M - 1)
           /\ a \div M \in Int
           /\ a = M * (a \div M) + (a % M)
OBVIOUS

(* multiple of M.                                                          *)
LEMMA ModUnique ==
    ASSUME NEW M \in Nat, M > 0, NEW q \in Int, NEW r \in 0..(M - 1)
    PROVE  (M * q + r) % M = r
<1> DEFINE a == M * q + r
<1>1. a \in Int
  OBVIOUS
<1>2. /\ a % M \in 0..(M - 1)
      /\ a \div M \in Int
      /\ a = M * (a \div M) + (a % M)
  BY <1>1, DivMod
<1>3. M * (q - (a \div M)) = (a % M) - r
  BY <1>2
<1>4. CASE q - (a \div M) >= 1
  <2>1. M * (q - (a \div M)) >= M
    BY <1>2, <1>4
  <2>2. QED
    BY <2>1, <1>2, <1>3
<1>5. CASE q - (a \div M) <= -1
  <2>1. M * (q - (a \div M)) <= -M
    BY <1>2, <1>5
  <2>2. QED
    BY <2>1, <1>2, <1>3
<1>6. CASE q = a \div M
  BY <1>2, <1>6
<1>7. QED
  BY <1>2, <1>4, <1>5, <1>6

(* integer-valued function is greatest.                                    *)
LEMMA FiniteMax ==
    ASSUME NEW H, IsFiniteSet(H), H # {}, NEW f \in [H -> Int]
    PROVE  \E i \in H : \A j \in H : f[j] <= f[i]
<1> DEFINE After(i) == {j \in H : f[i] <= f[j]}
           T == {After(i) : i \in H}
<1>1. \A i \in H : f[i] \in Int
  OBVIOUS
<1>2. ASSUME NEW i \in H PROVE After(i) \in FiniteSubsetsOf(H)
  <2>1. After(i) \in SUBSET H
    OBVIOUS
  <2> HIDE DEF After
  <2>2. IsFiniteSet(After(i))
    BY <2>1, FS_Subset
  <2> QED BY <2>1, <2>2 DEF FiniteSubsetsOf
<1>3. T \subseteq FiniteSubsetsOf(H)
  BY <1>2
<1>4. T # {}
  <2>1. PICK i : i \in H
    OBVIOUS
  <2>2. After(i) \in T
    BY <2>1
  <2> QED BY <2>2
<1>5. IsWellFoundedOn(StrictSubsetOrdering(H), FiniteSubsetsOf(H))
  BY FS_StrictSubsetOrderingWellFounded
<1>6. PICK x \in T : \A y \in T : ~ (<<y, x>> \in StrictSubsetOrdering(H))
  BY <1>3, <1>4, <1>5, WFMin
<1>7. PICK i \in H : x = After(i)
  OBVIOUS
<1>8. ASSUME NEW j \in H PROVE f[j] <= f[i]
  <2> SUFFICES ASSUME f[i] < f[j] PROVE FALSE
    BY <1>1
  <2>1. After(j) \in T /\ After(j) \in SUBSET H /\ After(i) \in SUBSET H
    OBVIOUS
  <2>2. ASSUME NEW k \in After(j) PROVE k \in After(i)
    <3>1. k \in H /\ f[j] <= f[k]
      OBVIOUS
    <3> QED BY <1>1, <3>1
  <2>3. i \in After(i)
    BY <1>1
  <2>4. i \notin After(j)
    BY <1>1
  <2> QED BY <1>6, <1>7, <2>1, <2>2, <2>3, <2>4 DEF StrictSubsetOrdering
<1> QED BY <1>8

(* Induction over the natural numbers, with a set for the predicate: the   *)
(* way every recursive definition of this module is reasoned about.        *)
LEMMA SetInduction ==
    ASSUME NEW S, 0 \in S, \A n \in Nat : n \in S => n + 1 \in S
    PROVE  Nat \subseteq S
<1> DEFINE T == Nat \ S
<1> SUFFICES ASSUME T # {} PROVE FALSE
  OBVIOUS
<1>1. PICK n \in T : \A m \in T : ~(<<m, n>> \in OpToRel(<, Nat))
  <2>1. T \subseteq Nat
    OBVIOUS
  <2> HIDE DEF T
  <2> QED BY <2>1, NatLessThanWellFounded, WFMin
<1>2. n \in Nat /\ n # 0
  OBVIOUS
<1>3. n - 1 \in Nat /\ n - 1 < n
  BY <1>2
<1>4. n - 1 \notin T
  <2>1. <<n - 1, n>> \in OpToRel(<, Nat)
    BY <1>2, <1>3 DEF OpToRel
  <2> QED BY <1>1, <2>1
<1>5. (n - 1) + 1 \in S
  BY <1>3, <1>4
<1> QED BY <1>2, <1>5
------------------------------------------------------------------------------
(* Components and tables.                                                  *)
LEMMA ComponentsByKeys ==
    ASSUME NEW K \in SUBSET Keys, NEW c \in [K -> Int], "body" \in K => c["body"] \in Sizes
    PROVE  c \in Components
BY DEF Components

LEMMA ComponentsHave ==
    ASSUME NEW c \in Components
    PROVE  /\ DOMAIN c \in SUBSET Keys /\ c \in [DOMAIN c -> Int]
           /\ \A k \in DOMAIN c : c[k] \in Int
           /\ "body" \in DOMAIN c => c["body"] \in Sizes
BY DEF Components

LEMMA NoComponents == << >> \in Components
<1>1. {} \in SUBSET Keys /\ << >> \in [{} -> Int]
  OBVIOUS
<1> QED BY <1>1, ComponentsByKeys

LEMMA SizesAreNumbers == Sizes \subseteq Int /\ Poses \subseteq Int /\ 0 \in Sizes /\ -1 \notin Sizes
BY WorldAssumption

(* A component by itself.                                                  *)
LEMMA JustOK ==
    ASSUME NEW k \in Keys, NEW v \in Int, k = "body" => v \in Sizes
    PROVE  Just(k, v) \in Components /\ DOMAIN Just(k, v) = {k} /\ Just(k, v)[k] = v
<1>1. {k} \in SUBSET Keys /\ Just(k, v) \in [{k} -> Int] /\ Just(k, v)[k] = v
  BY DEF Just
<1>2. "body" \in {k} => Just(k, v)["body"] \in Sizes
  BY <1>1
<1>3. Just(k, v) \in Components
  BY <1>1, <1>2, ComponentsByKeys
<1> QED BY <1>1, <1>3

(* A set of components over another.                                       *)
LEMMA OntoIs ==
    ASSUME NEW f, NEW g
    PROVE  /\ DOMAIN Onto(f, g) = DOMAIN f \union DOMAIN g
           /\ \A q \in DOMAIN f : Onto(f, g)[q] = f[q]
           /\ \A q \in DOMAIN g : q \notin DOMAIN f => Onto(f, g)[q] = g[q]
           /\ Onto(f, g) = [q \in DOMAIN f \union DOMAIN g |-> Onto(f, g)[q]]
BY DEF Onto

LEMMA OntoOK ==
    ASSUME NEW f \in Components, NEW g \in Components
    PROVE  Onto(f, g) \in Components
<1> DEFINE K == DOMAIN f \union DOMAIN g
<1>1. K \in SUBSET Keys
  BY ComponentsHave
<1>2. ASSUME NEW q \in K PROVE Onto(f, g)[q] \in Int /\ (q = "body" => Onto(f, g)[q] \in Sizes)
  <2>1. /\ q \in DOMAIN f => f[q] \in Int /\ (q = "body" => f[q] \in Sizes)
        /\ q \in DOMAIN g => g[q] \in Int /\ (q = "body" => g[q] \in Sizes)
    BY ComponentsHave
  <2>2. Onto(f, g)[q] = IF q \in DOMAIN f THEN f[q] ELSE g[q]
    BY DEF Onto
  <2> QED BY <2>1, <2>2
<1>3. Onto(f, g) \in [K -> Int]
  BY <1>2, OntoIs
<1> QED BY <1>1, <1>2, <1>3, ComponentsByKeys

(* Some of the components.                                                 *)
LEMMA SomeOK ==
    ASSUME NEW c \in Components, NEW K \in SUBSET DOMAIN c
    PROVE  [k \in K |-> c[k]] \in Components
<1>1. K \in SUBSET Keys /\ [k \in K |-> c[k]] \in [K -> Int]
  BY ComponentsHave
<1>2. "body" \in K => [k \in K |-> c[k]]["body"] \in Sizes
  BY ComponentsHave
<1> QED BY <1>1, <1>2, ComponentsByKeys

LEMMA TablesByRows ==
    ASSUME NEW t, t = [i \in DOMAIN t |-> t[i]], DOMAIN t \subseteq 1..Slots,
           \A i \in DOMAIN t : t[i] \in Components
    PROVE  t \in Tables
<1>1. t \in [DOMAIN t -> Components]
  OBVIOUS
<1> QED BY <1>1 DEF Tables

LEMMA TablesHave ==
    ASSUME NEW t \in Tables
    PROVE  /\ t = [i \in DOMAIN t |-> t[i]] /\ DOMAIN t \subseteq 1..Slots
           /\ \A i \in DOMAIN t : t[i] \in Components
BY DEF Tables
------------------------------------------------------------------------------
(* Worlds.                                                                 *)
LEMMA SlotsIsNat == Slots \in Nat
BY WorldAssumption

LEMMA SeqHas ==
    ASSUME NEW S, NEW s \in Seq(S)
    PROVE  /\ Len(s) \in Nat /\ DOMAIN s = 1..Len(s) /\ s = [n \in 1..Len(s) |-> s[n]]
           /\ \A n \in 1..Len(s) : s[n] \in S
OBVIOUS

LEMMA WorldHas ==
    ASSUME NEW w, WorldOK(w)
    PROVE  /\ w.gen \in [1..Slots -> Nat] /\ w.ent \in Tables /\ w.free \in Seq(1..Slots)
           /\ \A i \in 1..Slots : w.gen[i] \in Nat
           /\ DOMAIN w.ent \subseteq 1..Slots
           /\ \A i \in DOMAIN w.ent : w.ent[i] \in Components
           /\ Len(w.free) \in Nat /\ DOMAIN w.free = 1..Len(w.free)
           /\ \A n \in 1..Len(w.free) : w.free[n] \in 1..Slots /\ w.free[n] \notin DOMAIN w.ent
           /\ \A m, n \in 1..Len(w.free) : w.free[m] = w.free[n] => m = n
           /\ \A i \in 1..Slots : i \notin DOMAIN w.ent => \E n \in 1..Len(w.free) : w.free[n] = i
           /\ w = [gen |-> w.gen, ent |-> w.ent, free |-> w.free]
<1>1. /\ w.gen \in [1..Slots -> Nat] /\ w.ent \in Tables /\ w.free \in Seq(1..Slots)
      /\ w = [gen |-> w.gen, ent |-> w.ent, free |-> w.free]
  BY DEF WorldOK, Worlds
<1>2. DOMAIN w.ent \subseteq 1..Slots /\ \A i \in DOMAIN w.ent : w.ent[i] \in Components
  BY <1>1, TablesHave
<1>3. /\ Len(w.free) \in Nat /\ DOMAIN w.free = 1..Len(w.free)
      /\ \A n \in 1..Len(w.free) : w.free[n] \in 1..Slots
  BY <1>1, SeqHas
<1>4. /\ \A n \in 1..Len(w.free) : w.free[n] \notin DOMAIN w.ent
      /\ \A m, n \in 1..Len(w.free) : w.free[m] = w.free[n] => m = n
      /\ \A i \in 1..Slots : i \notin DOMAIN w.ent => \E n \in 1..Len(w.free) : w.free[n] = i
  BY <1>3 DEF WorldOK
<1> QED BY <1>1, <1>2, <1>3, <1>4

LEMMA WorldByParts ==
    ASSUME NEW g \in [1..Slots -> Nat], NEW t \in Tables, NEW f \in Seq(1..Slots),
           \A m, n \in 1..Len(f) : f[m] = f[n] => m = n,
           \A n \in 1..Len(f) : f[n] \notin DOMAIN t,
           \A i \in 1..Slots : i \notin DOMAIN t => \E n \in 1..Len(f) : f[n] = i
    PROVE  WorldOK([gen |-> g, ent |-> t, free |-> f])
<1> DEFINE w == [gen |-> g, ent |-> t, free |-> f]
<1>1. w \in Worlds /\ w.gen = g /\ w.ent = t /\ w.free = f
  BY DEF Worlds
<1>2. DOMAIN f = 1..Len(f)
  OBVIOUS
<1> HIDE DEF w
<1>3. WorldOK(w)
  BY <1>1, <1>2 DEF WorldOK
<1> QED BY <1>3 DEF w

LEMMA FrontIs ==
    ASSUME NEW S, NEW s \in Seq(S), Len(s) >= 1
    PROVE  /\ Front(s) \in Seq(S) /\ Len(Front(s)) = Len(s) - 1
           /\ \A n \in 1..Len(s) - 1 : Front(s)[n] = s[n]
           /\ Last(s) = s[Len(s)] /\ Last(s) \in S
<1>1. Len(s) \in Nat /\ \A n \in 1..Len(s) : s[n] \in S
  BY SeqHas
<1>2. Front(s) = SubSeq(s, 1, Len(s) - 1) /\ Last(s) = s[Len(s)]
  BY DEF Front, Last
<1>3. Len(s) - 1 \in Nat /\ Len(s) \in 1..Len(s) /\ Len(s) - 1 - 1 + 1 = Len(s) - 1
  BY <1>1
<1>4. /\ SubSeq(s, 1, Len(s) - 1) \in Seq(S) /\ Len(SubSeq(s, 1, Len(s) - 1)) = Len(s) - 1
      /\ \A n \in 1..Len(s) - 1 : SubSeq(s, 1, Len(s) - 1)[n] = s[n]
  BY <1>1, <1>3
<1> QED BY <1>1, <1>2, <1>3, <1>4

(* createEntity takes a slot that was free and touches no other.           *)
LEMMA CreatedOK ==
    ASSUME NEW w, WorldOK(w), Room(w, 1), NEW c \in Components
    PROVE  LET i == Last(w.free)  u == Created(w, c)
           IN  /\ WorldOK(u) /\ Len(u.free) = Len(w.free) - 1
               /\ i \in 1..Slots /\ i \notin DOMAIN w.ent
               /\ u.gen = w.gen /\ DOMAIN u.ent = DOMAIN w.ent \union {i} /\ u.ent[i] = c
               /\ \A j \in DOMAIN w.ent : u.ent[j] = w.ent[j]
               /\ \A n \in 1..Len(u.free) : u.free[n] = w.free[n]
<1> DEFINE i == Last(w.free)
           t == Onto(Just(i, c), w.ent)
           f == Front(w.free)
           v == [gen |-> w.gen, ent |-> t, free |-> f]
<1>1. Len(w.free) >= 1
  BY DEF Room
<1>2. /\ f \in Seq(1..Slots) /\ Len(f) = Len(w.free) - 1 /\ i = w.free[Len(w.free)]
      /\ \A n \in 1..Len(w.free) - 1 : f[n] = w.free[n]
      /\ i \in 1..Slots /\ Len(w.free) \in Nat
  BY <1>1, WorldHas, FrontIs
<1>3. i \notin DOMAIN w.ent
  BY <1>1, <1>2, WorldHas
<1>4. /\ DOMAIN t = DOMAIN w.ent \union {i} /\ t[i] = c
      /\ \A j \in DOMAIN w.ent : t[j] = w.ent[j]
      /\ t = [j \in DOMAIN t |-> t[j]]
  BY <1>3 DEF Onto, Just
<1>5. t \in Tables
  <2>1. DOMAIN t \subseteq 1..Slots /\ \A j \in DOMAIN t : t[j] \in Components
    BY <1>2, <1>4, WorldHas
  <2> QED BY <1>4, <2>1, TablesByRows
<1>6. Created(w, c) = v
  BY DEF Created
<1>7. WorldOK(v)
  <2>1. \A m, n \in 1..Len(f) : f[m] = f[n] => m = n
    BY <1>2, WorldHas
  <2>2. \A n \in 1..Len(f) : f[n] \notin DOMAIN t
    <3> SUFFICES ASSUME NEW n \in 1..Len(f) PROVE f[n] \notin DOMAIN t
      OBVIOUS
    <3>1. f[n] = w.free[n] /\ n \in 1..Len(w.free) /\ n # Len(w.free) /\ Len(w.free) \in 1..Len(w.free)
      BY <1>1, <1>2
    <3>2. f[n] \notin DOMAIN w.ent /\ f[n] # i
      BY <1>2, <3>1, WorldHas
    <3> QED BY <1>4, <3>2
  <2>3. \A j \in 1..Slots : j \notin DOMAIN t => \E n \in 1..Len(f) : f[n] = j
    <3> SUFFICES ASSUME NEW j \in 1..Slots, j \notin DOMAIN t PROVE \E n \in 1..Len(f) : f[n] = j
      OBVIOUS
    <3>1. PICK n \in 1..Len(w.free) : w.free[n] = j
      BY <1>4, WorldHas
    <3>2. n # Len(w.free)
      BY <1>2, <1>4, <3>1
    <3>3. n \in 1..Len(w.free) - 1
      BY <1>2, <3>2
    <3> QED BY <1>2, <3>1, <3>3
  <2> HIDE DEF i, t, f
  <2> QED BY <1>2, <1>5, <2>1, <2>2, <2>3, WorldHas, WorldByParts
<1> HIDE DEF i, t, f
<1> QED BY <1>2, <1>3, <1>4, <1>6, <1>7 DEF i

(* A slot under its next generation.                                       *)
LEMMA Newer ==
    ASSUME NEW g \in [1..Slots -> Nat], NEW i \in 1..Slots
    PROVE  LET u == [g EXCEPT ![i] = @ + 1]
           IN  /\ u \in [1..Slots -> Nat] /\ u[i] = g[i] + 1
               /\ \A j \in 1..Slots : j # i => u[j] = g[j]
OBVIOUS

(* destroyEntity frees the slot under a new generation.                    *)
LEMMA DestroyedOK ==
    ASSUME NEW w, WorldOK(w), NEW h, h[1] \in DOMAIN w.ent
    PROVE  LET u == Destroyed(w, h)
           IN  /\ WorldOK(u) /\ Len(u.free) = Len(w.free) + 1
               /\ DOMAIN u.ent = DOMAIN w.ent \ {h[1]}
               /\ u.gen[h[1]] = w.gen[h[1]] + 1
               /\ \A j \in DOMAIN u.ent : u.ent[j] = w.ent[j] /\ u.gen[j] = w.gen[j]
               /\ \A j \in 1..Slots : j # h[1] => u.gen[j] = w.gen[j]
<1> DEFINE i == h[1]
           t == [j \in DOMAIN w.ent \ {i} |-> w.ent[j]]
           g == [w.gen EXCEPT ![i] = @ + 1]
           f == Append(w.free, i)
           v == [gen |-> g, ent |-> t, free |-> f]
<1>1. i \in 1..Slots /\ g \in [1..Slots -> Nat] /\ g[i] = w.gen[i] + 1
  <2>1. i \in 1..Slots /\ w.gen \in [1..Slots -> Nat] /\ w.gen[i] \in Nat
    BY WorldHas
  <2> QED BY <2>1, Newer
<1>2. \A j \in 1..Slots : j # i => g[j] = w.gen[j]
  BY <1>1, WorldHas, Newer
<1>3. t \in Tables
  <2>1. DOMAIN t \subseteq 1..Slots /\ \A j \in DOMAIN t : t[j] \in Components
    BY WorldHas
  <2> QED BY <2>1, TablesByRows
<1>4. /\ f \in Seq(1..Slots) /\ Len(f) = Len(w.free) + 1 /\ f[Len(w.free) + 1] = i
      /\ \A n \in 1..Len(w.free) : f[n] = w.free[n]
  BY <1>1, WorldHas
<1>5. Destroyed(w, h) = v
  BY DEF Destroyed
<1>6. WorldOK(v)
  <2>1. \A m, n \in 1..Len(f) : f[m] = f[n] => m = n
    <3>1. \A n \in 1..Len(f) : n = Len(w.free) + 1 \/ n \in 1..Len(w.free)
      BY <1>4, WorldHas
    <3>2. \A n \in 1..Len(w.free) : f[n] # i
      BY <1>4, WorldHas
    <3> QED BY <1>4, <3>1, <3>2, WorldHas
  <2>2. \A n \in 1..Len(f) : f[n] \notin DOMAIN t
    <3>1. \A n \in 1..Len(f) : n = Len(w.free) + 1 \/ n \in 1..Len(w.free)
      BY <1>4, WorldHas
    <3> QED BY <1>4, <3>1, WorldHas
  <2>3. \A j \in 1..Slots : j \notin DOMAIN t => \E n \in 1..Len(f) : f[n] = j
    <3> SUFFICES ASSUME NEW j \in 1..Slots, j \notin DOMAIN t PROVE \E n \in 1..Len(f) : f[n] = j
      OBVIOUS
    <3>1. CASE j = i
      <4>1. Len(w.free) + 1 \in 1..Len(f)
        BY <1>4, WorldHas
      <4> QED BY <1>4, <3>1, <4>1
    <3>2. CASE j # i
      <4>1. PICK n \in 1..Len(w.free) : w.free[n] = j
        BY <3>2, WorldHas
      <4>2. n \in 1..Len(f)
        BY <1>4, WorldHas
      <4> QED BY <1>4, <4>1, <4>2
    <3> QED BY <3>1, <3>2
  <2> HIDE DEF i, t, f, g
  <2> QED BY <1>1, <1>3, <1>4, <2>1, <2>2, <2>3, WorldByParts
<1>7. DOMAIN t = DOMAIN w.ent \ {i} /\ \A j \in DOMAIN t : t[j] = w.ent[j] /\ j \in 1..Slots /\ j # i
  BY WorldHas
<1> HIDE DEF t, f, g
<1> QED BY <1>1, <1>2, <1>4, <1>5, <1>6, <1>7
LEMMA KillOK ==
    ASSUME NEW w, WorldOK(w), NEW h
    PROVE  LET u == Kill(w, h)
           IN  /\ WorldOK(u) /\ Len(u.free) >= Len(w.free)
               /\ IsAlive(w, h) => DOMAIN u.ent = DOMAIN w.ent \ {h[1]}
               /\ ~IsAlive(w, h) => DOMAIN u.ent = DOMAIN w.ent
               /\ \A j \in DOMAIN u.ent : u.ent[j] = w.ent[j] /\ u.gen[j] = w.gen[j]
<1>1. CASE IsAlive(w, h)
  <2>1. h[1] \in DOMAIN w.ent /\ Kill(w, h) = Destroyed(w, h)
    BY <1>1 DEF Kill, IsAlive
  <2>2. Len(w.free) \in Nat
    BY WorldHas
  <2> QED BY <1>1, <2>1, <2>2, DestroyedOK
<1>2. CASE ~IsAlive(w, h)
  <2>1. Kill(w, h) = w /\ Len(w.free) \in Nat
    BY <1>2, WorldHas DEF Kill
  <2> QED BY <1>2, <2>1
<1> QED BY <1>1, <1>2

(* The components of one entity are replaced.                              *)
LEMMA PlacedOK ==
    ASSUME NEW w, WorldOK(w), NEW h, h[1] \in DOMAIN w.ent, NEW c \in Components
    PROVE  LET u == Placed(w, h, c)
           IN  /\ WorldOK(u) /\ u.gen = w.gen /\ u.free = w.free
               /\ DOMAIN u.ent = DOMAIN w.ent /\ u.ent[h[1]] = c
               /\ \A j \in DOMAIN w.ent : j # h[1] => u.ent[j] = w.ent[j]
<1> DEFINE t == [w.ent EXCEPT ![h[1]] = c]
<1>1. /\ DOMAIN t = DOMAIN w.ent /\ t[h[1]] = c /\ t = [i \in DOMAIN t |-> t[i]]
      /\ \A j \in DOMAIN w.ent : j # h[1] => t[j] = w.ent[j]
  BY WorldHas, TablesHave
<1>2. t \in Tables
  <2>1. \A i \in DOMAIN t : t[i] \in Components
    BY <1>1, WorldHas
  <2>2. DOMAIN t \subseteq 1..Slots
    BY <1>1, WorldHas
  <2> HIDE DEF t
  <2> QED BY <1>1, <2>1, <2>2, TablesByRows
<1>3. Placed(w, h, c) = [gen |-> w.gen, ent |-> t, free |-> w.free]
  BY DEF Placed
<1>4. WorldOK([gen |-> w.gen, ent |-> t, free |-> w.free])
  <2> HIDE DEF t
  <2> QED BY <1>1, <1>2, WorldHas, WorldByParts
<1> HIDE DEF t
<1> QED BY <1>1, <1>3, <1>4

LEMMA WrittenOK ==
    ASSUME NEW w, WorldOK(w), NEW h, h[1] \in DOMAIN w.ent,
           NEW k \in Keys, NEW v \in Int, k = "body" => v \in Sizes
    PROVE  LET u == Written(w, h, k, v)
           IN  /\ WorldOK(u) /\ u.gen = w.gen /\ u.free = w.free /\ DOMAIN u.ent = DOMAIN w.ent
               /\ \A j \in DOMAIN w.ent : j # h[1] => u.ent[j] = w.ent[j]
<1>1. Of(w, h) \in Components
  BY WorldHas DEF Of
<1>2. Onto(Just(k, v), Of(w, h)) \in Components
  BY <1>1, JustOK, OntoOK
<1> QED BY <1>2, PlacedOK DEF Written
------------------------------------------------------------------------------
(* The numbers of a set of slots in ascending order.                       *)
LEMMA PartOfInterval ==
    ASSUME NEW N \in Nat, NEW S \in SUBSET (1..N)
    PROVE  /\ IsFiniteSet(S) /\ Cardinality(S) \in Nat
           /\ \A i \in S : i \in Nat /\ i <= N
<1>1. IsFiniteSet(1..N)
  BY FS_Interval
<1>2. IsFiniteSet(S)
  BY <1>1, FS_Subset
<1> QED BY <1>2, FS_CardinalityType
LEMMA OrderExists ==
    ASSUME NEW N \in Nat, NEW S \in SUBSET (1..N)
    PROVE  /\ IsFiniteSet(S) /\ Cardinality(S) \in Nat
           /\ \E s \in [1..Cardinality(S) -> S] : \A m, n \in DOMAIN s : m < n => s[m] < s[n]
<1> DEFINE Sorts(s, T) == s \in [1..Cardinality(T) -> T] /\ \A m, n \in 1..Cardinality(T) : m < n => s[m] < s[n]
           Sortable == {k \in Nat : \A T \in SUBSET (1..k) : \E s : Sorts(s, T)}
<1>2. 0 \in Sortable
  <2>0. ASSUME NEW T \in SUBSET (1..0) PROVE \E s : Sorts(s, T)
    <3>1. T = {}
      OBVIOUS
    <3>2. Cardinality(T) = 0
      BY <3>1, FS_EmptySet
    <3>3. Sorts(<< >>, T)
      BY <3>1, <3>2
    <3> QED BY <3>3
  <2> HIDE DEF Sorts
  <2> QED BY <2>0
<1>3. ASSUME NEW k \in Nat, k \in Sortable PROVE k + 1 \in Sortable
  <2> SUFFICES ASSUME NEW T \in SUBSET (1..(k + 1)) PROVE \E s : Sorts(s, T)
    <3> HIDE DEF Sorts
    <3> QED OBVIOUS
  <2>1. CASE k + 1 \notin T
    <3>1. T \in SUBSET (1..k)
      BY <2>1
    <3> QED BY <1>3, <3>1
  <2>2. CASE k + 1 \in T
    <3> DEFINE R == T \ {k + 1}
               c == Cardinality(R)
    <3>1. R \in SUBSET (1..k)
      OBVIOUS
    <3>2. PICK r : Sorts(r, R)
      BY <1>3, <3>1
    <3> DEFINE s == [m \in 1..c + 1 |-> IF m = c + 1 THEN k + 1 ELSE r[m]]
    <3>3. IsFiniteSet(T) /\ IsFiniteSet(R) /\ c \in Nat /\ Cardinality(T) \in Nat
      <4>1. k + 1 \in Nat
        OBVIOUS
      <4> QED BY <3>1, <4>1, PartOfInterval
    <3>4. Cardinality(T) = c + 1
      BY <2>2, <3>3, FS_RemoveElement
    <3>5. \A m \in 1..c : r[m] \in R /\ r[m] \in Int /\ r[m] < k + 1
      <4>1. \A m \in 1..c : r[m] \in R
        BY <3>2
      <4>2. \A i \in R : i \in Int /\ i < k + 1
        BY <3>1
      <4> QED BY <4>1, <4>2
    <3>6. \A m \in 1..c + 1 : s[m] \in T
      BY <2>2, <3>3, <3>5
    <3>7. \A m, n \in 1..c + 1 : m < n => s[m] < s[n]
      <4> SUFFICES ASSUME NEW m \in 1..c + 1, NEW n \in 1..c + 1, m < n PROVE s[m] < s[n]
        OBVIOUS
      <4>1. m \in 1..c /\ s[m] = r[m]
        BY <3>3
      <4>2. CASE n = c + 1
        BY <3>5, <4>1, <4>2
      <4>3. CASE n # c + 1
        <5>1. n \in 1..c /\ s[n] = r[n]
          BY <3>3, <4>3
        <5> QED BY <3>2, <4>1, <5>1
      <4> QED BY <4>2, <4>3
    <3>8. s \in [1..c + 1 -> T]
      BY <3>6
    <3>9. Sorts(s, T)
      BY <3>4, <3>7, <3>8
    <3> QED BY <3>9
  <2> QED BY <2>1, <2>2
<1>4. N \in Sortable
  <2> HIDE DEF Sortable
  <2> QED BY <1>2, <1>3, SetInduction
<1>5. PICK s : Sorts(s, S)
  BY <1>4
<1>6. DOMAIN s = 1..Cardinality(S)
  BY <1>5
<1> QED BY <1>5, <1>6, PartOfInterval

LEMMA AscendingIs ==
    ASSUME NEW N \in Nat, NEW S \in SUBSET (1..N)
    PROVE  /\ IsFiniteSet(S) /\ Cardinality(S) \in Nat
           /\ Ascending(S) \in Seq(S) /\ Len(Ascending(S)) = Cardinality(S)
           /\ \A m, n \in 1..Cardinality(S) : Ascending(S)[m] = Ascending(S)[n] => m = n
           /\ \A i \in S : \E n \in 1..Cardinality(S) : Ascending(S)[n] = i
<1> DEFINE s == Ascending(S)
           c == Cardinality(S)
<1>1. IsFiniteSet(S) /\ c \in Nat
  BY OrderExists
<1>2. s \in [1..c -> S] /\ \A m, n \in DOMAIN s : m < n => s[m] < s[n]
  BY OrderExists DEF Ascending
<1> HIDE DEF s
<1>3. \A m \in 1..c : s[m] \in S /\ s[m] \in Int
  <2>1. \A m \in 1..c : s[m] \in S
    BY <1>2
  <2>2. \A i \in S : i \in Int
    OBVIOUS
  <2> HIDE DEF c
  <2> QED BY <2>1, <2>2
<1>4. \A m, n \in 1..c : s[m] = s[n] => m = n
  <2> SUFFICES ASSUME NEW m \in 1..c, NEW n \in 1..c, s[m] = s[n], m # n PROVE FALSE
    OBVIOUS
  <2>1. m \in DOMAIN s /\ n \in DOMAIN s /\ (m < n \/ n < m)
    BY <1>1, <1>2
  <2> QED BY <1>2, <1>3, <2>1
<1>5. s \in Injection(1..c, S)
  BY <1>2, <1>4 DEF Injection, IsInjective
<1>6. Cardinality(1..c) = c
  BY <1>1, FS_Interval
<1>7. s \in Surjection(1..c, S)
  BY <1>1, <1>5, <1>6, FS_Injection
<1>8. \A i \in S : \E n \in 1..c : s[n] = i
  BY <1>7 DEF Surjection
<1>9. s \in Seq(S) /\ Len(s) = c
  BY <1>1, <1>2
<1> QED BY <1>1, <1>4, <1>8, <1>9 DEF s

LEMMA ConcatIs ==
    ASSUME NEW S, NEW f \in Seq(S), NEW a \in Seq(S)
    PROVE  /\ f \o a \in Seq(S) /\ Len(f \o a) = Len(f) + Len(a)
           /\ \A n \in 1..Len(f) : n \in 1..Len(f \o a) /\ (f \o a)[n] = f[n]
           /\ \A n \in 1..Len(a) : /\ Len(f) + n \in 1..Len(f \o a)
                                   /\ (f \o a)[Len(f) + n] = a[n]
           /\ \A n \in 1..Len(f \o a) : n \in 1..Len(f) \/ \E k \in 1..Len(a) : n = Len(f) + k
<1>1. f \o a \in Seq(S) /\ Len(f \o a) = Len(f) + Len(a) /\ Len(f) \in Nat /\ Len(a) \in Nat
  OBVIOUS
<1>2. \A n \in 1..Len(f) : n \in 1..Len(f \o a) /\ (f \o a)[n] = f[n]
  OBVIOUS
<1>3. \A n \in 1..Len(a) : Len(f) + n \in 1..Len(f \o a) /\ (f \o a)[Len(f) + n] = a[n]
  OBVIOUS
<1>4. ASSUME NEW n \in 1..Len(f \o a), n \notin 1..Len(f)
      PROVE  n - Len(f) \in 1..Len(a) /\ n = Len(f) + (n - Len(f))
  BY <1>1, <1>4
<1> QED BY <1>1, <1>2, <1>3, <1>4

LEMMA SeqWiden ==
    ASSUME NEW S, NEW T, T \subseteq S, NEW s \in Seq(T)
    PROVE  s \in Seq(S)
<1>1. Len(s) \in Nat /\ s = [n \in 1..Len(s) |-> s[n]] /\ \A n \in 1..Len(s) : s[n] \in S
  OBVIOUS
<1>2. s \in [1..Len(s) -> S]
  BY <1>1
<1> QED BY <1>1, <1>2

(* Several living entities are destroyed.                                  *)
LEMMA KillAllOK ==
    ASSUME NEW w, WorldOK(w), NEW hs \in SUBSET Living(w)
    PROVE  LET u == KillAll(w, hs)
           IN  /\ WorldOK(u)
               /\ DOMAIN u.ent = DOMAIN w.ent \ {h[1] : h \in hs}
               /\ \A j \in DOMAIN u.ent : u.ent[j] = w.ent[j] /\ u.gen[j] = w.gen[j]
<1> DEFINE T == {h[1] : h \in hs}
           g == [i \in 1..Slots |-> IF i \in T THEN w.gen[i] + 1 ELSE w.gen[i]]
           t == [i \in DOMAIN w.ent \ T |-> w.ent[i]]
           a == Ascending(T)
           f == w.free \o a
<1>1. T \subseteq DOMAIN w.ent /\ T \in SUBSET (1..Slots)
  BY WorldHas DEF Living
<1>2. g \in [1..Slots -> Nat]
  BY WorldHas
<1>3. t \in Tables
  <2>1. DOMAIN t \subseteq 1..Slots /\ \A j \in DOMAIN t : t[j] \in Components
    BY WorldHas
  <2> QED BY <2>1, TablesByRows
<1>4. /\ a \in Seq(1..Slots) /\ Len(a) = Cardinality(T) /\ Cardinality(T) \in Nat
      /\ \A n \in 1..Len(a) : a[n] \in T
      /\ \A m, n \in 1..Len(a) : a[m] = a[n] => m = n
      /\ \A i \in T : \E n \in 1..Len(a) : a[n] = i
  <2> HIDE DEF T, a
  <2>1. /\ a \in Seq(T) /\ Len(a) = Cardinality(T) /\ Cardinality(T) \in Nat
        /\ \A m, n \in 1..Len(a) : a[m] = a[n] => m = n
        /\ \A i \in T : \E n \in 1..Len(a) : a[n] = i
    BY <1>1, SlotsIsNat, AscendingIs DEF a
  <2>2. \A n \in 1..Len(a) : a[n] \in T
    BY <2>1
  <2>3. a \in Seq(1..Slots)
    BY <1>1, <2>1, SeqWiden
  <2> QED BY <2>1, <2>2, <2>3
<1>5. KillAll(w, hs) = [gen |-> g, ent |-> t, free |-> f]
  BY DEF KillAll
<1>6. w.free \in Seq(1..Slots) /\ Len(w.free) \in Nat
  BY WorldHas
<1>7. /\ f \in Seq(1..Slots) /\ Len(f) = Len(w.free) + Len(a)
      /\ \A n \in 1..Len(w.free) : n \in 1..Len(f) /\ f[n] = w.free[n]
      /\ \A n \in 1..Len(a) : Len(w.free) + n \in 1..Len(f) /\ f[Len(w.free) + n] = a[n]
      /\ \A n \in 1..Len(f) : n \in 1..Len(w.free) \/ \E k \in 1..Len(a) : n = Len(w.free) + k
  <2> DEFINE D == 1..Slots
             e == w.free
  <2>1. a \in Seq(D) /\ e \in Seq(D) /\ f = e \o a
    BY <1>4, <1>6
  <2> HIDE DEF a, f, D, e
  <2>2. /\ e \o a \in Seq(D) /\ Len(e \o a) = Len(e) + Len(a)
        /\ \A n \in 1..Len(e) : n \in 1..Len(e \o a) /\ (e \o a)[n] = e[n]
        /\ \A n \in 1..Len(a) : Len(e) + n \in 1..Len(e \o a) /\ (e \o a)[Len(e) + n] = a[n]
        /\ \A n \in 1..Len(e \o a) : n \in 1..Len(e) \/ \E k \in 1..Len(a) : n = Len(e) + k
    BY <2>1, ConcatIs
  <2> QED BY <2>1, <2>2 DEF e, D
<1>8. \A n \in 1..Len(w.free) : w.free[n] \notin T
  BY <1>1, WorldHas
<1>9. DOMAIN t = DOMAIN w.ent \ T /\ \A j \in DOMAIN t : t[j] = w.ent[j] /\ g[j] = w.gen[j]
  BY WorldHas
<1>10. WorldOK([gen |-> g, ent |-> t, free |-> f])
  <2> HIDE DEF T, a, f, t, g
  <2>1. \A m, n \in 1..Len(f) : f[m] = f[n] => m = n
    <3> SUFFICES ASSUME NEW m \in 1..Len(f), NEW n \in 1..Len(f), f[m] = f[n] PROVE m = n
      OBVIOUS
    <3>1. CASE m \in 1..Len(w.free) /\ n \in 1..Len(w.free)
      <4>1. w.free[m] = w.free[n]
        BY <1>7, <3>1
      <4> QED BY <3>1, <4>1, WorldHas
    <3>2. CASE m \in 1..Len(w.free) /\ n \notin 1..Len(w.free)
      <4>1. PICK k \in 1..Len(a) : n = Len(w.free) + k
        BY <1>7, <3>2
      <4>2. f[n] \in T /\ f[m] \notin T
        BY <1>4, <1>7, <1>8, <3>2, <4>1
      <4> QED BY <4>2
    <3>3. CASE n \in 1..Len(w.free) /\ m \notin 1..Len(w.free)
      <4>1. PICK k \in 1..Len(a) : m = Len(w.free) + k
        BY <1>7, <3>3
      <4>2. f[m] \in T /\ f[n] \notin T
        BY <1>4, <1>7, <1>8, <3>3, <4>1
      <4> QED BY <4>2
    <3>4. CASE m \notin 1..Len(w.free) /\ n \notin 1..Len(w.free)
      <4>1. PICK k \in 1..Len(a) : m = Len(w.free) + k
        BY <1>7, <3>4
      <4>2. PICK l \in 1..Len(a) : n = Len(w.free) + l
        BY <1>7, <3>4
      <4>3. a[k] = a[l]
        BY <1>7, <4>1, <4>2
      <4> QED BY <1>4, <4>1, <4>2, <4>3
    <3> QED BY <3>1, <3>2, <3>3, <3>4
  <2>2. \A n \in 1..Len(f) : f[n] \notin DOMAIN t
    BY <1>4, <1>7, <1>9, WorldHas
  <2>3. \A j \in 1..Slots : j \notin DOMAIN t => \E n \in 1..Len(f) : f[n] = j
    <3> SUFFICES ASSUME NEW j \in 1..Slots, j \notin DOMAIN t PROVE \E n \in 1..Len(f) : f[n] = j
      OBVIOUS
    <3>1. CASE j \in T
      <4>1. PICK n \in 1..Len(a) : a[n] = j
        BY <1>4, <3>1
      <4>2. Len(w.free) + n \in 1..Len(f) /\ f[Len(w.free) + n] = j
        BY <1>7, <4>1
      <4> QED BY <4>2
    <3>2. CASE j \notin T
      <4>1. PICK n \in 1..Len(w.free) : w.free[n] = j
        BY <1>9, <3>2, WorldHas
      <4>2. n \in 1..Len(f)
        BY <1>4, <1>6, <1>7
      <4> QED BY <1>7, <4>1, <4>2
    <3> QED BY <3>1, <3>2
  <2> QED BY <1>2, <1>3, <1>7, <2>1, <2>2, <2>3, WorldByParts
<1>11. DOMAIN t = DOMAIN w.ent \ {h[1] : h \in hs}
  OBVIOUS
<1> HIDE DEF T, a, f, t, g
<1> QED BY <1>5, <1>9, <1>10, <1>11
------------------------------------------------------------------------------
(* Commands.  What u keeps of w, up to the entity that e names.            *)
KeepsOthers(w, u, e) ==
    \A h \in Living(w) \ {e} : IsAlive(u, h) /\ Of(u, h) = Of(w, h)

LEMMA LivingIs ==
    ASSUME NEW w, WorldOK(w), NEW h
    PROVE  /\ h \in Living(w) => /\ IsAlive(w, h) /\ h[1] \in DOMAIN w.ent /\ h[1] \in 1..Slots
                                 /\ h[2] = w.gen[h[1]] /\ h[2] \in Nat
                                 /\ h = <<h[1], w.gen[h[1]]>> /\ h \in Handles
           /\ (h \in Nat \X Nat /\ IsAlive(w, h)) => h \in Living(w) /\ h = <<h[1], w.gen[h[1]]>>
<1>1. ASSUME h \in Living(w)
      PROVE  /\ h[1] \in DOMAIN w.ent /\ h = <<h[1], w.gen[h[1]]>> /\ h[2] = w.gen[h[1]]
  BY <1>1 DEF Living
<1>2. ASSUME h \in Living(w) PROVE h[1] \in 1..Slots /\ h[2] \in Nat
  BY <1>1, <1>2, WorldHas
<1>3. ASSUME h \in Living(w) PROVE h \in Handles /\ IsAlive(w, h)
  BY <1>1, <1>2, <1>3 DEF Handles, IsAlive
<1>4. ASSUME h \in Nat \X Nat, IsAlive(w, h) PROVE h \in Living(w) /\ h = <<h[1], w.gen[h[1]]>>
  BY <1>4 DEF IsAlive, Living
<1> QED BY <1>1, <1>2, <1>3, <1>4

(* Slots other than one are as they were.                                  *)
LEMMA KeepsBySlot ==
    ASSUME NEW w, WorldOK(w), NEW u, NEW e,
           \A i \in DOMAIN w.ent : e # <<i, w.gen[i]>> =>
               i \in DOMAIN u.ent /\ u.ent[i] = w.ent[i] /\ u.gen[i] = w.gen[i]
    PROVE  KeepsOthers(w, u, e)
<1> SUFFICES ASSUME NEW h \in Living(w) \ {e}
             PROVE  IsAlive(u, h) /\ Of(u, h) = Of(w, h)
  BY DEF KeepsOthers
<1>1. h[1] \in DOMAIN w.ent /\ h[2] = w.gen[h[1]] /\ h = <<h[1], w.gen[h[1]]>>
  BY LivingIs
<1>2. h[1] \in DOMAIN u.ent /\ u.ent[h[1]] = w.ent[h[1]] /\ u.gen[h[1]] = w.gen[h[1]]
  BY <1>1
<1> QED BY <1>1, <1>2 DEF IsAlive, Of

LEMMA CommandHas ==
    ASSUME NEW c \in Commands
    PROVE  /\ c.k \in Kinds /\ c.e \in Nat \X Nat /\ c.src \in Nat \X Nat
           /\ c.from \in Components /\ c.to \in Components
           /\ c.k = "body" => "body" \in DOMAIN c.from /\ "body" \in DOMAIN c.to
BY DEF Commands

LEMMA Renamed ==
    ASSUME NEW c \in Commands, NEW e \in Nat \X Nat
    PROVE  LET d == [c EXCEPT !.e = e] IN d \in Commands /\ d.k = c.k /\ d.e = e
<1> DEFINE d == [c EXCEPT !.e = e]
           All == [k : Kinds, e : Nat \X Nat, src : Nat \X Nat, from : Components, to : Components]
<1>1. c \in All /\ (c.k = "body" => "body" \in DOMAIN c.from \intersect DOMAIN c.to)
  BY DEF Commands
<1>2. d \in All /\ d.k = c.k /\ d.from = c.from /\ d.to = c.to /\ d.e = e
  BY <1>1
<1> HIDE DEF d
<1>3. d \in Commands
  BY <1>1, <1>2 DEF Commands
<1> QED BY <1>2, <1>3 DEF d

LEMMA NextHandleOK ==
    ASSUME NEW w, WorldOK(w), Room(w, 1)
    PROVE  NextHandle(w) \in Nat \X Nat /\ NextHandle(w)[1] = Last(w.free)
<1>1. Last(w.free) \in 1..Slots
  BY CreatedOK, NoComponents
<1>2. w.gen[Last(w.free)] \in Nat /\ Last(w.free) \in Nat
  BY <1>1, WorldHas
<1> QED BY <1>2 DEF NextHandle

LEMMA MakeOK ==
    ASSUME NEW w, WorldOK(w), Room(w, 1), NEW c \in Commands, NEW comps \in Components
    PROVE  LET r == Make(w, c, comps)
           IN  /\ WorldOK(r.w) /\ r.c \in Commands /\ r.c.k = c.k
               /\ Len(r.w.free) = Len(w.free) - 1
               /\ \A e : KeepsOthers(w, r.w, e)
<1>1. Make(w, c, comps).w = Created(w, comps) /\ Make(w, c, comps).c = [c EXCEPT !.e = NextHandle(w)]
  BY DEF Make, Result
<1>2. /\ WorldOK(Created(w, comps)) /\ Len(Created(w, comps).free) = Len(w.free) - 1
      /\ Created(w, comps).gen = w.gen
      /\ \A j \in DOMAIN w.ent : /\ j \in DOMAIN Created(w, comps).ent
                                 /\ Created(w, comps).ent[j] = w.ent[j]
  BY CreatedOK
<1>3. \A e : KeepsOthers(w, Created(w, comps), e)
  BY <1>2, KeepsBySlot
<1> QED BY <1>1, <1>2, <1>3, NextHandleOK, Renamed

LEMMA ApplyOK ==
    ASSUME NEW w, WorldOK(w), NEW c \in Commands, NEW comps \in Components, "body" \in DOMAIN comps
    PROVE  LET r == Apply(w, c, comps)
           IN  /\ WorldOK(r.w) /\ r.c = c /\ r.w.free = w.free
               /\ KeepsOthers(w, r.w, c.e)
<1>1. CASE ~Has(w, c.e, "body")
  <2>1. Apply(w, c, comps).w = w /\ Apply(w, c, comps).c = c
    BY <1>1 DEF Apply, Result
  <2>2. KeepsOthers(w, w, c.e)
    BY KeepsBySlot
  <2> QED BY <2>1, <2>2
<1>2. CASE Has(w, c.e, "body")
  <2> DEFINE u == Written(w, c.e, "body", comps["body"])
  <2>1. Apply(w, c, comps).w = u /\ Apply(w, c, comps).c = c
    BY <1>2 DEF Apply, Result
  <2>2. IsAlive(w, c.e) /\ c.e[1] \in DOMAIN w.ent
    BY <1>2 DEF Has, IsAlive
  <2>3. comps["body"] \in Int /\ comps["body"] \in Sizes /\ "body" \in Keys
    BY ComponentsHave DEF Keys
  <2>4. /\ WorldOK(u) /\ u.gen = w.gen /\ u.free = w.free /\ DOMAIN u.ent = DOMAIN w.ent
        /\ \A j \in DOMAIN w.ent : j # c.e[1] => u.ent[j] = w.ent[j]
    BY <2>2, <2>3, WrittenOK
  <2>5. c.e = <<c.e[1], w.gen[c.e[1]]>>
    BY <2>2, LivingIs, CommandHas
  <2>6. KeepsOthers(w, u, c.e)
    <3> HIDE DEF u
    <3> QED BY <2>4, <2>5, KeepsBySlot
  <2> QED BY <2>1, <2>4, <2>6
<1> QED BY <1>1, <1>2

LEMMA KillKeeps ==
    ASSUME NEW w, WorldOK(w), NEW h, h \in Nat \X Nat
    PROVE  KeepsOthers(w, Kill(w, h), h)
<1>1. LET u == Kill(w, h)
      IN  /\ IsAlive(w, h) => DOMAIN u.ent = DOMAIN w.ent \ {h[1]}
          /\ ~IsAlive(w, h) => DOMAIN u.ent = DOMAIN w.ent
          /\ \A j \in DOMAIN u.ent : u.ent[j] = w.ent[j] /\ u.gen[j] = w.gen[j]
  BY KillOK
<1>2. IsAlive(w, h) => h = <<h[1], w.gen[h[1]]>>
  BY LivingIs
<1> QED BY <1>1, <1>2, KeepsBySlot

LEMMA ExecuteOK ==
    ASSUME NEW w, WorldOK(w), NEW c, c \in Commands, NeedsRoom(c, FALSE) => Room(w, 1),
           c.k = "duplicate" => c.e = NoEntity
    PROVE  LET r == Execute(w, c)
           IN  /\ WorldOK(r.w) /\ r.c \in Commands /\ r.c.k = c.k
               /\ Len(r.w.free) >= Len(w.free) - 1
               /\ KeepsOthers(w, r.w, c.e)
<1>0. /\ c.k \in Kinds /\ c.e \in Nat \X Nat /\ c.from \in Components /\ c.to \in Components
      /\ c.k = "body" => "body" \in DOMAIN c.to
      /\ Len(w.free) \in Nat
  BY CommandHas, WorldHas
<1>k. KeepsOthers(w, w, c.e)
  BY KeepsBySlot
<1>1. CASE c.k = "create"
  <2>1. Execute(w, c) = Make(w, c, c.to) /\ Room(w, 1)
    BY <1>1 DEF Execute, ExecCreate, NeedsRoom
  <2>2. LET r == Make(w, c, c.to)
        IN  /\ WorldOK(r.w) /\ r.c \in Commands /\ r.c.k = c.k
            /\ Len(r.w.free) = Len(w.free) - 1 /\ KeepsOthers(w, r.w, c.e)
    BY <1>0, <2>1, MakeOK
  <2> QED BY <1>0, <2>1, <2>2
<1>2. CASE c.k = "destroy"
  <2>1. Execute(w, c).w = Kill(w, c.e) /\ Execute(w, c).c = c
    BY <1>2 DEF Execute, ExecDestroy, Result
  <2>2. WorldOK(Kill(w, c.e)) /\ Len(Kill(w, c.e).free) >= Len(w.free) /\ Len(Kill(w, c.e).free) \in Nat
    BY KillOK, WorldHas
  <2>3. KeepsOthers(w, Kill(w, c.e), c.e)
    BY <1>0, KillKeeps
  <2> QED BY <1>0, <2>1, <2>2, <2>3
<1>3. CASE c.k = "duplicate"
  <2>1. CASE ~IsAlive(w, c.src)
    <3>1. Execute(w, c).w = w /\ Execute(w, c).c = c
      BY <1>3, <2>1 DEF Execute, ExecDuplicate, Result
    <3> QED BY <1>0, <1>k, <3>1
  <2>2. CASE IsAlive(w, c.src)
    <3>1. Kill(w, c.e) = w
      BY <1>3, WorldHas DEF Kill, IsAlive, NoEntity
    <3>2. Execute(w, c) = Make(w, c, Of(w, c.src)) /\ Room(w, 1)
      BY <1>3, <2>2, <3>1 DEF Execute, ExecDuplicate, NeedsRoom
    <3>3. Of(w, c.src) \in Components
      BY <2>2, WorldHas DEF IsAlive, Of
    <3>4. LET r == Make(w, c, Of(w, c.src))
          IN  /\ WorldOK(r.w) /\ r.c \in Commands /\ r.c.k = c.k
              /\ Len(r.w.free) = Len(w.free) - 1 /\ KeepsOthers(w, r.w, c.e)
      BY <1>0, <3>2, <3>3, MakeOK
    <3> QED BY <1>0, <3>2, <3>4
  <2> QED BY <2>1, <2>2
<1>4. CASE c.k = "body"
  <2>1. Execute(w, c) = Apply(w, c, c.to)
    BY <1>4 DEF Execute
  <2>2. LET r == Apply(w, c, c.to)
        IN  WorldOK(r.w) /\ r.c = c /\ r.w.free = w.free /\ KeepsOthers(w, r.w, c.e)
    BY <1>0, <1>4, ApplyOK
  <2> QED BY <1>0, <2>1, <2>2
<1>5. CASE c.k = "prefab"
  <2>1. Execute(w, c).w = w /\ Execute(w, c).c = c
    BY <1>5 DEF Execute, Result
  <2> QED BY <1>0, <1>k, <2>1
<1> QED BY <1>0, <1>1, <1>2, <1>3, <1>4, <1>5 DEF Kinds

LEMMA RevertOK ==
    ASSUME NEW w, WorldOK(w), NEW c, c \in Commands, NeedsRoom(c, TRUE) => Room(w, 1)
    PROVE  LET r == Revert(w, c)
           IN  /\ WorldOK(r.w) /\ r.c \in Commands /\ r.c.k = c.k
               /\ r.c.k \in {"create", "duplicate"} => r.c.e = NoEntity
               /\ KeepsOthers(w, r.w, c.e)
<1>0. /\ c.k \in Kinds /\ c.e \in Nat \X Nat /\ c.from \in Components /\ c.to \in Components
      /\ c.k = "body" => "body" \in DOMAIN c.from
  BY CommandHas
<1>k. KeepsOthers(w, w, c.e)
  BY KeepsBySlot
<1>1. CASE c.k \in {"create", "duplicate"}
  <2>1. Revert(w, c).w = Kill(w, c.e) /\ Revert(w, c).c = [c EXCEPT !.e = NoEntity]
    BY <1>1 DEF Revert, UndoMade, Result
  <2>2. WorldOK(Kill(w, c.e)) /\ KeepsOthers(w, Kill(w, c.e), c.e)
    BY <1>0, KillOK, KillKeeps
  <2>3. NoEntity \in Nat \X Nat
    BY DEF NoEntity
  <2> QED BY <2>1, <2>2, <2>3, Renamed
<1>2. CASE c.k = "destroy"
  <2>1. Revert(w, c) = Make(w, c, c.from) /\ Room(w, 1)
    BY <1>2 DEF Revert, UndoDestroy, NeedsRoom
  <2>2. LET r == Make(w, c, c.from)
        IN  WorldOK(r.w) /\ r.c \in Commands /\ r.c.k = c.k /\ KeepsOthers(w, r.w, c.e)
    BY <1>0, <2>1, MakeOK
  <2> QED BY <1>0, <1>2, <2>1, <2>2
<1>3. CASE c.k = "body"
  <2>1. Revert(w, c) = Apply(w, c, c.from)
    BY <1>3 DEF Revert
  <2>2. LET r == Apply(w, c, c.from)
        IN  WorldOK(r.w) /\ r.c = c /\ r.w.free = w.free /\ KeepsOthers(w, r.w, c.e)
    BY <1>0, <1>3, ApplyOK
  <2> QED BY <1>0, <1>3, <2>1, <2>2
<1>4. CASE c.k = "prefab"
  <2>1. Revert(w, c).w = w /\ Revert(w, c).c = c
    BY <1>4 DEF Revert, Result
  <2> QED BY <1>0, <1>4, <1>k, <2>1
<1> QED BY <1>0, <1>1, <1>2, <1>3, <1>4 DEF Kinds
------------------------------------------------------------------------------
(* Files.  A scene file depends on the table of entities only.             *)
LEMMA SavedOK ==
    ASSUME NEW w, WorldOK(w)
    PROVE  /\ Saved(w) \in Seq(Components)
           /\ SceneFile(w) \in SceneFiles
           /\ SceneFile(w) = [is |-> "scene", ents |-> Saved(w)]
<1> DEFINE D == DOMAIN w.ent
           order == Ascending(D)
<1>1. D \in SUBSET (1..Slots)
  BY WorldHas
<1>2. order \in Seq(D) /\ Len(order) = Cardinality(D) /\ Cardinality(D) \in Nat
  BY <1>1, SlotsIsNat, AscendingIs
<1>3. DOMAIN order = 1..Len(order) /\ Len(order) \in Nat /\ \A n \in 1..Len(order) : order[n] \in D
  <2> HIDE DEF order, D
  <2> QED BY <1>2
<1>4. Saved(w) = [n \in DOMAIN order |-> w.ent[order[n]]]
  BY DEF Saved
<1>5. Saved(w) \in Seq(Components)
  <2> HIDE DEF order
  <2>1. \A n \in 1..Len(order) : w.ent[order[n]] \in Components
    BY <1>3, WorldHas
  <2> QED BY <1>3, <1>4, <2>1
<1> QED BY <1>5 DEF SceneFile, SceneFiles

LEMMA SavedTable ==
    ASSUME NEW w
    PROVE  SceneFile(w) = SceneFile([ent |-> w.ent])
<1> DEFINE v == [ent |-> w.ent]
<1>1. v.ent = w.ent
  OBVIOUS
<1> HIDE DEF v
<1>2. Saved(v) = Saved(w)
  BY <1>1 DEF Saved
<1>3. SceneFile(w) = SceneFile(v)
  BY <1>2 DEF SceneFile
<1> QED BY <1>3 DEF v

(* A link leads to the handle it was made from.                            *)
LEMMA LinkedLink ==
    ASSUME NEW i \in 1..Slots, NEW g \in Nat
    PROVE  Link(<<i, g>>) \in Nat /\ Linked(Link(<<i, g>>)) = <<i, g>>
<1> DEFINE M == Slots + 1
           a == i + M * g
<1>1. M \in Nat /\ M > 0 /\ i \in 0..(M - 1) /\ i \in Nat
  BY SlotsIsNat
<1>2. Link(<<i, g>>) = a
  BY DEF Link
<1>3. M * g \in Nat
  BY <1>1
<1>4. a = M * g + i /\ a \in Int /\ a \in Nat
  BY <1>1, <1>3
<1> HIDE DEF M
<1>5. a % M = i
  BY <1>1, <1>4, ModUnique
<1>6. a \div M \in Int /\ a = M * (a \div M) + (a % M)
  BY <1>1, <1>4, DivMod
<1>7. M * (a \div M) = M * g
  BY <1>1, <1>3, <1>4, <1>5, <1>6
<1>8. a \div M = g
  <2>1. ASSUME NEW p \in Int, NEW q \in Int, M * p = M * q PROVE p = q
    BY <1>1, <2>1
  <2> HIDE DEF a
  <2> QED BY <1>6, <1>7, <2>1
<1>9. Linked(a) = <<a % M, a \div M>>
  BY DEF Linked, M
<1> QED BY <1>2, <1>4, <1>5, <1>8, <1>9

LEMMA AttachedOK ==
    ASSUME NEW c \in Components, NEW made, NEW N \in Nat,
           \A n \in 1..N : \E i \in 1..Slots, g \in Nat : made[n] = <<i, g>>,
           "kid" \in DOMAIN c => 0 - c["kid"] \in 1..N
    PROVE  /\ Attached(c, made) \in Components /\ DOMAIN Attached(c, made) = DOMAIN c
           /\ "kid" \in DOMAIN c => \E n \in 1..N : Linked(Attached(c, made)["kid"]) = made[n]
<1> DEFINE a == Attached(c, made)
<1>1. /\ DOMAIN c \in SUBSET Keys /\ \A k \in DOMAIN c : c[k] \in Int
      /\ "body" \in DOMAIN c => c["body"] \in Sizes
  BY ComponentsHave
<1>2. /\ DOMAIN a = DOMAIN c /\ a = [k \in DOMAIN c |-> a[k]]
      /\ \A k \in DOMAIN c : k # "kid" => a[k] = c[k]
      /\ ("kid" \in DOMAIN c /\ c["kid"] < 0) => a["kid"] = Link(made[0 - c["kid"]])
  BY DEF Attached
<1> HIDE DEF a
<1>3. ASSUME "kid" \in DOMAIN c
      PROVE  /\ a["kid"] \in Int
             /\ \E n \in 1..N : Linked(a["kid"]) = made[n]
  <2>1. c["kid"] \in Int /\ c["kid"] < 0 /\ 0 - c["kid"] \in 1..N
    BY <1>1, <1>3
  <2>2. PICK i \in 1..Slots, g \in Nat : made[0 - c["kid"]] = <<i, g>>
    BY <2>1
  <2>3. a["kid"] = Link(<<i, g>>)
    BY <1>2, <1>3, <2>1, <2>2
  <2> QED BY <2>1, <2>2, <2>3, LinkedLink
<1>4. \A k \in DOMAIN c : a[k] \in Int
  BY <1>1, <1>2, <1>3
<1>5. "body" \in DOMAIN c => a["body"] \in Sizes
  BY <1>1, <1>2
<1>6. a \in Components
  BY <1>1, <1>2, <1>4, <1>5, ComponentsByKeys
<1> QED BY <1>2, <1>3, <1>6 DEF a

(* The top of the free list goes to the entities of the prefab.            *)
LEMMA InstantiatedOK ==
    ASSUME NEW w, WorldOK(w), NEW prefab \in Seq(Components), LinksInside(prefab),
           Room(w, Len(prefab)), NEW more \in Components
    PROVE  LET u == Instantiated(w, prefab, more)
           IN  /\ WorldOK(u) /\ u.gen = w.gen /\ Len(u.free) = Len(w.free) - Len(prefab)
               /\ \A j \in DOMAIN w.ent : j \in DOMAIN u.ent /\ u.ent[j] = w.ent[j]
               /\ "kid" \notin DOMAIN more =>
                    \A j \in DOMAIN u.ent \ DOMAIN w.ent :
                       "kid" \in DOMAIN u.ent[j] =>
                          \E i \in DOMAIN u.ent \ DOMAIN w.ent :
                             Linked(u.ent[j]["kid"]) = <<i, w.gen[i]>>
<1> DEFINE L == Len(w.free)
           P == Len(prefab)
           slot(n) == w.free[L + 1 - n]
           made == [n \in DOMAIN prefab |-> <<slot(n), w.gen[slot(n)]>>]
           comps(n) == IF n = 1 THEN Onto(more, Attached(prefab[1], made)) ELSE Attached(prefab[n], made)
           T == {slot(n) : n \in DOMAIN prefab}
           row == [i \in T |-> comps(CHOOSE n \in DOMAIN prefab : slot(n) = i)]
           t == Onto(w.ent, row)
           f == SubSeq(w.free, 1, L - P)
<1>1. Instantiated(w, prefab, more) = [gen |-> w.gen, ent |-> t, free |-> f]
  BY DEF Instantiated
<1>2. /\ L \in Nat /\ P \in Nat /\ P <= L /\ DOMAIN prefab = 1..P
      /\ \A n \in 1..P : prefab[n] \in Components
  BY WorldHas, SeqHas DEF Room
<1>3. /\ \A n \in 1..L : w.free[n] \in 1..Slots /\ w.free[n] \notin DOMAIN w.ent
      /\ \A m, n \in 1..L : w.free[m] = w.free[n] => m = n
      /\ \A i \in 1..Slots : i \notin DOMAIN w.ent => \E n \in 1..L : w.free[n] = i
      /\ w.free \in Seq(1..Slots) /\ w.gen \in [1..Slots -> Nat] /\ \A i \in 1..Slots : w.gen[i] \in Nat
  BY WorldHas
<1>4. \A n \in 1..P : L + 1 - n \in 1..L /\ L + 1 - n > L - P
  BY <1>2
<1>5. \A n \in 1..P : slot(n) \in 1..Slots /\ slot(n) \notin DOMAIN w.ent
  BY <1>3, <1>4
<1>6. \A n \in 1..P : \E i \in 1..Slots, g \in Nat : made[n] = <<i, g>>
  BY <1>2, <1>3, <1>5
<1>7. \A n \in 1..P : /\ Attached(prefab[n], made) \in Components
                      /\ DOMAIN Attached(prefab[n], made) = DOMAIN prefab[n]
                      /\ "kid" \in DOMAIN prefab[n] =>
                            \E m \in 1..P : Linked(Attached(prefab[n], made)["kid"]) = made[m]
  <2> HIDE DEF made, P
  <2>1. \A n \in 1..P : "kid" \in DOMAIN prefab[n] => 0 - prefab[n]["kid"] \in 1..P
    BY <1>2 DEF LinksInside
  <2>2. ASSUME NEW n \in 1..P
        PROVE  /\ Attached(prefab[n], made) \in Components
               /\ DOMAIN Attached(prefab[n], made) = DOMAIN prefab[n]
               /\ "kid" \in DOMAIN prefab[n] =>
                     \E m \in 1..P : Linked(Attached(prefab[n], made)["kid"]) = made[m]
    <3> DEFINE c == prefab[n]
    <3>1. c \in Components /\ ("kid" \in DOMAIN c => 0 - c["kid"] \in 1..P) /\ P \in Nat
      BY <1>2, <2>1
    <3> HIDE DEF c
    <3>2. /\ Attached(c, made) \in Components /\ DOMAIN Attached(c, made) = DOMAIN c
          /\ "kid" \in DOMAIN c => \E m \in 1..P : Linked(Attached(c, made)["kid"]) = made[m]
      BY <1>6, <3>1, AttachedOK
    <3> QED BY <3>2 DEF c
  <2> QED BY <2>2
<1>8. \A n \in 1..P : comps(n) \in Components
  <2> HIDE DEF made, P
  <2>1. 1 \in 1..P => Onto(more, Attached(prefab[1], made)) \in Components
    BY <1>7, OntoOK
  <2> QED BY <1>7, <2>1
<1>9. \A n \in 1..P : ("kid" \notin DOMAIN more /\ "kid" \in DOMAIN comps(n)) =>
                         \E m \in 1..P : Linked(comps(n)["kid"]) = made[m]
  <2> SUFFICES ASSUME NEW n \in 1..P, "kid" \notin DOMAIN more, "kid" \in DOMAIN comps(n)
               PROVE  \E m \in 1..P : Linked(comps(n)["kid"]) = made[m]
    OBVIOUS
  <2>1. CASE n = 1
    <3> DEFINE a == Attached(prefab[1], made)
    <3>1. comps(n) = Onto(more, a)
      BY <2>1
    <3> HIDE DEF comps, made, a, P
    <3>2. /\ DOMAIN Onto(more, a) = DOMAIN more \union DOMAIN a
          /\ \A q \in DOMAIN a : q \notin DOMAIN more => Onto(more, a)[q] = a[q]
      BY OntoIs
    <3>3. "kid" \in DOMAIN a /\ comps(n)["kid"] = a["kid"]
      BY <3>1, <3>2
    <3> QED BY <1>7, <2>1, <3>3 DEF a
  <2>2. CASE n # 1
    <3>1. comps(n) = Attached(prefab[n], made)
      BY <2>2
    <3> HIDE DEF comps, made, P
    <3> QED BY <1>7, <3>1
  <2> QED BY <2>1, <2>2
<1>10. /\ DOMAIN row = T /\ \A i \in T : \E n \in 1..P : slot(n) = i /\ row[i] = comps(n)
  <2>1. ASSUME NEW i \in T PROVE \E n \in 1..P : slot(n) = i /\ row[i] = comps(n)
    <3> DEFINE n == CHOOSE m \in DOMAIN prefab : slot(m) = i
    <3>1. \E m \in DOMAIN prefab : slot(m) = i
      OBVIOUS
    <3>2. n \in DOMAIN prefab /\ slot(n) = i
      BY <3>1
    <3>3. row[i] = comps(n)
      <4> HIDE DEF comps, slot
      <4> QED OBVIOUS
    <3> QED BY <1>2, <3>2, <3>3
  <2> QED BY <2>1
<1>11. \A n \in 1..P : slot(n) \in T
  BY <1>2
<1> HIDE DEF comps, row, T
<1>12. /\ DOMAIN t = DOMAIN w.ent \union T /\ t = [i \in DOMAIN t |-> t[i]]
       /\ \A i \in DOMAIN w.ent : t[i] = w.ent[i]
       /\ \A i \in T : i \notin DOMAIN w.ent /\ i \in 1..Slots /\ t[i] = row[i]
  <2>1. \A i \in T : i \notin DOMAIN w.ent /\ i \in 1..Slots
    BY <1>5, <1>10
  <2>2. /\ DOMAIN t = DOMAIN w.ent \union DOMAIN row
        /\ \A i \in DOMAIN w.ent : t[i] = w.ent[i]
        /\ \A i \in DOMAIN row : i \notin DOMAIN w.ent => t[i] = row[i]
        /\ t = [i \in DOMAIN w.ent \union DOMAIN row |-> t[i]]
    BY OntoIs
  <2> HIDE DEF t
  <2> QED BY <1>10, <2>1, <2>2
<1>13. t \in Tables
  <2> HIDE DEF t
  <2>1. \A i \in DOMAIN t : t[i] \in Components
    BY <1>8, <1>10, <1>12, WorldHas
  <2>2. DOMAIN t \subseteq 1..Slots
    BY <1>12, WorldHas
  <2> QED BY <1>12, <2>1, <2>2, TablesByRows
<1>14. /\ f \in Seq(1..Slots) /\ Len(f) = L - P
       /\ \A n \in 1..(L - P) : f[n] = w.free[n] /\ n \in 1..L
  BY <1>2, <1>3
<1>15. WorldOK([gen |-> w.gen, ent |-> t, free |-> f])
  <2> HIDE DEF t, f, P, L, slot
  <2>1. \A m, n \in 1..Len(f) : f[m] = f[n] => m = n
    BY <1>3, <1>14
  <2>2. \A n \in 1..Len(f) : f[n] \notin DOMAIN t
    <3> SUFFICES ASSUME NEW n \in 1..Len(f), f[n] \in T PROVE FALSE
      BY <1>3, <1>12, <1>14
    <3>1. PICK m \in 1..P : slot(m) = f[n]
      BY <1>10
    <3>2. w.free[L + 1 - m] = w.free[n] /\ L + 1 - m \in 1..L /\ n \in 1..L
      BY <1>4, <1>14, <3>1 DEF slot
    <3>3. L + 1 - m = n /\ L + 1 - m > L - P /\ n <= L - P
      BY <1>2, <1>3, <1>4, <1>14, <3>2
    <3> QED BY <1>2, <3>3
  <2>3. \A j \in 1..Slots : j \notin DOMAIN t => \E n \in 1..Len(f) : f[n] = j
    <3> SUFFICES ASSUME NEW j \in 1..Slots, j \notin DOMAIN t PROVE \E n \in 1..Len(f) : f[n] = j
      OBVIOUS
    <3>1. PICK n \in 1..L : w.free[n] = j
      BY <1>3, <1>12
    <3>2. n \in 1..(L - P)
      <4> SUFFICES ASSUME n > L - P PROVE FALSE
        BY <1>2
      <4>1. L + 1 - n \in 1..P /\ L + 1 - (L + 1 - n) = n
        BY <1>2
      <4>2. slot(L + 1 - n) = j
        BY <3>1, <4>1 DEF slot
      <4> QED BY <1>11, <1>12, <4>1, <4>2
    <3> QED BY <1>14, <3>1, <3>2
  <2> QED BY <1>3, <1>13, <1>14, <2>1, <2>2, <2>3, WorldByParts
<1>16. ASSUME "kid" \notin DOMAIN more, NEW j \in DOMAIN t \ DOMAIN w.ent, "kid" \in DOMAIN t[j]
       PROVE  \E i \in DOMAIN t \ DOMAIN w.ent : Linked(t[j]["kid"]) = <<i, w.gen[i]>>
  <2> HIDE DEF t, slot, P, L
  <2>1. PICK n \in 1..P : slot(n) = j /\ t[j] = comps(n)
    BY <1>10, <1>12
  <2>2. PICK m \in 1..P : Linked(t[j]["kid"]) = made[m]
    BY <1>9, <1>16, <2>1
  <2>3. made[m] = <<slot(m), w.gen[slot(m)]>>
    BY <1>2
  <2>4. slot(m) \in DOMAIN t \ DOMAIN w.ent
    BY <1>11, <1>12
  <2> QED BY <2>2, <2>3, <2>4
<1> DEFINE v == [gen |-> w.gen, ent |-> t, free |-> f]
<1>17. v.gen = w.gen /\ v.ent = t /\ v.free = f
  OBVIOUS
<1>18. WorldOK(v) /\ Instantiated(w, prefab, more) = v
  BY <1>1, <1>15
<1> HIDE DEF v, t, f
<1> QED BY <1>12, <1>14, <1>16, <1>17, <1>18
------------------------------------------------------------------------------
(* Loading.  The world starts empty.                                       *)
LEMMA EmptyWorldOK == WorldOK(EmptyWorld) /\ Len(EmptyWorld.free) = Slots /\ DOMAIN EmptyWorld.ent = {}
<1> DEFINE g == [i \in 1..Slots |-> 0]
           f == [i \in 1..Slots |-> Slots + 1 - i]
<1>1. EmptyWorld = [gen |-> g, ent |-> << >>, free |-> f]
  BY DEF EmptyWorld
<1>2. \A n \in 1..Slots : f[n] \in 1..Slots /\ Slots + 1 - n \in 1..Slots
  BY SlotsIsNat
<1>3. f \in Seq(1..Slots) /\ Len(f) = Slots
  BY <1>2, SlotsIsNat
<1>4. g \in [1..Slots -> Nat]
  OBVIOUS
<1>5. << >> \in Tables /\ DOMAIN << >> = {}
  <2>1. DOMAIN << >> = {} /\ << >> = [i \in DOMAIN << >> |-> << >>[i]]
    OBVIOUS
  <2> QED BY <2>1, TablesByRows
<1>6. \A m, n \in 1..Slots : f[m] = f[n] => m = n
  BY SlotsIsNat
<1>7. \A i \in 1..Slots : \E n \in 1..Slots : f[n] = i
  <2> SUFFICES ASSUME NEW i \in 1..Slots PROVE \E n \in 1..Slots : f[n] = i
    OBVIOUS
  <2>1. Slots + 1 - i \in 1..Slots /\ f[Slots + 1 - i] = i
    BY SlotsIsNat
  <2> QED BY <2>1
<1>8. WorldOK([gen |-> g, ent |-> << >>, free |-> f])
  <2> HIDE DEF f, g
  <2> QED BY <1>3, <1>4, <1>5, <1>6, <1>7, WorldByParts
<1> HIDE DEF f, g
<1> QED BY <1>1, <1>3, <1>5, <1>8

(* How many of the first n entities of a file are instances.               *)
Instances(file, n) == Cardinality({m \in 1..n : "pre" \in DOMAIN file[m]})

LEMMA InstancesGrow ==
    ASSUME NEW file, NEW n \in Nat, NEW N \in Nat, n < N
    PROVE  /\ Instances(file, n) \in Nat /\ Instances(file, N) \in Nat /\ Instances(file, 0) = 0
           /\ Instances(file, n) <= Instances(file, N)
           /\ Instances(file, n + 1) \in Nat /\ Instances(file, n + 1) <= Instances(file, N)
           /\ "pre" \in DOMAIN file[n + 1] => Instances(file, n + 1) = Instances(file, n) + 1
           /\ "pre" \notin DOMAIN file[n + 1] => Instances(file, n + 1) = Instances(file, n)
<1> DEFINE M(k) == {m \in 1..k : "pre" \in DOMAIN file[m]}
<1>1. ASSUME NEW k \in Nat PROVE IsFiniteSet(M(k)) /\ Cardinality(M(k)) \in Nat
  <2>1. M(k) \in SUBSET (1..k)
    OBVIOUS
  <2> HIDE DEF M
  <2> QED BY <2>1, PartOfInterval
<1>2. M(0) = {} /\ M(n) \subseteq M(N) /\ M(n + 1) \subseteq M(N)
  OBVIOUS
<1>3. "pre" \in DOMAIN file[n + 1] => M(n + 1) = M(n) \union {n + 1} /\ n + 1 \notin M(n)
  OBVIOUS
<1>4. "pre" \notin DOMAIN file[n + 1] => M(n + 1) = M(n)
  OBVIOUS
<1>5. \A k : Instances(file, k) = Cardinality(M(k))
  BY DEF Instances
<1>6. n + 1 \in Nat
  OBVIOUS
<1> HIDE DEF M
<1>7. Cardinality(M(n)) <= Cardinality(M(N)) /\ Cardinality(M(n + 1)) <= Cardinality(M(N))
  BY <1>1, <1>2, FS_Subset
<1>8. "pre" \in DOMAIN file[n + 1] => Cardinality(M(n + 1)) = Cardinality(M(n)) + 1
  BY <1>1, <1>3, FS_AddElement
<1>9. Cardinality(M(0)) = 0
  BY <1>2, FS_EmptySet
<1> QED BY <1>1, <1>4, <1>5, <1>6, <1>7, <1>8, <1>9

(* The run of worlds that a load goes through.                             *)
LEMMA LoadRun ==
    ASSUME NEW file, NEW prefab, Len(file) \in Nat
    PROVE  \E run : /\ Loaded(file, prefab) = run[Len(file)]
                    /\ run[0] = EmptyWorld
                    /\ \A n \in Nat : n < Len(file) => run[n + 1] = LoadOne(run[n], file[n + 1], prefab)
<1> DEFINE IsRun(m, g) == g = [n \in 0..m |-> IF n = 0 THEN EmptyWorld
                                              ELSE LoadOne(g[n - 1], file[n], prefab)]
           S == {m \in Nat : \E g : IsRun(m, g)}
<1>1. 0 \in S
  <2>1. IsRun(0, [n \in 0..0 |-> EmptyWorld])
    OBVIOUS
  <2> QED BY <2>1
<1>2. ASSUME NEW m \in Nat, m \in S PROVE m + 1 \in S
  <2>1. PICK g : IsRun(m, g)
    BY <1>2
  <2> DEFINE h == [n \in 0..(m + 1) |-> IF n = m + 1 THEN LoadOne(g[m], file[m + 1], prefab) ELSE g[n]]
  <2>2. IsRun(m + 1, h)
    <3>1. ASSUME NEW n \in 0..(m + 1)
          PROVE  h[n] = IF n = 0 THEN EmptyWorld ELSE LoadOne(h[n - 1], file[n], prefab)
      BY <2>1
    <3> QED BY <3>1
  <2> HIDE DEF h, IsRun
  <2> QED BY <2>2
<1>3. Len(file) \in S
  <2> HIDE DEF S
  <2> QED BY <1>1, <1>2, SetInduction
<1>4. \E g : IsRun(Len(file), g)
  BY <1>3
<1> DEFINE run == CHOOSE g : IsRun(Len(file), g)
<1>5. Loaded(file, prefab) = run[Len(file)]
  BY DEF Loaded
<1>6. IsRun(Len(file), run)
  <2> HIDE DEF IsRun
  <2> QED BY <1>4
<1> HIDE DEF run
<1>7. \A n \in 0..Len(file) : run[n] = IF n = 0 THEN EmptyWorld ELSE LoadOne(run[n - 1], file[n], prefab)
  BY <1>6
<1>8. ASSUME NEW n \in Nat, n < Len(file) PROVE run[n + 1] = LoadOne(run[n], file[n + 1], prefab)
  <2>1. n + 1 \in 0..Len(file) /\ n + 1 # 0 /\ n + 1 - 1 = n
    BY <1>8
  <2> QED BY <1>7, <2>1
<1>9. run[0] = EmptyWorld
  BY <1>7
<1> QED BY <1>5, <1>8, <1>9

(* What the first n entities of a file take.                               *)
Taken(file, prefab, n) ==
    n + IF prefab = << >> THEN 0 ELSE Instances(file, n) * (Len(prefab) - 1)

LEMMA TakenGrows ==
    ASSUME NEW file, NEW prefab \in Seq(Components), NEW n \in Nat, NEW N \in Nat, n < N
    PROVE  LET one == IF "pre" \in DOMAIN file[n + 1] /\ prefab # << >> THEN Len(prefab) ELSE 1
           IN  /\ Taken(file, prefab, n) \in Int /\ Taken(file, prefab, N) \in Int
               /\ Taken(file, prefab, 0) = 0
               /\ Taken(file, prefab, n + 1) = Taken(file, prefab, n) + one
               /\ Taken(file, prefab, n) + one <= Taken(file, prefab, N)
<1> DEFINE a == Instances(file, n)
           b == Instances(file, n + 1)
           c == Instances(file, N)
           P == Len(prefab)
           e == P - 1
<1>1. /\ a \in Nat /\ b \in Nat /\ c \in Nat /\ a <= c /\ b <= c /\ Instances(file, 0) = 0
      /\ "pre" \in DOMAIN file[n + 1] => b = a + 1
      /\ "pre" \notin DOMAIN file[n + 1] => b = a
  BY InstancesGrow
<1>2. CASE prefab = << >>
  BY <1>1, <1>2 DEF Taken
<1>3. CASE prefab # << >>
  <2>1. P \in Nat /\ e \in Nat
    BY <1>3
  <2>2. /\ Taken(file, prefab, n) = n + a * e /\ Taken(file, prefab, n + 1) = n + 1 + b * e
        /\ Taken(file, prefab, N) = N + c * e /\ Taken(file, prefab, 0) = 0 + 0 * e
    BY <1>1, <1>3 DEF Taken
  <2> HIDE DEF a, b, c, e
  <2>3. a * e \in Nat /\ b * e \in Nat /\ c * e \in Nat /\ b * e <= c * e
    <3>1. c = b + (c - b) /\ c - b \in Nat
      BY <1>1
    <3>2. c * e = b * e + (c - b) * e /\ (c - b) * e \in Nat
      BY <1>1, <2>1, <3>1
    <3> QED BY <1>1, <2>1, <3>2
  <2>4. b = a + 1 => b * e = a * e + e
    BY <1>1, <2>1
  <2>5. P = e + 1
    BY <2>1 DEF e
  <2>6. 0 * e = 0
    BY <2>1
  <2> HIDE DEF P
  <2>7. CASE "pre" \in DOMAIN file[n + 1]
    BY <1>1, <1>3, <2>1, <2>2, <2>3, <2>4, <2>5, <2>6, <2>7 DEF P
  <2>8. CASE "pre" \notin DOMAIN file[n + 1]
    <3>1. Taken(file, prefab, n + 1) = Taken(file, prefab, n) + 1
      BY <1>1, <2>2, <2>3, <2>8
    <3>2. Taken(file, prefab, n) + 1 <= Taken(file, prefab, N)
      BY <1>1, <2>2, <2>3, <2>8
    <3>3. Taken(file, prefab, n) \in Int /\ Taken(file, prefab, N) \in Int
      BY <2>2, <2>3
    <3> QED BY <2>2, <2>6, <2>8, <3>1, <3>2, <3>3
  <2> QED BY <2>7, <2>8
<1> QED BY <1>2, <1>3

(* A file that fits is loaded into a sound world.                          *)
LEMMA LoadedOK ==
    ASSUME NEW file \in Seq(Components), NEW prefab \in Seq(Components), LinksInside(prefab),
           LoadSize(file, prefab) <= Slots
    PROVE  WorldOK(Loaded(file, prefab))
<1>0. \E run : /\ Loaded(file, prefab) = run[Len(file)] /\ run[0] = EmptyWorld
               /\ \A n \in Nat : n < Len(file) => run[n + 1] = LoadOne(run[n], file[n + 1], prefab)
  <2>1. Len(file) \in Nat
    BY SeqHas
  <2>2. PICK run : /\ Loaded(file, prefab) = run[Len(file)]
                   /\ run[0] = EmptyWorld
                   /\ \A n \in Nat : n < Len(file) => run[n + 1] = LoadOne(run[n], file[n + 1], prefab)
    BY <2>1, LoadRun, Zenon
  <2> QED BY <2>2
<1> DEFINE N == Len(file)
<1>1. N \in Nat /\ DOMAIN file = 1..N /\ Slots \in Nat /\ Len(prefab) \in Nat
      /\ \A n \in 1..N : file[n] \in Components
  BY SlotsIsNat, SeqHas
<1>2. Taken(file, prefab, N) <= Slots
  <2>1. Cardinality({n \in DOMAIN file : "pre" \in DOMAIN file[n]}) = Instances(file, N)
    BY <1>1 DEF Instances
  <2>2. LoadSize(file, prefab) = Taken(file, prefab, N)
    BY <2>1 DEF LoadSize, Taken
  <2> QED BY <2>2
<1>3. PICK run : /\ Loaded(file, prefab) = run[N] /\ run[0] = EmptyWorld
                 /\ \A n \in Nat : n < N => run[n + 1] = LoadOne(run[n], file[n + 1], prefab)
  BY <1>0
<1> DEFINE Good(n) == WorldOK(run[n]) /\ Len(run[n].free) = Slots - Taken(file, prefab, n)
           S == {n \in Nat : n <= N => Good(n)}
<1>4. 0 \in S
  <2>1. Taken(file, prefab, 0) = 0
    <3>1. 0 \in Nat /\ 0 < 1
      OBVIOUS
    <3> QED BY <3>1, TakenGrows
  <2> QED BY <1>1, <1>3, <2>1, EmptyWorldOK
<1>5. ASSUME NEW n \in Nat, n \in S PROVE n + 1 \in S
  <2> SUFFICES ASSUME n + 1 <= N PROVE Good(n + 1)
    OBVIOUS
  <2> DEFINE w == run[n]
             c == file[n + 1]
             one == IF "pre" \in DOMAIN c /\ prefab # << >> THEN Len(prefab) ELSE 1
  <2>1. n < N /\ n + 1 \in 1..N /\ n + 1 \in Nat
    BY <1>1
  <2>2. WorldOK(w) /\ Len(w.free) = Slots - Taken(file, prefab, n) /\ c \in Components
    BY <1>1, <1>5, <2>1
  <2>3. /\ Taken(file, prefab, n) \in Int /\ Taken(file, prefab, N) \in Int
        /\ Taken(file, prefab, n + 1) = Taken(file, prefab, n) + one
        /\ Taken(file, prefab, n) + one <= Taken(file, prefab, N)
    BY <1>1, <2>1, TakenGrows
  <2>4. Len(w.free) >= one /\ one \in Nat
    BY <1>1, <1>2, <2>2, <2>3
  <2>5. run[n + 1] = LoadOne(w, c, prefab)
    BY <1>3, <2>1
  <2>6. CASE "pre" \in DOMAIN c /\ prefab # << >>
    <3>1. run[n + 1] = Instantiated(w, prefab, c) /\ one = Len(prefab)
      BY <2>5, <2>6 DEF LoadOne
    <3>2. Room(w, Len(prefab))
      BY <2>4, <3>1 DEF Room
    <3>3. LET u == Instantiated(w, prefab, c) IN WorldOK(u) /\ Len(u.free) = Len(w.free) - Len(prefab)
      <4> HIDE DEF w, c
      <4> QED BY <2>2, <3>2, InstantiatedOK
    <3>4. WorldOK(run[n + 1]) /\ Len(run[n + 1].free) = Len(w.free) - one
      BY <3>1, <3>3
    <3> HIDE DEF one, w, c
    <3>5. Len(run[n + 1].free) = Slots - Taken(file, prefab, n + 1)
      BY <1>1, <2>2, <2>3, <2>4, <3>4
    <3> QED BY <3>4, <3>5
  <2>7. CASE ~("pre" \in DOMAIN c /\ prefab # << >>)
    <3>1. run[n + 1] = Created(w, c) /\ one = 1
      BY <2>5, <2>7 DEF LoadOne
    <3>2. Room(w, 1)
      BY <2>4, <3>1 DEF Room
    <3>3. LET u == Created(w, c) IN WorldOK(u) /\ Len(u.free) = Len(w.free) - 1
      <4> HIDE DEF w, c
      <4> QED BY <2>2, <3>2, CreatedOK
    <3>4. WorldOK(run[n + 1]) /\ Len(run[n + 1].free) = Len(w.free) - one
      BY <3>1, <3>3
    <3> HIDE DEF one, w, c
    <3>5. Len(run[n + 1].free) = Slots - Taken(file, prefab, n + 1)
      BY <1>1, <2>2, <2>3, <2>4, <3>4
    <3> QED BY <3>4, <3>5
  <2> QED BY <2>6, <2>7
<1>6. N \in S
  <2> HIDE DEF S
  <2> QED BY <1>1, <1>4, <1>5, SetInduction
<1> QED BY <1>1, <1>3, <1>6
------------------------------------------------------------------------------
(* Capturing.  The greatest of some places.                                *)
LEMMA LastPlace ==
    ASSUME NEW N \in Nat, NEW I \in SUBSET (1..N), I # {}
    PROVE  Max(I) \in I
<1>1. IsFiniteSet(I) /\ \A n \in I : n \in Int
  BY PartOfInterval
<1> DEFINE f == [n \in I |-> n]
<1>2. f \in [I -> Int]
  BY <1>1
<1>3. PICK n \in I : \A m \in I : f[m] <= f[n]
  BY <1>1, <1>2, FiniteMax
<1>4. \A m \in I : n >= m
  BY <1>1, <1>3
<1> QED BY <1>4 DEF Max

(* The links of a captured prefab lead to places in it.                    *)
LEMMA CapturedOK ==
    ASSUME NEW w, WorldOK(w), NEW root, Capturable(w, root)
    PROVE  Captured(w, root) \in Seq(Components) /\ LinksInside(Captured(w, root))
<1> DEFINE all == Subtree(w, root)
           Place(link) == SelectLastInSeq(all, LAMBDA h : h[1] = Linked(link)[1])
           Stored(comps) ==
               [k \in {q \in DOMAIN comps : q = "kid" => Place(comps[q]) > 0} |->
                   IF k = "kid" THEN 0 - Place(comps[k]) ELSE comps[k]]
<1>1. Captured(w, root) = [n \in DOMAIN all |-> Stored(w.ent[all[n][1]])]
  BY DEF Captured
<1>2. Len(all) \in Nat /\ DOMAIN all = 1..Len(all)
  <2> DEFINE child(h) == IF Has(w, h, "kid") THEN <<Linked(Of(w, h)["kid"])>> ELSE << >>
             kids == child(root)
             rest == IF kids = << >> THEN << >> ELSE child(kids[1])
             X == {root, Linked(Of(w, root)["kid"]), Linked(Of(w, kids[1])["kid"])}
  <2>1. all = <<root>> \o kids \o rest
    BY DEF Subtree
  <2>2. child(root) \in Seq(X) /\ child(kids[1]) \in Seq(X)
    <3>1. /\ Linked(Of(w, root)["kid"]) \in X /\ Linked(Of(w, kids[1])["kid"]) \in X
          /\ \A x \in X : <<x>> \in Seq(X)
          /\ << >> \in Seq(X)
      <4> HIDE DEF kids
      <4> QED OBVIOUS
    <3>2. /\ child(root) \in {<<Linked(Of(w, root)["kid"])>>, << >>}
          /\ child(kids[1]) \in {<<Linked(Of(w, kids[1])["kid"])>>, << >>}
      <4> HIDE DEF kids
      <4> QED OBVIOUS
    <3> HIDE DEF X, child, kids
    <3> QED BY <3>1, <3>2
  <2>3. <<root>> \in Seq(X)
    OBVIOUS
  <2> HIDE DEF X, child
  <2>4. kids \in Seq(X) /\ rest \in Seq(X)
    BY <2>2
  <2>5. all \in Seq(X)
    BY <2>1, <2>3, <2>4
  <2> HIDE DEF all
  <2> QED BY <2>5
<1>3. \A n \in 1..Len(all) : all[n][1] \in DOMAIN w.ent
  BY <1>2 DEF Capturable
<1>4. ASSUME NEW link PROVE Place(link) \in 0..Len(all) /\ Place(link) \in Int
  <2> DEFINE I == {n \in 1..Len(all) : all[n][1] = Linked(link)[1]}
  <2>1. Place(link) = IF I # {} THEN Max(I) ELSE 0
    BY DEF SelectLastInSeq
  <2>2. I \in SUBSET (1..Len(all)) /\ \A n \in I : n \in 0..Len(all) /\ n \in Int
    OBVIOUS
  <2>3. I # {} => Max(I) \in I
    <3> HIDE DEF I, all
    <3> QED BY <1>2, <2>2, LastPlace
  <2> HIDE DEF I, all
  <2> QED BY <1>2, <2>1, <2>2, <2>3
<1> HIDE DEF all, Place
<1>5. ASSUME NEW c \in Components
      PROVE  /\ Stored(c) \in Components
             /\ "kid" \in DOMAIN Stored(c) => 0 - Stored(c)["kid"] \in 1..Len(all)
  <2> DEFINE K == {q \in DOMAIN c : q = "kid" => Place(c[q]) > 0}
  <2>1. /\ DOMAIN c \in SUBSET Keys /\ \A k \in DOMAIN c : c[k] \in Int
        /\ "body" \in DOMAIN c => c["body"] \in Sizes
    BY ComponentsHave
  <2>2. K \in SUBSET Keys
    BY <2>1
  <2>3. \A k \in K : Stored(c)[k] \in Int
    BY <1>4, <2>1
  <2>4. Stored(c) \in [K -> Int]
    BY <2>3
  <2>5. "body" \in K => Stored(c)["body"] \in Sizes
    BY <2>1
  <2>6. Stored(c) \in Components
    <3> HIDE DEF Stored, K
    <3> QED BY <2>2, <2>4, <2>5, ComponentsByKeys
  <2>7. "kid" \in K => 0 - Stored(c)["kid"] \in 1..Len(all)
    <3>1. "kid" \in K => Stored(c)["kid"] = 0 - Place(c["kid"]) /\ Place(c["kid"]) > 0
      OBVIOUS
    <3> QED BY <1>2, <1>4, <3>1
  <2> QED BY <2>6, <2>7
<1> HIDE DEF Stored
<1>6. \A n \in 1..Len(all) : w.ent[all[n][1]] \in Components
  BY <1>3, WorldHas
<1> DEFINE s == [n \in 1..Len(all) |-> Stored(w.ent[all[n][1]])]
<1>7. /\ s \in Seq(Components) /\ DOMAIN s = 1..Len(all)
      /\ \A n \in 1..Len(all) : s[n] = Stored(w.ent[all[n][1]])
  BY <1>2, <1>5, <1>6
<1>8. LinksInside(s)
  <2> HIDE DEF s
  <2> QED BY <1>5, <1>6, <1>7 DEF LinksInside
<1> QED BY <1>1, <1>2, <1>7, <1>8
------------------------------------------------------------------------------
(* Play.  A snapshot is the table it was taken of.                         *)
LEMMA SnapshotOK ==
    ASSUME NEW w, WorldOK(w)
    PROVE  /\ TableOf(Snapshot(w)) = w.ent /\ DOMAIN Snapshot(w) = Living(w)
           /\ \A h \in Living(w) : h \in Handles /\ Snapshot(w)[h] \in Components
<1> DEFINE snap == Snapshot(w)
<1>1. DOMAIN snap = Living(w) /\ \A h \in Living(w) : snap[h] = w.ent[h[1]]
  BY DEF Snapshot, Of
<1> HIDE DEF snap
<1>2. {h[1] : h \in Living(w)} = DOMAIN w.ent
  <2>1. \A i \in DOMAIN w.ent : <<i, w.gen[i]>> \in Living(w) /\ <<i, w.gen[i]>>[1] = i
    BY DEF Living
  <2>2. \A h \in Living(w) : h[1] \in DOMAIN w.ent
    BY LivingIs
  <2> QED BY <2>1, <2>2
<1>3. ASSUME NEW i \in DOMAIN w.ent
      PROVE  snap[CHOOSE h \in DOMAIN snap : h[1] = i] = w.ent[i]
  <2> DEFINE h == CHOOSE h \in DOMAIN snap : h[1] = i
  <2>1. <<i, w.gen[i]>> \in Living(w) /\ <<i, w.gen[i]>>[1] = i
    BY DEF Living
  <2>2. h \in DOMAIN snap /\ h[1] = i
    BY <1>1, <2>1
  <2> HIDE DEF h
  <2>3. snap[h] = w.ent[i]
    BY <1>1, <2>2
  <2> QED BY <2>3 DEF h
<1>4. DOMAIN TableOf(snap) = DOMAIN w.ent /\ \A i \in DOMAIN w.ent : TableOf(snap)[i] = w.ent[i]
  <2> DEFINE D == {h[1] : h \in DOMAIN snap}
             row(i) == snap[CHOOSE h \in DOMAIN snap : h[1] = i]
  <2>1. TableOf(snap) = [i \in D |-> row(i)]
    BY DEF TableOf
  <2>2. D = DOMAIN w.ent
    BY <1>1, <1>2
  <2>3. \A i \in DOMAIN w.ent : row(i) = w.ent[i]
    BY <1>3
  <2> HIDE DEF D, row
  <2> QED BY <2>1, <2>2, <2>3
<1>5. TableOf(snap) = [i \in DOMAIN TableOf(snap) |-> TableOf(snap)[i]]
  BY DEF TableOf
<1>6. TableOf(snap) = w.ent
  BY <1>4, <1>5, WorldHas, TablesHave
<1>7. \A h \in Living(w) : h \in Handles /\ snap[h] \in Components
  BY <1>1, LivingIs, WorldHas
<1> QED BY <1>1, <1>6, <1>7 DEF snap

LEMMA RestoredOK ==
    ASSUME NEW w, WorldOK(w), NEW snap, \A h \in DOMAIN snap : h \in Handles /\ snap[h] \in Components
    PROVE  LET u == Restored(w, snap)
           IN  /\ WorldOK(u)
               /\ Living(u) = Living(w) \intersect DOMAIN snap
               /\ \A h \in Living(u) : \A k \in DOMAIN snap[h] :
                     Has(u, h, k) /\ Of(u, h)[k] = snap[h][k]
<1> DEFINE hs == Living(w) \ DOMAIN snap
           left == KillAll(w, hs)
           t == [i \in DOMAIN left.ent |-> Onto(snap[<<i, left.gen[i]>>], left.ent[i])]
           u == [gen |-> left.gen, ent |-> t, free |-> left.free]
<1>1. Restored(w, snap) = u
  BY DEF Restored
<1>2. /\ WorldOK(left) /\ DOMAIN left.ent = DOMAIN w.ent \ {h[1] : h \in hs}
      /\ \A j \in DOMAIN left.ent : left.ent[j] = w.ent[j] /\ left.gen[j] = w.gen[j]
  BY KillAllOK
<1>3. ASSUME NEW i \in DOMAIN left.ent
      PROVE  <<i, w.gen[i]>> \in Living(w) /\ <<i, w.gen[i]>> \in DOMAIN snap
  <2>1. <<i, w.gen[i]>> \in Living(w)
    BY <1>2 DEF Living
  <2>2. <<i, w.gen[i]>> \notin hs
    <3> DEFINE p == <<i, w.gen[i]>>
    <3>1. p[1] = i /\ i \notin {h[1] : h \in hs}
      BY <1>2
    <3> HIDE DEF p, hs
    <3>2. p \notin hs
      BY <3>1
    <3> QED BY <3>2 DEF p
  <2> QED BY <2>1, <2>2
<1>4. ASSUME NEW h \in Living(w), h \in DOMAIN snap
      PROVE  h[1] \in DOMAIN left.ent
  <2>1. h[1] \in DOMAIN w.ent /\ h = <<h[1], w.gen[h[1]]>>
    BY LivingIs
  <2>2. \A g \in hs : g = <<g[1], w.gen[g[1]]>>
    BY LivingIs
  <2>3. h[1] \notin {g[1] : g \in hs}
    BY <1>4, <2>1, <2>2
  <2> QED BY <1>2, <2>1, <2>3
<1> HIDE DEF left, hs
<1>5. /\ DOMAIN t = DOMAIN left.ent
      /\ \A i \in DOMAIN left.ent : t[i] = Onto(snap[<<i, w.gen[i]>>], w.ent[i])
  BY <1>2
<1>6. t \in Tables
  <2>1. \A i \in DOMAIN t : t[i] \in Components
    BY <1>2, <1>3, <1>5, WorldHas, OntoOK
  <2>2. DOMAIN t \subseteq 1..Slots
    BY <1>2, <1>5, WorldHas
  <2> QED BY <2>1, <2>2, TablesByRows
<1>7. WorldOK(u)
  <2> HIDE DEF t
  <2> QED BY <1>2, <1>5, <1>6, WorldHas, WorldByParts
<1>8. u.gen = left.gen /\ u.ent = t
  OBVIOUS
<1> HIDE DEF u, t
<1>9. Living(u) = {<<i, w.gen[i]>> : i \in DOMAIN left.ent}
  BY <1>2, <1>5, <1>8 DEF Living
<1>10. Living(u) = Living(w) \intersect DOMAIN snap
  <2>1. \A h \in Living(u) : h \in Living(w) /\ h \in DOMAIN snap
    BY <1>3, <1>9
  <2>2. ASSUME NEW h \in Living(w), h \in DOMAIN snap PROVE h \in Living(u)
    BY <1>4, <1>9, <2>2, LivingIs
  <2> QED BY <2>1, <2>2
<1>11. ASSUME NEW h \in Living(u), NEW k \in DOMAIN snap[h]
       PROVE  Has(u, h, k) /\ Of(u, h)[k] = snap[h][k]
  <2>1. IsAlive(u, h) /\ h[1] \in DOMAIN u.ent
    BY <1>7, LivingIs
  <2>2. h \in Living(w) /\ h = <<h[1], w.gen[h[1]]>>
    BY <1>10, LivingIs
  <2>3. Of(u, h) = Onto(snap[h], w.ent[h[1]])
    BY <1>5, <1>8, <2>1, <2>2 DEF Of
  <2>4. k \in DOMAIN Onto(snap[h], w.ent[h[1]]) /\ Onto(snap[h], w.ent[h[1]])[k] = snap[h][k]
    <3> DEFINE f == snap[h]
               g == w.ent[h[1]]
    <3>1. k \in DOMAIN f
      OBVIOUS
    <3> HIDE DEF f, g
    <3>2. k \in DOMAIN Onto(f, g) /\ Onto(f, g)[k] = f[k]
      BY <3>1 DEF Onto
    <3> QED BY <3>2 DEF f, g
  <2> QED BY <2>1, <2>3, <2>4 DEF Has
<1> QED BY <1>1, <1>7, <1>10, <1>11
------------------------------------------------------------------------------
(* Editors.  What an editor is made of.                                    *)
LEMMA EditorHas ==
    ASSUME NEW d, EditorOK(d)
    PROVE  /\ d \in Editors /\ WorldOK(d.world) /\ d.world \in Worlds
           /\ d.undo \in Seq(Commands) /\ d.redo \in Seq(Commands)
           /\ Len(d.undo) \in Nat /\ Len(d.redo) \in Nat /\ Len(d.undo) + Len(d.redo) <= Cap
           /\ d.id \in Nat /\ d.path \in Paths /\ d.disk \in [Files -> SceneFiles]
           /\ d.prefab \in PrefabFiles /\ d.prefab.ents \in Seq(Components) /\ LinksInside(d.prefab.ents)
           /\ d.sel \in Nat \X Nat /\ d.target \in Paths
           /\ d.dirty \in BOOLEAN /\ d.open \in BOOLEAN /\ d.running \in BOOLEAN
           /\ d.drift \in BOOLEAN /\ d.crashed \in BOOLEAN
           /\ HistoryOK(d) /\ DialogOK(d)
<1>1. d \in Editors /\ WorldOK(d.world) /\ LinksInside(d.prefab.ents) /\ HistoryOK(d) /\ DialogOK(d)
  BY DEF EditorOK
<1>2. d.prefab.ents \in Seq(Components)
  BY <1>1 DEF Editors, PrefabFiles
<1> QED BY <1>1, <1>2 DEF Editors, HistoryOK

LEMMA FilesHaveNames == \A f \in Files : f # ""
BY EditorAssumption

LEMMA Bounds ==
    Cap \in Nat /\ Cap >= 1 /\ MaxScenes \in Nat /\ MaxScenes >= 1 /\ MaxEdits \in Nat
<1>1. Cap \in Nat /\ Cap >= 1 /\ MaxScenes \in Nat /\ MaxScenes >= 1
  <2>1. {Cap, MaxScenes} \subseteq Nat \ {0}
    BY EditorAssumption
  <2>2. Cap \in Nat \ {0} /\ MaxScenes \in Nat \ {0}
    BY <2>1
  <2> QED BY <2>2
<1>2. MaxEdits \in Nat
  BY EditorAssumption
<1> QED BY <1>1, <1>2

(* A change of the fields that have to do with neither history nor dialog. *)
LEMMA SameHistory ==
    ASSUME NEW d, EditorOK(d), NEW e \in Editors, WorldOK(e.world), LinksInside(e.prefab.ents),
           e.undo = d.undo, e.redo = d.redo,
           e.open = d.open, e.pending = d.pending, e.target = d.target
    PROVE  EditorOK(e)
<1>1. HistoryOK(e)
  <2>1. HistoryOK(d)
    BY EditorHas
  <2> QED BY <2>1 DEF HistoryOK
<1>2. DialogOK(e)
  BY EditorHas DEF DialogOK
<1> QED BY <1>1, <1>2 DEF EditorOK

LEMMA KeptOK ==
    ASSUME NEW s \in Seq(Commands), Len(s) <= Cap, NEW c \in Commands
    PROVE  /\ Kept(s, c) \in Seq(Commands) /\ Len(Kept(s, c)) \in Nat /\ Len(Kept(s, c)) <= Cap
           /\ Last(Kept(s, c)) = c
<1>1. Cap \in Nat /\ Cap > 0 /\ Len(s) \in Nat
  BY Bounds
<1>2. CASE Len(s) = Cap
  <2>1. Tail(s) \in Seq(Commands) /\ Len(Tail(s)) = Cap - 1
    BY <1>1, <1>2
  <2>2. Kept(s, c) = Append(Tail(s), c)
    BY <1>2 DEF Kept
  <2> QED BY <1>1, <2>1, <2>2 DEF Last
<1>3. CASE Len(s) # Cap
  <2>1. Kept(s, c) = Append(s, c)
    BY <1>3 DEF Kept
  <2> QED BY <1>1, <1>3, <2>1 DEF Last
<1> QED BY <1>2, <1>3

(* A push marks the scene and touches nothing but world and history.       *)
SameButWorld(d, e) == /\ e.id = d.id /\ e.running = d.running /\ e.path = d.path /\ e.disk = d.disk
                      /\ e.crashed = d.crashed

LEMMA PushOK ==
    ASSUME NEW d, EditorOK(d), NEW c \in Commands, NeedsRoom(c, FALSE) => Room(d.world, 1),
           c.k = "duplicate" => c.e = NoEntity
    PROVE  LET e == Push(d, c)
           IN  /\ EditorOK(e) /\ SameButWorld(d, e) /\ e.dirty = TRUE /\ e.prefab = d.prefab
               /\ Len(e.world.free) >= Len(d.world.free) - 1
               /\ Len(e.undo) >= 1 /\ Last(e.undo) \in Commands
<1> DEFINE r == Execute(d.world, c)
           e == Push(d, c)
           u == Kept(d.undo, r.c)
<1>1. /\ d \in Editors /\ WorldOK(d.world) /\ d.undo \in Seq(Commands) /\ Len(d.undo) <= Cap
      /\ LinksInside(d.prefab.ents) /\ DialogOK(d)
  <2>1. Cap \in Nat
    BY Bounds
  <2>2. Len(d.undo) \in Nat /\ Len(d.redo) \in Nat /\ Len(d.undo) + Len(d.redo) <= Cap
    BY EditorHas
  <2>3. \A m, n \in Nat : m + n <= Cap => m <= Cap
    BY <2>1
  <2>4. Len(d.undo) <= Cap
    BY <2>2, <2>3
  <2> QED BY <2>4, EditorHas
<1>2. WorldOK(r.w) /\ r.c \in Commands /\ Len(r.w.free) >= Len(d.world.free) - 1
  BY <1>1, ExecuteOK
<1>3. u \in Seq(Commands) /\ Len(u) <= Cap /\ Last(u) = r.c /\ Len(u) \in Nat /\ Len(u) >= 1
  <2>1. u \in Seq(Commands) /\ Len(u) <= Cap /\ Last(u) = r.c /\ Len(u) \in Nat
    BY <1>1, <1>2, KeptOK
  <2>2. Len(u) >= 1
    <3>1. Kept(d.undo, r.c) = Append(Tail(d.undo), r.c) \/ Kept(d.undo, r.c) = Append(d.undo, r.c)
      BY DEF Kept
    <3>2. d.undo # << >> => Tail(d.undo) \in Seq(Commands)
      BY <1>1
    <3>3. Len(d.undo) = Cap => d.undo # << >>
      BY Bounds
    <3> QED BY <1>1, <1>2, <3>2, <3>3 DEF Kept
  <2> QED BY <2>1, <2>2
<1> HIDE DEF r, u
<1>4. e = [d EXCEPT !.world = r.w, !.undo = u, !.redo = << >>, !.dirty = TRUE]
  BY DEF Push, r, u
<1>5. << >> \in Seq(Commands) /\ r.w \in Worlds
  BY <1>2 DEF WorldOK
<1> HIDE DEF e
<1>6. e \in Editors
  BY <1>1, <1>3, <1>4, <1>5 DEF Editors
<1>7. /\ e.world = r.w /\ e.undo = u /\ e.redo = << >> /\ e.dirty = TRUE /\ e.prefab = d.prefab
      /\ e.open = d.open /\ e.pending = d.pending /\ e.target = d.target
      /\ e.id = d.id /\ e.running = d.running /\ e.path = d.path /\ e.disk = d.disk /\ e.crashed = d.crashed
  BY <1>1, <1>4 DEF Editors
<1>8. HistoryOK(e) /\ DialogOK(e)
  <2>1. HistoryOK(e)
    BY <1>3, <1>7 DEF HistoryOK
  <2>2. DialogOK(e)
    BY <1>1, <1>7 DEF DialogOK
  <2> QED BY <2>1, <2>2
<1>9. EditorOK(e)
  BY <1>1, <1>2, <1>6, <1>7, <1>8 DEF EditorOK
<1> QED BY <1>2, <1>3, <1>7, <1>9 DEF SameButWorld, e

(* The commands as they are built.                                         *)
LEMMA CommandByParts ==
    ASSUME NEW k \in Kinds, NEW e \in Nat \X Nat, NEW src \in Nat \X Nat,
           NEW from \in Components, NEW to \in Components,
           k = "body" => "body" \in DOMAIN from /\ "body" \in DOMAIN to
    PROVE  LET c == Command(k, e, src, from, to)
           IN  c \in Commands /\ c.k = k /\ c.e = e
<1> DEFINE c == Command(k, e, src, from, to)
<1>1. /\ c \in [k : Kinds, e : Nat \X Nat, src : Nat \X Nat, from : Components, to : Components]
      /\ c.k = k /\ c.e = e /\ c.from = from /\ c.to = to
  BY DEF Command
<1> HIDE DEF c
<1>2. c \in Commands
  BY <1>1 DEF Commands
<1> QED BY <1>1, <1>2 DEF c

LEMMA CommandsBuilt ==
    /\ CreateCommand \in Commands /\ CreateCommand.k = "create"
    /\ PrefabCommand \in Commands /\ PrefabCommand.k = "prefab"
    /\ \A h \in Nat \X Nat : LET c == DuplicateCommand(h)
                             IN  c \in Commands /\ c.k = "duplicate" /\ c.e = NoEntity
    /\ \A w, h : (WorldOK(w) /\ h \in Living(w)) =>
                    LET c == DestroyCommand(w, h) IN c \in Commands /\ c.k = "destroy"
    /\ \A h \in Nat \X Nat, from, to \in Sizes :
          LET c == BodyCommand(h, from, to) IN c \in Commands /\ c.k = "body"
<1>1. NoEntity \in Nat \X Nat /\ << >> \in Components
  BY NoComponents DEF NoEntity
<1>2. Just("tr", 0) \in Components
  BY JustOK DEF Keys
<1>3. CreateCommand \in Commands /\ CreateCommand.k = "create"
  BY <1>1, <1>2, CommandByParts DEF CreateCommand, Kinds
<1>4. PrefabCommand \in Commands /\ PrefabCommand.k = "prefab"
  BY <1>1, CommandByParts DEF PrefabCommand, Kinds
<1>5. ASSUME NEW h \in Nat \X Nat
      PROVE  LET c == DuplicateCommand(h)
             IN  c \in Commands /\ c.k = "duplicate" /\ c.e = NoEntity
  BY <1>1, CommandByParts DEF DuplicateCommand, Kinds
<1>6. ASSUME NEW w, NEW h, WorldOK(w), h \in Living(w)
      PROVE  LET c == DestroyCommand(w, h) IN c \in Commands /\ c.k = "destroy"
  <2> DEFINE K == DOMAIN Of(w, h) \intersect {"tr"}
             from == [k \in K |-> Of(w, h)[k]]
  <2>1. h \in Nat \X Nat /\ Of(w, h) \in Components
    <3>1. h[1] \in DOMAIN w.ent /\ h \in Handles
      BY <1>6, LivingIs
    <3> QED BY <1>6, <3>1, WorldHas DEF Of, Handles
  <2>2. from \in Components
    <3>1. K \in SUBSET DOMAIN Of(w, h)
      OBVIOUS
    <3> HIDE DEF K
    <3> QED BY <2>1, <3>1, SomeOK
  <2>3. DestroyCommand(w, h) = Command("destroy", h, NoEntity, from, << >>)
    BY DEF DestroyCommand
  <2> HIDE DEF from
  <2> QED BY <1>1, <2>1, <2>2, <2>3, CommandByParts DEF Kinds
<1>7. ASSUME NEW h \in Nat \X Nat, NEW from \in Sizes, NEW to \in Sizes
      PROVE  LET c == BodyCommand(h, from, to) IN c \in Commands /\ c.k = "body"
  <2>1. /\ Just("body", from) \in Components /\ "body" \in DOMAIN Just("body", from)
        /\ Just("body", to) \in Components /\ "body" \in DOMAIN Just("body", to)
    BY SizesAreNumbers, JustOK DEF Keys
  <2> QED BY <1>1, <2>1, CommandByParts DEF BodyCommand, Kinds
<1> QED BY <1>3, <1>4, <1>5, <1>6, <1>7

(* Ctrl+D, one push after the other.                                       *)
Duplicates(run, d, hs) ==
    /\ Duplicated(d, hs) = run[Len(hs)]
    /\ run[0] = d
    /\ \A n \in Nat : n < Len(hs) => run[n + 1] = Push(run[n], DuplicateCommand(hs[n + 1]))

LEMMA DuplicatedRun ==
    ASSUME NEW d, NEW hs, Len(hs) \in Nat
    PROVE  \E run : Duplicates(run, d, hs)
<1> DEFINE IsRun(m, g) == g = [n \in 0..m |-> IF n = 0 THEN d
                                              ELSE Push(g[n - 1], DuplicateCommand(hs[n]))]
           S == {m \in Nat : \E g : IsRun(m, g)}
<1>1. 0 \in S
  <2>1. IsRun(0, [n \in 0..0 |-> d])
    OBVIOUS
  <2> QED BY <2>1
<1>2. ASSUME NEW m \in Nat, m \in S PROVE m + 1 \in S
  <2>1. PICK g : IsRun(m, g)
    BY <1>2
  <2> DEFINE h == [n \in 0..(m + 1) |-> IF n = m + 1 THEN Push(g[m], DuplicateCommand(hs[m + 1])) ELSE g[n]]
  <2>2. IsRun(m + 1, h)
    <3>1. ASSUME NEW n \in 0..(m + 1)
          PROVE  h[n] = IF n = 0 THEN d ELSE Push(h[n - 1], DuplicateCommand(hs[n]))
      BY <2>1
    <3> QED BY <3>1
  <2> HIDE DEF h, IsRun
  <2> QED BY <2>2
<1>3. Len(hs) \in S
  <2> HIDE DEF S
  <2> QED BY <1>1, <1>2, SetInduction
<1>4. \E g : IsRun(Len(hs), g)
  BY <1>3
<1> DEFINE run == CHOOSE g : IsRun(Len(hs), g)
<1>5. Duplicated(d, hs) = run[Len(hs)]
  BY DEF Duplicated
<1>6. IsRun(Len(hs), run)
  <2> HIDE DEF IsRun
  <2> QED BY <1>4
<1> HIDE DEF run
<1>7. \A n \in 0..Len(hs) : run[n] = IF n = 0 THEN d ELSE Push(run[n - 1], DuplicateCommand(hs[n]))
  BY <1>6
<1>8. ASSUME NEW n \in Nat, n < Len(hs) PROVE run[n + 1] = Push(run[n], DuplicateCommand(hs[n + 1]))
  <2>1. n + 1 \in 0..Len(hs) /\ n + 1 # 0 /\ n + 1 - 1 = n
    BY <1>8
  <2> QED BY <1>7, <2>1
<1>9. run[0] = d
  BY <1>7
<1>10. Duplicates(run, d, hs)
  BY <1>5, <1>8, <1>9 DEF Duplicates
<1> QED BY <1>10

LEMMA DuplicatedOK ==
    ASSUME NEW d, EditorOK(d), NEW hs \in Seq(Nat \X Nat), hs # << >>, Room(d.world, Len(hs))
    PROVE  LET e == Duplicated(d, hs)
           IN  /\ EditorOK(e) /\ SameButWorld(d, e) /\ e.dirty = TRUE
               /\ Len(e.undo) >= 1 /\ Last(e.undo) \in Commands
<1>0. Len(hs) \in Nat
  BY SeqHas
<1>d. PICK run : Duplicates(run, d, hs)
  BY <1>0, DuplicatedRun
<1>2. /\ Duplicated(d, hs) = run[Len(hs)] /\ run[0] = d
      /\ \A n \in Nat : n < Len(hs) => run[n + 1] = Push(run[n], DuplicateCommand(hs[n + 1]))
  BY <1>d DEF Duplicates
<1> DEFINE N == Len(hs)
<1>1. /\ N \in Nat /\ N > 0 /\ \A n \in 1..N : hs[n] \in Nat \X Nat
      /\ Len(d.world.free) >= N /\ Len(d.world.free) \in Nat
  <2>1. N \in Nat /\ N > 0 /\ \A n \in 1..N : hs[n] \in Nat \X Nat
    OBVIOUS
  <2>2. WorldOK(d.world)
    BY EditorHas
  <2> QED BY <2>1, <2>2, WorldHas DEF Room
<1> DEFINE Good(n) == /\ EditorOK(run[n]) /\ SameButWorld(d, run[n])
                      /\ Len(run[n].world.free) >= Len(d.world.free) - n
                      /\ n > 0 => /\ run[n].dirty = TRUE
                                  /\ Len(run[n].undo) >= 1 /\ Last(run[n].undo) \in Commands
           S == {n \in Nat : n <= N => Good(n)}
<1>3. 0 \in S
  BY <1>1, <1>2 DEF SameButWorld
<1>4. ASSUME NEW n \in Nat, n \in S PROVE n + 1 \in S
  <2> SUFFICES ASSUME n + 1 <= N PROVE Good(n + 1)
    <3> HIDE DEF Good
    <3> QED OBVIOUS
  <2> DEFINE b == run[n]
             c == DuplicateCommand(hs[n + 1])
  <2>1. n < N /\ n + 1 \in 1..N /\ n + 1 \in Nat
    BY <1>1
  <2>2. /\ EditorOK(b) /\ SameButWorld(d, b) /\ Len(b.world.free) >= Len(d.world.free) - n
        /\ Len(b.world.free) \in Nat
    <3>0. Good(n)
      <4> HIDE DEF Good
      <4> QED BY <1>1, <1>4, <2>1
    <3>1. EditorOK(b) /\ SameButWorld(d, b) /\ Len(b.world.free) >= Len(d.world.free) - n
      BY <3>0
    <3>2. WorldOK(b.world)
      BY <3>1, EditorHas
    <3> QED BY <3>1, <3>2, WorldHas
  <2>3. c \in Commands /\ c.e = NoEntity
    BY <1>1, <2>1, CommandsBuilt
  <2> DEFINE L == Len(d.world.free)
             l == Len(b.world.free)
             m == Len(run[n + 1].world.free)
  <2>4. Room(b.world, 1)
    <3>1. l \in Nat /\ L \in Nat /\ L >= N /\ l >= L - n /\ n + 1 <= N /\ N \in Nat
      BY <1>1, <2>2
    <3> HIDE DEF l, L, N
    <3>2. l >= 1
      BY <3>1
    <3> QED BY <3>2 DEF Room, l
  <2>5. run[n + 1] = Push(b, c)
    BY <1>2, <2>1
  <2>6. LET e == Push(b, c)
        IN  /\ EditorOK(e) /\ SameButWorld(b, e) /\ e.dirty = TRUE
            /\ Len(e.world.free) >= Len(b.world.free) - 1
            /\ Len(e.undo) >= 1 /\ Last(e.undo) \in Commands
    <3> HIDE DEF b, c
    <3> QED BY <2>2, <2>3, <2>4, PushOK
  <2>7. /\ EditorOK(run[n + 1]) /\ SameButWorld(b, run[n + 1]) /\ run[n + 1].dirty = TRUE
        /\ Len(run[n + 1].world.free) >= Len(b.world.free) - 1
        /\ Len(run[n + 1].undo) >= 1 /\ Last(run[n + 1].undo) \in Commands
    BY <2>5, <2>6
  <2>8. SameButWorld(d, run[n + 1])
    BY <2>2, <2>7 DEF SameButWorld
  <2>9. Len(run[n + 1].world.free) >= Len(d.world.free) - (n + 1)
    <3>1. m \in Nat
      BY <2>7, EditorHas, WorldHas
    <3>2. l \in Nat /\ L \in Nat /\ l >= L - n /\ m >= l - 1
      BY <1>1, <2>2, <2>7
    <3> HIDE DEF l, L, m
    <3>3. m >= L - (n + 1)
      BY <3>1, <3>2
    <3> QED BY <3>3 DEF m, L
  <2> QED BY <2>7, <2>8, <2>9
<1>5. N \in S
  <2> HIDE DEF S
  <2> QED BY <1>1, <1>3, <1>4, SetInduction
<1> QED BY <1>1, <1>2, <1>5
------------------------------------------------------------------------------
(* Edits.  A scene whose world was changed is marked, or has drifted from  *)
(* its file, or the program is over; scene and file are the same.          *)
Edited(d, e) ==
    /\ e.id = d.id
    /\ \/ ~e.running /\ e.crashed
       \/ /\ SameButWorld(d, e)
          /\ e.dirty \/ e.drift \/ (e.world = d.world /\ e.dirty = d.dirty /\ e.drift = d.drift)

LEMMA SelectOK ==
    ASSUME NEW d, EditorOK(d), NEW h \in Nat \X Nat
    PROVE  LET e == [d EXCEPT !.sel = h]
           IN  EditorOK(e) /\ Edited(d, e) /\ SameButWorld(d, e) /\ e.dirty = d.dirty /\ e.world = d.world
<1> DEFINE e == [d EXCEPT !.sel = h]
<1>1. d \in Editors /\ WorldOK(d.world) /\ LinksInside(d.prefab.ents)
  BY EditorHas
<1>2. /\ e \in Editors /\ e.world = d.world /\ e.prefab = d.prefab /\ e.undo = d.undo /\ e.redo = d.redo
      /\ e.open = d.open /\ e.pending = d.pending /\ e.target = d.target
      /\ e.id = d.id /\ e.running = d.running /\ e.path = d.path /\ e.disk = d.disk
      /\ e.crashed = d.crashed /\ e.dirty = d.dirty /\ e.drift = d.drift
  BY <1>1 DEF Editors
<1> HIDE DEF e
<1>3. EditorOK(e)
  BY <1>1, <1>2, SameHistory
<1> QED BY <1>2, <1>3 DEF e, Edited, SameButWorld

LEMMA PrefabOK ==
    ASSUME NEW d, EditorOK(d), NEW p \in PrefabFiles, LinksInside(p.ents)
    PROVE  LET e == [d EXCEPT !.prefab = p]
           IN  EditorOK(e) /\ Edited(d, e) /\ SameButWorld(d, e) /\ e.dirty = d.dirty
<1> DEFINE e == [d EXCEPT !.prefab = p]
<1>1. d \in Editors /\ WorldOK(d.world)
  BY EditorHas
<1>2. /\ e \in Editors /\ e.world = d.world /\ e.prefab = p /\ e.undo = d.undo /\ e.redo = d.redo
      /\ e.open = d.open /\ e.pending = d.pending /\ e.target = d.target
      /\ e.id = d.id /\ e.running = d.running /\ e.path = d.path /\ e.disk = d.disk
      /\ e.crashed = d.crashed /\ e.dirty = d.dirty /\ e.drift = d.drift
  BY <1>1 DEF Editors
<1> HIDE DEF e
<1>3. EditorOK(e)
  BY <1>1, <1>2, SameHistory
<1> QED BY <1>2, <1>3 DEF e, Edited, SameButWorld

LEMMA MarkOK ==
    ASSUME NEW d, EditorOK(d)
    PROVE  LET e == [d EXCEPT !.dirty = TRUE]
           IN  EditorOK(e) /\ Edited(d, e)
<1> DEFINE e == [d EXCEPT !.dirty = TRUE]
<1>1. d \in Editors /\ WorldOK(d.world) /\ LinksInside(d.prefab.ents)
  BY EditorHas
<1>2. /\ e \in Editors /\ e.world = d.world /\ e.prefab = d.prefab /\ e.undo = d.undo /\ e.redo = d.redo
      /\ e.open = d.open /\ e.pending = d.pending /\ e.target = d.target
      /\ e.id = d.id /\ e.running = d.running /\ e.path = d.path /\ e.disk = d.disk
      /\ e.crashed = d.crashed /\ e.dirty = TRUE
  BY <1>1 DEF Editors
<1> HIDE DEF e
<1>3. EditorOK(e)
  BY <1>1, <1>2, SameHistory
<1> QED BY <1>2, <1>3 DEF e, Edited, SameButWorld

Gestured(d, w, h) == [d EXCEPT !.world = w, !.sel = h, !.dirty = TRUE]

LEMMA GestureOK ==
    ASSUME NEW d, EditorOK(d), NEW w, WorldOK(w), NEW h \in Nat \X Nat
    PROVE  LET e == Gestured(d, w, h)
           IN  EditorOK(e) /\ Edited(d, e) /\ e.world = w
<1> DEFINE e == [d EXCEPT !.world = w, !.sel = h, !.dirty = TRUE]
<1>1. d \in Editors /\ LinksInside(d.prefab.ents) /\ w \in Worlds
  BY EditorHas DEF WorldOK
<1>2. /\ e \in Editors /\ e.world = w /\ e.prefab = d.prefab /\ e.undo = d.undo /\ e.redo = d.redo
      /\ e.open = d.open /\ e.pending = d.pending /\ e.target = d.target
      /\ e.id = d.id /\ e.running = d.running /\ e.path = d.path /\ e.disk = d.disk
      /\ e.crashed = d.crashed /\ e.dirty = TRUE
  BY <1>1 DEF Editors
<1> HIDE DEF e
<1>3. EditorOK(e)
  BY <1>1, <1>2, SameHistory
<1> QED BY <1>2, <1>3 DEF e, Edited, SameButWorld, Gestured

LEMMA UnmarkedOK ==
    ASSUME NEW d, EditorOK(d), NEW w, WorldOK(w)
    PROVE  LET e == [d EXCEPT !.world = w, !.drift = TRUE]
           IN  EditorOK(e) /\ Edited(d, e)
<1> DEFINE e == [d EXCEPT !.world = w, !.drift = TRUE]
<1>1. d \in Editors /\ LinksInside(d.prefab.ents) /\ w \in Worlds
  BY EditorHas DEF WorldOK
<1>2. /\ e \in Editors /\ e.world = w /\ e.prefab = d.prefab /\ e.undo = d.undo /\ e.redo = d.redo
      /\ e.open = d.open /\ e.pending = d.pending /\ e.target = d.target
      /\ e.id = d.id /\ e.running = d.running /\ e.path = d.path /\ e.disk = d.disk
      /\ e.crashed = d.crashed /\ e.drift = TRUE
  BY <1>1 DEF Editors
<1> HIDE DEF e
<1>3. EditorOK(e)
  BY <1>1, <1>2, SameHistory
<1> QED BY <1>2, <1>3 DEF e, Edited, SameButWorld

LEMMA DiesOK ==
    ASSUME NEW d, EditorOK(d)
    PROVE  EditorOK(Dies(d)) /\ Edited(d, Dies(d)) /\ Dies(d).world = d.world
<1> DEFINE e == Dies(d)
<1>1. d \in Editors /\ WorldOK(d.world) /\ LinksInside(d.prefab.ents)
  BY EditorHas
<1>2. /\ e \in Editors /\ e.world = d.world /\ e.prefab = d.prefab /\ e.undo = d.undo /\ e.redo = d.redo
      /\ e.open = d.open /\ e.pending = d.pending /\ e.target = d.target
      /\ e.id = d.id /\ ~e.running /\ e.crashed
  BY <1>1 DEF Editors, Dies
<1> HIDE DEF e
<1>3. EditorOK(e)
  BY <1>1, <1>2, SameHistory
<1> QED BY <1>2, <1>3 DEF e, Edited

LEMMA SameTwice ==
    ASSUME NEW d, NEW e, NEW f, SameButWorld(d, e), SameButWorld(e, f), f.dirty = TRUE
    PROVE  SameButWorld(d, f) /\ Edited(d, f)
BY DEF Edited, SameButWorld

LEMMA MarkedIsEdited ==
    ASSUME NEW d, NEW e, SameButWorld(d, e), e.dirty = TRUE
    PROVE  Edited(d, e)
BY DEF Edited, SameButWorld

(* What every edit leaves behind, of the invariant and of the rest.        *)
EditDone == /\ EditorOK(ed') /\ Edited(ed, ed') /\ pie' = pie
            /\ edits' \in 0..MaxEdits /\ drag' \in Sizes \union {-1}

LEMMA InvHas ==
    ASSUME EditorInv
    PROVE  /\ EditorOK(ed) /\ WorldOK(ed.world) /\ ed.sel \in Nat \X Nat
           /\ edits \in 0..MaxEdits /\ drag \in Sizes \union {-1}
           /\ \A h \in Living(ed.world) : h \in Nat \X Nat
<1>1. EditorOK(ed) /\ edits \in 0..MaxEdits /\ drag \in Sizes \union {-1}
  BY DEF EditorInv
<1>2. WorldOK(ed.world) /\ ed.sel \in Nat \X Nat
  BY <1>1, EditorHas
<1>3. \A h \in Living(ed.world) : h \in Handles
  BY <1>2, LivingIs
<1> QED BY <1>1, <1>2, <1>3 DEF Handles

LEMMA BudgetOK ==
    ASSUME EditorInv, Budget
    PROVE  edits' \in 0..MaxEdits
BY InvHas, Bounds DEF Budget

(* The body of an entity.                                                  *)
LEMMA BodyIs ==
    ASSUME NEW w, WorldOK(w), NEW h, Has(w, h, "body")
    PROVE  h[1] \in DOMAIN w.ent /\ Of(w, h)["body"] \in Sizes
<1>1. h[1] \in DOMAIN w.ent /\ "body" \in DOMAIN w.ent[h[1]]
  BY DEF Has, IsAlive, Of
<1> QED BY <1>1, WorldHas, ComponentsHave DEF Of

LEMMA AddEntityOK == ASSUME EditorInv, AddEntity PROVE EditDone
<1> DEFINE d == Push(ed, CreateCommand)
           h == NextHandle(ed.world)
           e == [d EXCEPT !.sel = h]
<1>1. Room(ed.world, 1) /\ ed' = e /\ pie' = pie /\ drag' = drag /\ Budget
  BY DEF AddEntity, Does
<1>2. EditorOK(ed) /\ WorldOK(ed.world) /\ drag \in Sizes \union {-1}
  BY InvHas
<1>3. EditorOK(d) /\ SameButWorld(ed, d) /\ d.dirty = TRUE
  BY <1>1, <1>2, CommandsBuilt, PushOK
<1>4. h \in Nat \X Nat
  BY <1>1, <1>2, NextHandleOK
<1>5. EditorOK(e) /\ SameButWorld(d, e) /\ e.dirty = d.dirty
  <2> HIDE DEF d, h
  <2> QED BY <1>3, <1>4, SelectOK
<1> HIDE DEF d, e
<1>6. Edited(ed, e)
  BY <1>3, <1>5, SameTwice
<1> QED BY <1>1, <1>2, <1>5, <1>6, BudgetOK DEF EditDone

LEMMA DeleteEntityOK ==
    ASSUME EditorInv, NEW h \in Living(ed.world), DeleteEntity(h) PROVE EditDone
<1> DEFINE d == Push(ed, DestroyCommand(ed.world, h))
           e == [d EXCEPT !.sel = NoEntity]
<1>1. ed' = e /\ pie' = pie /\ drag' = drag /\ Budget
  BY DEF DeleteEntity, Does
<1>2. EditorOK(ed) /\ WorldOK(ed.world) /\ drag \in Sizes \union {-1}
  BY InvHas
<1>3. EditorOK(d) /\ SameButWorld(ed, d) /\ d.dirty = TRUE
  <2> DEFINE c == DestroyCommand(ed.world, h)
  <2>1. c \in Commands /\ c.k = "destroy"
    BY <1>2, CommandsBuilt
  <2> HIDE DEF c
  <2>2. (NeedsRoom(c, FALSE) => Room(ed.world, 1)) /\ (c.k = "duplicate" => c.e = NoEntity)
    BY <2>1 DEF NeedsRoom
  <2>3. EditorOK(Push(ed, c)) /\ SameButWorld(ed, Push(ed, c)) /\ Push(ed, c).dirty = TRUE
    BY <1>2, <2>1, <2>2, PushOK
  <2> QED BY <2>3 DEF c
<1>4. NoEntity \in Nat \X Nat
  BY DEF NoEntity
<1>5. EditorOK(e) /\ SameButWorld(d, e) /\ e.dirty = d.dirty
  <2> HIDE DEF d
  <2> QED BY <1>3, <1>4, SelectOK
<1> HIDE DEF d, e
<1>6. Edited(ed, e)
  BY <1>3, <1>5, SameTwice
<1> QED BY <1>1, <1>2, <1>5, <1>6, BudgetOK DEF EditDone

LEMMA DuplicateSelectionOK ==
    ASSUME EditorInv, NEW hs \in Seq(Nat \X Nat), DuplicateSelection(hs) PROVE EditDone
<1> DEFINE d == Duplicated(ed, hs)
           e == [d EXCEPT !.sel = Last(d.undo).e]
<1>1. ed' = e /\ pie' = pie /\ drag' = drag /\ Budget /\ hs # << >> /\ Room(ed.world, Len(hs))
  BY DEF DuplicateSelection, Does
<1>2. EditorOK(ed) /\ drag \in Sizes \union {-1}
  BY InvHas
<1>3. EditorOK(d) /\ SameButWorld(ed, d) /\ d.dirty = TRUE /\ Last(d.undo) \in Commands
  BY <1>1, <1>2, DuplicatedOK
<1>4. Last(d.undo).e \in Nat \X Nat
  BY <1>3, CommandHas
<1>5. EditorOK(e) /\ SameButWorld(d, e) /\ e.dirty = d.dirty
  <2> HIDE DEF d
  <2> QED BY <1>3, <1>4, SelectOK
<1> HIDE DEF d, e
<1>6. Edited(ed, e)
  BY <1>3, <1>5, SameTwice
<1> QED BY <1>1, <1>2, <1>5, <1>6, BudgetOK DEF EditDone

LEMMA BodyPushOK ==
    ASSUME NEW d, EditorOK(d), NEW h \in Nat \X Nat, NEW from \in Sizes, NEW to \in Sizes
    PROVE  LET e == Push(d, BodyCommand(h, from, to)) IN EditorOK(e) /\ Edited(d, e)
<1> DEFINE c == BodyCommand(h, from, to)
<1>1. c \in Commands /\ c.k = "body"
  BY CommandsBuilt
<1> HIDE DEF c
<1>2. (NeedsRoom(c, FALSE) => Room(d.world, 1)) /\ (c.k = "duplicate" => c.e = NoEntity)
  BY <1>1 DEF NeedsRoom
<1>3. EditorOK(Push(d, c)) /\ SameButWorld(d, Push(d, c)) /\ Push(d, c).dirty = TRUE
  BY <1>1, <1>2, PushOK
<1>4. Edited(d, Push(d, c))
  BY <1>3, MarkedIsEdited
<1> QED BY <1>3, <1>4 DEF c

LEMMA ChangeMaterialOK ==
    ASSUME EditorInv, NEW v \in Sizes, ChangeMaterial(v) PROVE EditDone
<1> DEFINE from == Of(ed.world, ed.sel)["body"]
<1>1. /\ ed' = Push(ed, BodyCommand(ed.sel, from, v)) /\ pie' = pie /\ drag' = drag /\ Budget
      /\ Has(ed.world, ed.sel, "body")
  BY DEF ChangeMaterial, Does
<1>2. EditorOK(ed) /\ drag \in Sizes \union {-1} /\ ed.sel \in Nat \X Nat /\ WorldOK(ed.world)
  BY InvHas
<1>3. from \in Sizes
  BY <1>1, <1>2, BodyIs
<1> HIDE DEF from
<1>4. EditorOK(ed') /\ Edited(ed, ed')
  BY <1>1, <1>2, <1>3, BodyPushOK
<1> QED BY <1>1, <1>2, <1>4, BudgetOK DEF EditDone

LEMMA SaveAsPrefabOK ==
    ASSUME EditorInv, NEW h \in Living(ed.world), SaveAsPrefab(h) PROVE EditDone
<1> DEFINE d == [ed EXCEPT !.sel = h]
<1>1. pie' = pie /\ drag' = drag /\ Budget
  BY DEF SaveAsPrefab, Does
<1>2. EditorOK(ed) /\ WorldOK(ed.world) /\ drag \in Sizes \union {-1} /\ h \in Nat \X Nat
  BY InvHas
<1>3. EditorOK(d) /\ SameButWorld(ed, d) /\ Edited(ed, d) /\ d.dirty = ed.dirty /\ d.world = ed.world
  BY <1>2, SelectOK
<1>4. CASE ~Capturable(ed.world, h)
  <2>1. ed' = Dies(ed)
    BY <1>4 DEF SaveAsPrefab, Does
  <2>2. EditorOK(ed') /\ Edited(ed, ed')
    BY <1>2, <2>1, DiesOK
  <2> QED BY <1>1, <1>2, <2>2, BudgetOK DEF EditDone
<1>5. CASE Capturable(ed.world, h)
  <2> DEFINE p == PrefabFile(Captured(ed.world, h))
             e == Push(d, PrefabCommand)
  <2>1. ed' = [e EXCEPT !.prefab = p] \/ ed' = [d EXCEPT !.prefab = BadFile] \/ ed' = d
    BY <1>5 DEF SaveAsPrefab, Does
  <2>2. p \in PrefabFiles /\ LinksInside(p.ents)
    <3>1. Captured(ed.world, h) \in Seq(Components) /\ LinksInside(Captured(ed.world, h))
      BY <1>2, <1>5, CapturedOK
    <3> QED BY <3>1 DEF PrefabFile, PrefabFiles
  <2>3. BadFile \in PrefabFiles /\ LinksInside(BadFile.ents)
    BY DEF BadFile, PrefabFiles, LinksInside
  <2>4. CASE ed' = [d EXCEPT !.prefab = BadFile]
    <3> HIDE DEF d
    <3>1. EditorOK(ed') /\ SameButWorld(d, ed') /\ ed'.dirty = d.dirty /\ Edited(d, ed')
      BY <1>3, <2>3, <2>4, PrefabOK
    <3>2. ed'.world = d.world /\ ed'.drift = d.drift
      BY <1>3, <2>4, EditorHas DEF Editors
    <3>3. d.drift = ed.drift
      BY <1>2, EditorHas DEF d, Editors
    <3>4. Edited(ed, ed')
      BY <1>3, <3>1, <3>2, <3>3 DEF Edited, SameButWorld
    <3> QED BY <1>1, <1>2, <3>1, <3>4, BudgetOK DEF EditDone
  <2>5. CASE ed' = [e EXCEPT !.prefab = p]
    <3> HIDE DEF d, p
    <3>1. EditorOK(e) /\ SameButWorld(d, e) /\ e.dirty = TRUE
      <4>1. (NeedsRoom(PrefabCommand, FALSE) => Room(d.world, 1)) /\ PrefabCommand.k # "duplicate"
        BY CommandsBuilt DEF NeedsRoom
      <4> QED BY <1>3, <4>1, CommandsBuilt, PushOK
    <3> HIDE DEF e
    <3>2. EditorOK(ed') /\ SameButWorld(e, ed') /\ ed'.dirty = e.dirty
      BY <2>2, <2>5, <3>1, PrefabOK
    <3>3. SameButWorld(ed, e)
      BY <1>3, <3>1 DEF SameButWorld
    <3>4. Edited(ed, ed')
      BY <3>1, <3>2, <3>3, SameTwice
    <3> QED BY <1>1, <1>2, <3>2, <3>4, BudgetOK DEF EditDone
  <2>6. CASE ed' = d
    <3> HIDE DEF d
    <3> QED BY <1>1, <1>2, <1>3, <2>6, BudgetOK DEF EditDone
  <2> QED BY <2>1, <2>4, <2>5, <2>6
<1> QED BY <1>4, <1>5

LEMMA GestureDone ==
    ASSUME EditorInv, NEW w, WorldOK(w), Room(ed.world, 1), Gesture(w)
    PROVE  EditDone /\ ed'.world = w
<1> DEFINE h == NextHandle(ed.world)
<1>1. ed' = Gestured(ed, w, h) /\ pie' = pie /\ drag' = drag /\ Budget
  BY DEF Gesture, Does, Gestured
<1>2. EditorOK(ed) /\ WorldOK(ed.world) /\ drag \in Sizes \union {-1}
  BY InvHas
<1>3. h \in Nat \X Nat
  BY <1>2, NextHandleOK
<1> HIDE DEF h
<1>4. EditorOK(ed') /\ Edited(ed, ed') /\ ed'.world = w
  BY <1>1, <1>2, <1>3, GestureOK
<1> QED BY <1>1, <1>2, <1>4, BudgetOK DEF EditDone

(* The prefab file as the gestures find it.                                *)
LEMMA PrefabHas ==
    ASSUME EditorInv
    PROVE  /\ ed.prefab.ents \in Seq(Components) /\ LinksInside(ed.prefab.ents)
           /\ Len(ed.prefab.ents) \in Nat
           /\ ed.prefab.ents # << >> => Len(ed.prefab.ents) >= 1
           /\ Len(ed.world.free) \in Nat
<1>1. ed.prefab.ents \in Seq(Components) /\ LinksInside(ed.prefab.ents)
  BY InvHas, EditorHas
<1>2. Len(ed.prefab.ents) \in Nat /\ (ed.prefab.ents # << >> => Len(ed.prefab.ents) >= 1)
  BY <1>1
<1>3. Len(ed.world.free) \in Nat
  BY InvHas, WorldHas
<1> QED BY <1>1, <1>2, <1>3

(* Spawn leaves the bare entity and, beside it, the prefab's.              *)
SpawnedWorld == Instantiated(Created(ed.world, << >>), ed.prefab.ents, << >>)

LEMMA SpawnIs ==
    ASSUME EditorInv, Spawn
    PROVE  LET b == Created(ed.world, << >>)
           IN  /\ Room(ed.world, 1) /\ WorldOK(b) /\ Room(b, Len(ed.prefab.ents))
               /\ WorldOK(SpawnedWorld)
               /\ EditDone /\ ed'.world = SpawnedWorld
<1> DEFINE b == Created(ed.world, << >>)
           n == Len(ed.prefab.ents)
<1>1. Room(ed.world, 1 + n) /\ Gesture(SpawnedWorld)
  BY DEF Spawn, SpawnedWorld
<1>2. n \in Nat /\ Len(ed.world.free) \in Nat /\ ed.prefab.ents \in Seq(Components) /\ LinksInside(ed.prefab.ents)
  BY PrefabHas
<1>3. Len(ed.world.free) >= 1 + n
  BY <1>1 DEF Room
<1>4. Room(ed.world, 1)
  BY <1>2, <1>3 DEF Room
<1>5. WorldOK(b) /\ Len(b.free) = Len(ed.world.free) - 1
  BY <1>4, InvHas, NoComponents, CreatedOK
<1>6. Room(b, n)
  BY <1>2, <1>3, <1>5 DEF Room
<1>7. WorldOK(SpawnedWorld)
  <2> HIDE DEF b
  <2>1. WorldOK(Instantiated(b, ed.prefab.ents, << >>))
    BY <1>2, <1>5, <1>6, NoComponents, InstantiatedOK
  <2> QED BY <2>1 DEF b, SpawnedWorld
<1>8. EditDone /\ ed'.world = SpawnedWorld
  BY <1>1, <1>4, <1>7, GestureDone
<1> QED BY <1>4, <1>5, <1>6, <1>7, <1>8

LEMMA DropPrefabOK == ASSUME EditorInv, DropPrefab PROVE EditDone
<1>1. CASE "pre" \in DOMAIN ed.prefab.ents[1]
  <2>1. ed' = Dies(ed) /\ pie' = pie /\ drag' = drag /\ Budget
    BY <1>1 DEF DropPrefab, Does
  <2>2. EditorOK(ed) /\ drag \in Sizes \union {-1}
    BY InvHas
  <2>3. EditorOK(ed') /\ Edited(ed, ed')
    BY <2>1, <2>2, DiesOK
  <2> QED BY <2>1, <2>2, <2>3, BudgetOK DEF EditDone
<1>2. CASE "pre" \notin DOMAIN ed.prefab.ents[1]
  <2> DEFINE w == Instantiated(ed.world, ed.prefab.ents, Just("pre", 1))
  <2>1. ed.prefab.ents # << >> /\ Room(ed.world, Len(ed.prefab.ents)) /\ Gesture(w)
    BY <1>2 DEF DropPrefab
  <2>2. Just("pre", 1) \in Components
    BY JustOK DEF Keys
  <2>3. WorldOK(w)
    BY <2>1, <2>2, PrefabHas, InvHas, InstantiatedOK
  <2>4. Room(ed.world, 1)
    BY <2>1, PrefabHas DEF Room
  <2> HIDE DEF w
  <2> QED BY <2>1, <2>3, <2>4, GestureDone
<1> QED BY <1>1, <1>2

LEMMA DropMeshOK == ASSUME EditorInv, DropMesh PROVE EditDone
<1> DEFINE c == [k \in {"tr", "body"} |-> 0]
           w == Created(ed.world, c)
<1>1. Room(ed.world, 1) /\ Gesture(w)
  BY DEF DropMesh
<1>2. c \in Components
  <2>1. {"tr", "body"} \in SUBSET Keys /\ c \in [{"tr", "body"} -> Int] /\ c["body"] = 0
    BY DEF Keys
  <2> QED BY <2>1, SizesAreNumbers, ComponentsByKeys
<1>3. WorldOK(w)
  <2> HIDE DEF c
  <2> QED BY <1>1, <1>2, InvHas, CreatedOK
<1> HIDE DEF w
<1> QED BY <1>1, <1>3, GestureDone

LEMMA UnmarkedDone ==
    ASSUME EditorInv, NEW w, WorldOK(w), Unmarked(w)
    PROVE  EditDone
<1>1. ed' = [ed EXCEPT !.world = w, !.drift = TRUE] /\ pie' = pie /\ drag' = drag /\ Budget
  BY DEF Unmarked, Does
<1>2. EditorOK(ed) /\ drag \in Sizes \union {-1}
  BY InvHas
<1>3. EditorOK(ed') /\ Edited(ed, ed')
  BY <1>1, <1>2, UnmarkedOK
<1> QED BY <1>1, <1>2, <1>3, BudgetOK DEF EditDone

LEMMA UnmarkedSteps ==
    ASSUME EditorInv
    PROVE  /\ \A v \in Sizes : EditWidget(v) => EditDone
           /\ \A v \in Poses : MoveGizmo(v) => EditDone
           /\ AddComponent => EditDone
           /\ RemoveComponent => EditDone
<1>0. WorldOK(ed.world) /\ "body" \in Keys /\ "tr" \in Keys
  BY InvHas DEF Keys
<1>1. ASSUME NEW v \in Sizes, EditWidget(v) PROVE EditDone
  <2>1. Unmarked(Written(ed.world, ed.sel, "body", v)) /\ ed.sel[1] \in DOMAIN ed.world.ent
    BY <1>1 DEF EditWidget, Has, IsAlive
  <2>2. WorldOK(Written(ed.world, ed.sel, "body", v))
    BY <1>0, <2>1, SizesAreNumbers, WrittenOK
  <2> QED BY <2>1, <2>2, UnmarkedDone
<1>2. ASSUME NEW v \in Poses, MoveGizmo(v) PROVE EditDone
  <2>1. Unmarked(Written(ed.world, ed.sel, "tr", v)) /\ ed.sel[1] \in DOMAIN ed.world.ent
    BY <1>2 DEF MoveGizmo, Has, IsAlive
  <2>2. WorldOK(Written(ed.world, ed.sel, "tr", v))
    BY <1>0, <2>1, SizesAreNumbers, WrittenOK
  <2> QED BY <2>1, <2>2, UnmarkedDone
<1>3. ASSUME AddComponent PROVE EditDone
  <2>1. Unmarked(Written(ed.world, ed.sel, "body", 0)) /\ ed.sel[1] \in DOMAIN ed.world.ent
    BY <1>3 DEF AddComponent, IsAlive
  <2>2. WorldOK(Written(ed.world, ed.sel, "body", 0))
    BY <1>0, <2>1, SizesAreNumbers, WrittenOK
  <2> QED BY <2>1, <2>2, UnmarkedDone
<1>4. ASSUME RemoveComponent PROVE EditDone
  <2> DEFINE c == Of(ed.world, ed.sel)
             K == DOMAIN c \ {"body"}
             rest == [k \in K |-> c[k]]
  <2>1. Unmarked(Placed(ed.world, ed.sel, rest)) /\ ed.sel[1] \in DOMAIN ed.world.ent
    BY <1>4 DEF RemoveComponent, Has, IsAlive
  <2>2. c \in Components
    BY <1>0, <2>1, WorldHas DEF Of
  <2>3. rest \in Components
    <3>1. K \in SUBSET DOMAIN c
      OBVIOUS
    <3> HIDE DEF c, K
    <3> QED BY <2>2, <3>1, SomeOK
  <2> HIDE DEF rest
  <2>4. WorldOK(Placed(ed.world, ed.sel, rest))
    BY <1>0, <2>1, <2>3, PlacedOK
  <2> QED BY <2>1, <2>4, UnmarkedDone
<1> QED BY <1>1, <1>2, <1>3, <1>4

(* The selections that Ctrl+D may find.                                    *)
LEMMA SelectionOK ==
    ASSUME NEW w, WorldOK(w),
           NEW hs \in SetToSeqs(Living(w)) \union {<<h>> : h \in Living(w)}
    PROVE  hs \in Seq(Nat \X Nat)
<1> DEFINE L == Living(w)
<1>1. \A h \in L : h \in Nat \X Nat
  BY LivingIs DEF Handles
<1>2. IsFiniteSet(L) /\ Cardinality(L) \in Nat
  <2> DEFINE f == [i \in DOMAIN w.ent |-> <<i, w.gen[i]>>]
  <2>1. DOMAIN w.ent \in SUBSET (1..Slots)
    BY WorldHas
  <2>2. IsFiniteSet(DOMAIN w.ent)
    BY <2>1, SlotsIsNat, PartOfInterval
  <2>3. f \in Surjection(DOMAIN w.ent, L)
    BY DEF Surjection, Living
  <2> HIDE DEF f, L
  <2>4. IsFiniteSet(L)
    BY <2>2, <2>3, FS_Surjection
  <2> QED BY <2>4, FS_CardinalityType
<1>3. CASE hs \in SetToSeqs(L)
  <2>1. hs \in [1..Cardinality(L) -> L]
    BY <1>3 DEF SetToSeqs
  <2> HIDE DEF L
  <2>2. hs \in Seq(L)
    BY <1>2, <2>1
  <2> QED BY <1>1, <2>2, SeqWiden
<1>4. CASE hs \in {<<h>> : h \in L}
  BY <1>1, <1>4
<1> QED BY <1>3, <1>4

LEMMA DragStartOK == ASSUME EditorInv, DragStart PROVE EditDone
<1>1. /\ ed' = ed /\ pie' = pie /\ Budget
      /\ Has(ed.world, ed.sel, "body") /\ drag' = Of(ed.world, ed.sel)["body"]
  BY DEF DragStart
<1>2. EditorOK(ed) /\ WorldOK(ed.world)
  BY InvHas
<1>3. drag' \in Sizes \union {-1}
  BY <1>1, <1>2, BodyIs
<1>4. Edited(ed, ed)
  BY DEF Edited, SameButWorld
<1> QED BY <1>1, <1>2, <1>3, <1>4, BudgetOK DEF EditDone

LEMMA DragEndOK == ASSUME EditorInv, DragEnd PROVE EditDone
<1> DEFINE to == Of(ed.world, ed.sel)["body"]
<1>1. /\ ed' = Push(ed, BodyCommand(ed.sel, drag, to)) /\ pie' = pie /\ drag' = -1 /\ Budget
      /\ Has(ed.world, ed.sel, "body") /\ drag # -1
  BY DEF DragEnd, Does
<1>2. EditorOK(ed) /\ WorldOK(ed.world) /\ drag \in Sizes /\ ed.sel \in Nat \X Nat
  BY <1>1, InvHas
<1>3. to \in Sizes
  BY <1>1, <1>2, BodyIs
<1> HIDE DEF to
<1>4. EditorOK(ed') /\ Edited(ed, ed')
  BY <1>1, <1>2, <1>3, BodyPushOK
<1> QED BY <1>1, <1>4, BudgetOK DEF EditDone

LEMMA MarkAndSelectOK ==
    ASSUME EditorInv
    PROVE  /\ EditGlobals => EditDone
           /\ \A h \in Living(ed.world) : Select(h) => EditDone
<1>0. EditorOK(ed) /\ drag \in Sizes \union {-1} /\ \A h \in Living(ed.world) : h \in Nat \X Nat
  BY InvHas
<1>1. ASSUME EditGlobals PROVE EditDone
  <2>1. ed' = [ed EXCEPT !.dirty = TRUE] /\ pie' = pie /\ drag' = drag /\ Budget
    BY <1>1 DEF EditGlobals, Does
  <2>2. EditorOK(ed') /\ Edited(ed, ed')
    BY <1>0, <2>1, MarkOK
  <2> QED BY <1>0, <2>1, <2>2, BudgetOK DEF EditDone
<1>2. ASSUME NEW h \in Living(ed.world), Select(h) PROVE EditDone
  <2>1. ed' = [ed EXCEPT !.sel = h] /\ pie' = pie /\ drag' = drag /\ Budget
    BY <1>2 DEF Select, Does
  <2>2. EditorOK(ed') /\ Edited(ed, ed')
    BY <1>0, <2>1, SelectOK
  <2> QED BY <1>0, <2>1, <2>2, BudgetOK DEF EditDone
<1> QED BY <1>1, <1>2

LEMMA EditStepOK == ASSUME EditorInv, EditStep PROVE EditDone
<1>1. CASE \/ AddEntity \/ Spawn \/ DropPrefab \/ DropMesh \/ EditGlobals
           \/ AddComponent \/ RemoveComponent \/ DragStart \/ DragEnd
  BY <1>1, AddEntityOK, SpawnIs, DropPrefabOK, DropMeshOK, MarkAndSelectOK, UnmarkedSteps,
     DragStartOK, DragEndOK
<1>2. ASSUME NEW h \in Living(ed.world), DeleteEntity(h) \/ Select(h) \/ SaveAsPrefab(h)
      PROVE  EditDone
  BY <1>2, DeleteEntityOK, MarkAndSelectOK, SaveAsPrefabOK
<1>3. ASSUME NEW hs \in SetToSeqs(Living(ed.world)) \union {<<h>> : h \in Living(ed.world)},
             DuplicateSelection(hs)
      PROVE  EditDone
  <2>1. hs \in Seq(Nat \X Nat)
    BY InvHas, SelectionOK
  <2> QED BY <1>3, <2>1, DuplicateSelectionOK
<1>4. ASSUME NEW v \in Sizes, ChangeMaterial(v) \/ EditWidget(v) \/ DragMove(v)
      PROVE  EditDone
  BY <1>4, ChangeMaterialOK, UnmarkedSteps DEF DragMove
<1>5. ASSUME NEW v \in Poses, MoveGizmo(v) PROVE EditDone
  BY <1>5, UnmarkedSteps
<1> QED BY <1>1, <1>2, <1>3, <1>4, <1>5 DEF EditStep
------------------------------------------------------------------------------
(* Undo and redo move a command from one stack to the other.               *)
LEMMA UndoOK ==
    ASSUME EditorInv, Undo
    PROVE  /\ EditDone /\ Len(ed'.undo) = Len(ed.undo) - 1 /\ Len(ed.undo) \in Nat
           /\ KeepsOthers(ed.world, ed'.world, Last(ed.undo).e)
<1> DEFINE c == Last(ed.undo)
           r == Revert(ed.world, c)
           p == IF r.c.k = "prefab" THEN NoFile ELSE ed.prefab
           u == Front(ed.undo)
           x == Append(ed.redo, r.c)
<1>1. /\ ed' = [ed EXCEPT !.world = r.w, !.undo = u, !.prefab = p, !.redo = x, !.dirty = TRUE]
      /\ pie' = pie /\ drag' = drag /\ Budget /\ ed.undo # << >>
      /\ NeedsRoom(c, TRUE) => Room(ed.world, 1)
  BY DEF Undo, Does
<1>2. /\ EditorOK(ed) /\ ed \in Editors /\ WorldOK(ed.world) /\ drag \in Sizes \union {-1}
      /\ ed.undo \in Seq(Commands) /\ ed.redo \in Seq(Commands)
      /\ Len(ed.undo) \in Nat /\ Len(ed.redo) \in Nat /\ Len(ed.undo) + Len(ed.redo) <= Cap
      /\ ed.prefab \in PrefabFiles /\ LinksInside(ed.prefab.ents) /\ HistoryOK(ed) /\ DialogOK(ed)
  BY InvHas, EditorHas
<1>3. Len(ed.undo) >= 1
  BY <1>1, <1>2
<1>4. u \in Seq(Commands) /\ Len(u) = Len(ed.undo) - 1 /\ c \in Commands
  BY <1>2, <1>3, FrontIs
<1>5. /\ WorldOK(r.w) /\ r.c \in Commands
      /\ r.c.k \in {"create", "duplicate"} => r.c.e = NoEntity
      /\ KeepsOthers(ed.world, r.w, c.e)
  <2> HIDE DEF c
  <2> QED BY <1>1, <1>2, <1>4, RevertOK
<1>6. p \in PrefabFiles /\ LinksInside(p.ents)
  <2>1. NoFile \in PrefabFiles /\ LinksInside(NoFile.ents)
    BY DEF NoFile, PrefabFiles, LinksInside
  <2> QED BY <1>2, <2>1
<1>7. /\ x \in Seq(Commands) /\ Len(x) = Len(ed.redo) + 1
      /\ \A n \in 1..Len(ed.redo) : x[n] = ed.redo[n]
      /\ x[Len(ed.redo) + 1] = r.c
      /\ \A n \in DOMAIN x : n \in 1..Len(ed.redo) \/ n = Len(ed.redo) + 1
  BY <1>2, <1>5
<1>8. r.w \in Worlds
  BY <1>5 DEF WorldOK
<1> HIDE DEF c, r, p, u, x
<1>9. /\ ed' \in Editors /\ ed'.world = r.w /\ ed'.undo = u /\ ed'.redo = x /\ ed'.prefab = p
      /\ ed'.dirty = TRUE /\ ed'.open = ed.open /\ ed'.pending = ed.pending /\ ed'.target = ed.target
      /\ SameButWorld(ed, ed')
  BY <1>1, <1>2, <1>4, <1>6, <1>7, <1>8 DEF Editors, SameButWorld
<1>10. HistoryOK(ed')
  <2>1. Len(u) + Len(x) <= Cap
    <3> DEFINE i == Len(ed.undo)
               j == Len(ed.redo)
               m == Len(u)
               n == Len(x)
    <3>1. m = i - 1 /\ n = j + 1 /\ i \in Nat /\ j \in Nat
      BY <1>2, <1>4, <1>7
    <3>2. i + j <= Cap
      BY <1>2
    <3> HIDE DEF i, j, m, n
    <3>3. m + n = i + j
      BY <3>1
    <3>4. m + n <= Cap
      BY <3>2, <3>3
    <3> QED BY <3>4 DEF m, n
  <2>2. \A n \in DOMAIN x : x[n].k \in {"create", "duplicate"} => x[n].e = NoEntity
    <3> SUFFICES ASSUME NEW n \in DOMAIN x, x[n].k \in {"create", "duplicate"} PROVE x[n].e = NoEntity
      OBVIOUS
    <3>1. CASE n \in 1..Len(ed.redo)
      <4>1. x[n] = ed.redo[n] /\ n \in DOMAIN ed.redo
        BY <1>2, <1>7, <3>1
      <4> QED BY <1>2, <4>1 DEF HistoryOK
    <3>2. CASE n = Len(ed.redo) + 1
      BY <1>5, <1>7, <3>2
    <3> QED BY <1>7, <3>1, <3>2
  <2> QED BY <1>9, <2>1, <2>2 DEF HistoryOK
<1>11. DialogOK(ed')
  BY <1>2, <1>9 DEF DialogOK
<1>12. EditorOK(ed') /\ Edited(ed, ed')
  BY <1>5, <1>6, <1>9, <1>10, <1>11, MarkedIsEdited DEF EditorOK
<1> QED BY <1>1, <1>2, <1>4, <1>5, <1>9, <1>12, BudgetOK DEF EditDone, c

LEMMA RedoOK ==
    ASSUME EditorInv, Redo
    PROVE  /\ EditDone /\ Len(ed'.undo) = Len(ed.undo) + 1 /\ Len(ed.undo) \in Nat
           /\ KeepsOthers(ed.world, ed'.world, Last(ed.redo).e)
<1> DEFINE c == Last(ed.redo)
           r == Execute(ed.world, c)
           u == Append(ed.undo, r.c)
           x == Front(ed.redo)
<1>1. /\ ed' = [ed EXCEPT !.world = r.w, !.redo = x, !.undo = u, !.dirty = TRUE]
      /\ pie' = pie /\ drag' = drag /\ Budget /\ ed.redo # << >>
      /\ NeedsRoom(c, FALSE) => Room(ed.world, 1)
  BY DEF Redo, Does
<1>2. /\ EditorOK(ed) /\ ed \in Editors /\ WorldOK(ed.world) /\ drag \in Sizes \union {-1}
      /\ ed.undo \in Seq(Commands) /\ ed.redo \in Seq(Commands)
      /\ Len(ed.undo) \in Nat /\ Len(ed.redo) \in Nat /\ Len(ed.undo) + Len(ed.redo) <= Cap
      /\ LinksInside(ed.prefab.ents) /\ HistoryOK(ed) /\ DialogOK(ed)
  BY InvHas, EditorHas
<1>3. Len(ed.redo) >= 1 /\ Len(ed.redo) \in DOMAIN ed.redo
  BY <1>1, <1>2
<1>4. /\ x \in Seq(Commands) /\ Len(x) = Len(ed.redo) - 1 /\ c \in Commands
      /\ \A n \in 1..Len(ed.redo) - 1 : x[n] = ed.redo[n]
      /\ c = ed.redo[Len(ed.redo)]
  BY <1>2, <1>3, FrontIs
<1>5. c.k = "duplicate" => c.e = NoEntity
  BY <1>2, <1>3, <1>4 DEF HistoryOK
<1>6. WorldOK(r.w) /\ r.c \in Commands /\ KeepsOthers(ed.world, r.w, c.e)
  <2> HIDE DEF c
  <2> QED BY <1>1, <1>2, <1>4, <1>5, ExecuteOK
<1>7. u \in Seq(Commands) /\ Len(u) = Len(ed.undo) + 1
  BY <1>2, <1>6
<1>8. r.w \in Worlds
  BY <1>6 DEF WorldOK
<1> HIDE DEF c, r, u, x
<1>9. /\ ed' \in Editors /\ ed'.world = r.w /\ ed'.undo = u /\ ed'.redo = x /\ ed'.prefab = ed.prefab
      /\ ed'.dirty = TRUE /\ ed'.open = ed.open /\ ed'.pending = ed.pending /\ ed'.target = ed.target
      /\ SameButWorld(ed, ed')
  BY <1>1, <1>2, <1>4, <1>7, <1>8 DEF Editors, SameButWorld
<1>10. HistoryOK(ed')
  <2>1. Len(u) + Len(x) <= Cap
    <3> DEFINE i == Len(ed.undo)
               j == Len(ed.redo)
               m == Len(u)
               n == Len(x)
    <3>1. m = i + 1 /\ n = j - 1 /\ i \in Nat /\ j \in Nat
      BY <1>2, <1>4, <1>7
    <3>2. i + j <= Cap
      BY <1>2
    <3> HIDE DEF i, j, m, n
    <3>3. m + n = i + j
      BY <3>1
    <3>4. m + n <= Cap
      BY <3>2, <3>3
    <3> QED BY <3>4 DEF m, n
  <2>2. \A n \in DOMAIN x : x[n].k \in {"create", "duplicate"} => x[n].e = NoEntity
    <3> SUFFICES ASSUME NEW n \in DOMAIN x, x[n].k \in {"create", "duplicate"} PROVE x[n].e = NoEntity
      OBVIOUS
    <3>1. n \in 1..Len(ed.redo) - 1 /\ n \in DOMAIN ed.redo
      BY <1>2, <1>4
    <3> QED BY <1>2, <1>4, <3>1 DEF HistoryOK
  <2> QED BY <1>9, <2>1, <2>2 DEF HistoryOK
<1>11. DialogOK(ed')
  BY <1>2, <1>9 DEF DialogOK
<1>12. EditorOK(ed') /\ Edited(ed, ed')
  BY <1>2, <1>6, <1>9, <1>10, <1>11, MarkedIsEdited DEF EditorOK
<1> QED BY <1>1, <1>2, <1>6, <1>7, <1>9, <1>12, BudgetOK DEF EditDone, c

(* An edit keeps the invariant.                                            *)
LEMMA OnDiskSame ==
    ASSUME NEW d, NEW e, SameButWorld(d, e), NEW t, OnDisk(d, t)
    PROVE  OnDisk(e, t)
BY DEF OnDisk, SameButWorld

LEMMA EditDoneKeepsInv == ASSUME EditorInv, EditDone PROVE EditorInv'
<1>1. /\ EditorOK(ed') /\ Edited(ed, ed') /\ pie' = pie
      /\ edits' \in 0..MaxEdits /\ drag' \in Sizes \union {-1}
  BY DEF EditDone
<1>2. ed.id \in 1..MaxScenes /\ PlayOK /\ CleanOnDisk /\ SnapshotOnDisk
  BY DEF EditorInv
<1>3. ed'.id \in 1..MaxScenes
  BY <1>1, <1>2 DEF Edited
<1>4. PlayOK'
  BY <1>1, <1>2 DEF PlayOK
<1>5. ASSUME NEW t, CleanOK(ed, t), t = ed.world.ent => ed'.world = ed.world \/ ed'.drift \/ ed'.dirty
      PROVE  CleanOK(ed', t)
  <2> SUFFICES ASSUME ed'.running, ~ed'.dirty, ~ed'.drift PROVE OnDisk(ed', t)
    BY DEF CleanOK
  <2>1. SameButWorld(ed, ed') /\ ed'.dirty = ed.dirty /\ ed'.drift = ed.drift /\ ed'.world = ed.world
    BY <1>1 DEF Edited
  <2>2. ed.running /\ ~ed.dirty /\ ~ed.drift
    BY <2>1 DEF SameButWorld
  <2>3. OnDisk(ed, t)
    BY <1>5, <2>2 DEF CleanOK
  <2> QED BY <2>1, <2>3, OnDiskSame
<1>6. \/ ed'.world = ed.world \/ ed'.drift \/ ed'.dirty \/ ~ed'.running
  BY <1>1 DEF Edited
<1>7. CleanOnDisk'
  <2> SUFFICES ASSUME ~Playing PROVE CleanOK(ed', ed'.world.ent)
    BY <1>1 DEF CleanOnDisk, Playing
  <2>1. CleanOK(ed, ed.world.ent)
    BY <1>2 DEF CleanOnDisk
  <2>2. CASE ed'.world = ed.world
    <3>1. CleanOK(ed', ed.world.ent)
      BY <1>5, <2>1, <2>2
    <3> QED BY <2>2, <3>1
  <2>3. CASE ed'.drift \/ ed'.dirty \/ ~ed'.running
    BY <2>3 DEF CleanOK
  <2> QED BY <1>6, <2>2, <2>3
<1>8. SnapshotOnDisk'
  <2> SUFFICES ASSUME Playing, ~pie.saved, pie.scene = ed.id PROVE CleanOK(ed', TableOf(pie.snap))
    BY <1>1 DEF SnapshotOnDisk, Playing, Edited
  <2>1. CleanOK(ed, TableOf(pie.snap))
    BY <1>2 DEF SnapshotOnDisk
  <2>2. CASE ed'.world = ed.world
    BY <1>5, <2>1, <2>2
  <2>3. CASE ed'.drift \/ ed'.dirty \/ ~ed'.running
    BY <2>3 DEF CleanOK
  <2> QED BY <1>6, <2>2, <2>3
<1> QED BY <1>1, <1>3, <1>4, <1>7, <1>8 DEF EditorInv
------------------------------------------------------------------------------
(* The handlers that replace or save the scene.  Each leaves an editor     *)
(* whose scene is a new one or the same; a new one, and one that was on    *)
(* disk before, is on disk.                                                *)
Leads(d, e) ==
    /\ EditorOK(e) /\ e.id >= d.id
    /\ (e.id # d.id \/ CleanOK(d, d.world.ent)) => CleanOK(e, e.world.ent)

LEMMA LeadsOn ==
    ASSUME NEW d, EditorOK(d), NEW m, NEW e, Leads(d, m), Leads(m, e)
    PROVE  Leads(d, e)
<1>1. d.id \in Nat /\ m.id \in Nat /\ e.id \in Nat
  BY EditorHas DEF Leads
<1> QED BY <1>1 DEF Leads

LEMMA FreshOK ==
    ASSUME NEW d, EditorOK(d), NEW w, WorldOK(w), NEW p \in Paths, NEW b \in BOOLEAN
    PROVE  LET e == Fresh(d, w, p, b)
           IN  /\ EditorOK(e) /\ e.id = d.id + 1 /\ e.world = w /\ e.path = p /\ e.disk = d.disk
               /\ (e.drift <=> b) /\ ~e.dirty /\ e.running = d.running
<1> DEFINE e == Fresh(d, w, p, b)
<1>1. /\ d \in Editors /\ LinksInside(d.prefab.ents) /\ DialogOK(d) /\ w \in Worlds
      /\ d.id \in Nat /\ d.id + 1 \in Nat /\ << >> \in Seq(Commands) /\ NoEntity \in Nat \X Nat
  <2>1. d \in Editors /\ LinksInside(d.prefab.ents) /\ DialogOK(d) /\ d.id \in Nat
    BY EditorHas
  <2>2. w \in Worlds
    BY DEF WorldOK
  <2>3. << >> \in Seq(Commands) /\ NoEntity \in Nat \X Nat
    BY DEF NoEntity
  <2>4. d.id + 1 \in Nat
    BY <2>1
  <2> QED BY <2>1, <2>2, <2>3, <2>4
<1>2. /\ e \in Editors /\ e.world = w /\ e.prefab = d.prefab /\ e.undo = << >> /\ e.redo = << >>
      /\ e.open = d.open /\ e.pending = d.pending /\ e.target = d.target
      /\ e.id = d.id + 1 /\ e.running = d.running /\ e.path = p /\ e.disk = d.disk
      /\ e.dirty = FALSE /\ e.drift = b
  BY <1>1 DEF Editors, Fresh
<1> HIDE DEF e
<1>3. HistoryOK(e)
  <2>1. Len(e.undo) + Len(e.redo) = 0 /\ DOMAIN e.redo = {}
    BY <1>2
  <2> DEFINE m == Len(e.undo) + Len(e.redo)
  <2>2. m = 0
    BY <2>1
  <2> HIDE DEF m
  <2>3. m <= Cap
    BY <2>2, Bounds
  <2> QED BY <2>1, <2>3 DEF HistoryOK, m
<1>4. DialogOK(e)
  BY <1>1, <1>2 DEF DialogOK
<1>5. EditorOK(e)
  BY <1>1, <1>2, <1>3, <1>4 DEF EditorOK
<1> QED BY <1>2, <1>5 DEF e

LEMMA AskOK ==
    ASSUME NEW d, EditorOK(d), NEW act \in {"new", "open", "close"}, NEW target \in Paths,
           act = "open" => target \in Files
    PROVE  LET e == Ask(d, act, target)
           IN  /\ EditorOK(e) /\ SameButWorld(d, e)
               /\ e.world = d.world /\ e.dirty = d.dirty /\ e.drift = d.drift
<1> DEFINE e == Ask(d, act, target)
<1>1. d \in Editors /\ LinksInside(d.prefab.ents) /\ WorldOK(d.world) /\ HistoryOK(d)
  BY EditorHas
<1>2. /\ e \in Editors /\ e.world = d.world /\ e.prefab = d.prefab /\ e.undo = d.undo /\ e.redo = d.redo
      /\ e.open = TRUE /\ e.pending = act /\ e.target = target
      /\ e.id = d.id /\ e.running = d.running /\ e.path = d.path /\ e.disk = d.disk
      /\ e.crashed = d.crashed /\ e.dirty = d.dirty /\ e.drift = d.drift
  BY <1>1 DEF Editors, Ask
<1> HIDE DEF e
<1>3. HistoryOK(e) /\ DialogOK(e)
  BY <1>1, <1>2 DEF HistoryOK, DialogOK
<1>4. EditorOK(e)
  BY <1>1, <1>2, <1>3 DEF EditorOK
<1> QED BY <1>2, <1>4 DEF e, SameButWorld

(* A handler that only changes the dialog.                                 *)
LEMMA SameLeads ==
    ASSUME NEW d, EditorOK(d), NEW e, EditorOK(e), SameButWorld(d, e),
           e.world = d.world, e.dirty = d.dirty, e.drift = d.drift
    PROVE  Leads(d, e)
<1>1. e.id = d.id /\ e.id >= d.id
  <2>1. d.id \in Nat
    BY EditorHas
  <2> QED BY <2>1 DEF SameButWorld
<1>2. ASSUME CleanOK(d, d.world.ent) PROVE CleanOK(e, e.world.ent)
  <2>1. ASSUME OnDisk(d, d.world.ent) PROVE OnDisk(e, e.world.ent)
    BY <2>1, OnDiskSame
  <2> QED BY <1>2, <2>1 DEF CleanOK, SameButWorld
<1> QED BY <1>1, <1>2 DEF Leads

(* New and Open: the disk is as it was, and a marked scene stays.          *)
Goes(d, e) == /\ Leads(d, e) /\ e.disk = d.disk /\ e.running = d.running
              /\ d.dirty => e.id = d.id

LEMMA AskGoes ==
    ASSUME NEW d, EditorOK(d), NEW act \in {"new", "open", "close"}, NEW target \in Paths,
           act = "open" => target \in Files
    PROVE  Goes(d, Ask(d, act, target))
<1> DEFINE e == Ask(d, act, target)
<1>1. EditorOK(e) /\ SameButWorld(d, e) /\ e.world = d.world /\ e.dirty = d.dirty /\ e.drift = d.drift
  BY AskOK
<1> HIDE DEF e
<1>2. Leads(d, e)
  BY <1>1, SameLeads
<1>3. Goes(d, e)
  BY <1>1, <1>2 DEF Goes, SameButWorld
<1> QED BY <1>3 DEF e

LEMMA FreshGoes ==
    ASSUME NEW d, EditorOK(d), ~d.dirty, NEW w, WorldOK(w), NEW p \in Paths, NEW b \in BOOLEAN,
           b = FALSE => OnDisk(Fresh(d, w, p, b), w.ent)
    PROVE  Goes(d, Fresh(d, w, p, b))
<1> DEFINE e == Fresh(d, w, p, b)
<1>1. /\ EditorOK(e) /\ e.id = d.id + 1 /\ e.world = w /\ e.path = p /\ e.disk = d.disk
      /\ (e.drift <=> b) /\ ~e.dirty /\ e.running = d.running
  BY FreshOK
<1> HIDE DEF e
<1>2. CleanOK(e, e.world.ent)
  <2>1. b = FALSE => OnDisk(e, e.world.ent)
    BY <1>1 DEF e
  <2> QED BY <1>1, <2>1 DEF CleanOK
<1>3. e.id >= d.id
  <2>1. d.id \in Nat
    BY EditorHas
  <2>2. e.id = d.id + 1
    BY <1>1
  <2> QED BY <2>1, <2>2
<1>4. Goes(d, e)
  BY <1>1, <1>2, <1>3 DEF Goes, Leads
<1> QED BY <1>4 DEF e

LEMMA NewSceneOK ==
    ASSUME NEW d, EditorOK(d), NEW e \in NewScene(d)
    PROVE  Goes(d, e)
<1>1. CASE d.dirty
  <2>1. d.target \in Paths
    BY EditorHas
  <2>2. e = Ask(d, "new", d.target)
    BY <1>1 DEF NewScene
  <2> QED BY <2>1, <2>2, AskGoes
<1>2. CASE ~d.dirty
  <2> DEFINE g == Fresh(d, EmptyWorld, "", FALSE)
  <2>1. e = g
    BY <1>2 DEF NewScene
  <2>2. "" \in Paths /\ DOMAIN EmptyWorld.ent = {} /\ WorldOK(EmptyWorld)
    BY EmptyWorldOK DEF Paths
  <2>3. g.path = ""
    <3>1. d \in Editors
      BY EditorHas
    <3> QED BY <3>1 DEF Fresh, Editors
  <2>4. OnDisk(g, EmptyWorld.ent)
    BY <2>2, <2>3 DEF OnDisk
  <2>5. Goes(d, g)
    BY <1>2, <2>2, <2>4, FreshGoes
  <2> QED BY <2>1, <2>5
<1> QED BY <1>1, <1>2

LEMMA StaysGoes == ASSUME NEW d, EditorOK(d) PROVE Goes(d, d)
<1>1. d.id \in Nat
  BY EditorHas
<1>2. d.id >= d.id
  BY <1>1
<1> QED BY <1>2 DEF Goes, Leads

LEMMA OpenSceneOK ==
    ASSUME NEW d, EditorOK(d), NEW f \in Files, NEW e \in OpenScene(d, f)
    PROVE  Goes(d, e)
<1>1. f \in Paths /\ f # ""
  BY FilesHaveNames DEF Paths
<1>2. CASE d.dirty
  <2>1. e = Ask(d, "open", f)
    BY <1>2 DEF OpenScene
  <2> QED BY <1>1, <2>1, AskGoes
<1>3. CASE ~d.dirty /\ d.disk[f] \in {NoFile, BadFile}
  <2>1. e = d
    BY <1>3 DEF OpenScene
  <2> QED BY <2>1, StaysGoes
<1>4. CASE ~d.dirty /\ d.disk[f] \notin {NoFile, BadFile}
  <2> DEFINE ents == d.disk[f].ents
             Fits(q) == q \in {<< >>, d.prefab.ents} /\ LoadSize(ents, q) <= Slots
  <2>1. \/ e \in NewScene(d)
        \/ \E q : Fits(q) /\ e = Fresh(d, Loaded(ents, q), f, Saved(Loaded(ents, q)) # ents)
    BY <1>4 DEF OpenScene
  <2>2. CASE e \in NewScene(d)
    BY <2>2, NewSceneOK
  <2>3. ASSUME NEW q, Fits(q), e = Fresh(d, Loaded(ents, q), f, Saved(Loaded(ents, q)) # ents)
        PROVE  Goes(d, e)
    <3> DEFINE w == Loaded(ents, q)
               b == Saved(w) # ents
    <3>1. d.disk[f] \in [is : {"scene"}, ents : Seq(Components)]
      BY <1>4, EditorHas DEF SceneFiles
    <3>2. ents \in Seq(Components) /\ d.disk[f] = [is |-> "scene", ents |-> ents]
      BY <3>1
    <3>3. q \in Seq(Components) /\ LinksInside(q)
      <4>1. << >> \in Seq(Components) /\ LinksInside(<< >>)
        BY DEF LinksInside
      <4> QED BY <2>3, <4>1, EditorHas
    <3>4. WorldOK(w)
      <4> HIDE DEF ents
      <4> QED BY <2>3, <3>2, <3>3, LoadedOK
    <3>5. b \in BOOLEAN
      OBVIOUS
    <3>6. ~b => OnDisk(Fresh(d, w, f, b), w.ent)
      <4> DEFINE g == Fresh(d, w, f, b)
      <4> SUFFICES ASSUME ~b PROVE OnDisk(g, w.ent)
        OBVIOUS
      <4>1. d \in Editors
        BY EditorHas
      <4>2. g.path = f /\ g.disk = d.disk
        BY <4>1 DEF Fresh, Editors
      <4>3. d.disk[f] = SceneFile(w)
        BY <3>2 DEF SceneFile
      <4>4. d.disk[f] = SceneFile([ent |-> w.ent])
        BY <4>3, SavedTable
      <4> HIDE DEF g
      <4> QED BY <1>1, <4>2, <4>4 DEF OnDisk
    <3> HIDE DEF w, b
    <3>7. Goes(d, Fresh(d, w, f, b))
      BY <1>1, <1>4, <3>4, <3>5, <3>6, FreshGoes
    <3> QED BY <2>3, <3>7 DEF w, b
  <2> QED BY <2>1, <2>2, <2>3
<1> QED BY <1>2, <1>3, <1>4

(* A save: the scene is in the file, or as marked as it was.               *)
Saves(d, e) == /\ Leads(d, e) /\ e.id = d.id /\ e.running = d.running
               /\ e.open = d.open /\ e.pending = d.pending /\ e.target = d.target
               /\ e.dirty = d.dirty \/ \E f \in Files : e.disk[f] = SceneFile(d.world)

LEMMA SaveSceneOK ==
    ASSUME NEW d, EditorOK(d), NEW f \in Files, NEW e \in SaveScene(d, f)
    PROVE  Saves(d, e)
<1>1. f \in Paths /\ f # ""
  BY FilesHaveNames DEF Paths
<1>2. d \in Editors /\ WorldOK(d.world) /\ LinksInside(d.prefab.ents)
  BY EditorHas
<1>3. d.id \in Nat /\ d.disk \in [Files -> SceneFiles]
  BY EditorHas
<1>4. d.id >= d.id
  BY <1>3
<1>5. CASE e = d
  BY <1>4, <1>5 DEF Saves, Leads
<1>6. CASE e = [d EXCEPT !.disk[f] = BadFile]
  <2>1. BadFile \in SceneFiles
    BY DEF SceneFiles
  <2>2. [d.disk EXCEPT ![f] = BadFile] \in [Files -> SceneFiles]
    BY <1>3, <2>1
  <2>3. /\ e \in Editors /\ e.world = d.world /\ e.prefab = d.prefab /\ e.undo = d.undo /\ e.redo = d.redo
        /\ e.open = d.open /\ e.pending = d.pending /\ e.target = d.target
        /\ e.id = d.id /\ e.running = d.running /\ e.path = d.path
        /\ e.disk = [d.disk EXCEPT ![f] = BadFile]
        /\ e.dirty = d.dirty /\ e.drift = d.drift
    BY <1>2, <1>6, <2>2 DEF Editors
  <2>4. EditorOK(e)
    BY <1>2, <2>3, SameHistory
  <2>5. ASSUME OnDisk(d, d.world.ent) PROVE OnDisk(e, e.world.ent)
    <3>1. d.path = "" \/ d.path \in Files
      BY EditorHas DEF Paths
    <3>2. CASE d.path = ""
      BY <2>3, <2>5, <3>2 DEF OnDisk
    <3>3. CASE d.path \in Files /\ d.path # ""
      <4>1. e.disk[e.path] \in {d.disk[d.path], BadFile}
        BY <1>3, <2>3, <3>3
      <4> QED BY <2>3, <2>5, <3>3, <4>1 DEF OnDisk
    <3> QED BY <3>1, <3>2, <3>3
  <2>6. CleanOK(d, d.world.ent) => CleanOK(e, e.world.ent)
    BY <2>3, <2>5 DEF CleanOK
  <2>7. Leads(d, e)
    BY <1>4, <2>3, <2>4, <2>6 DEF Leads
  <2> QED BY <2>3, <2>7 DEF Saves
<1>7. CASE e = [d EXCEPT !.disk[f] = SceneFile(d.world), !.path = f, !.dirty = FALSE, !.drift = FALSE]
  <2>1. SceneFile(d.world) \in SceneFiles
    BY <1>2, SavedOK
  <2> DEFINE disk == [d.disk EXCEPT ![f] = SceneFile(d.world)]
  <2>2. disk \in [Files -> SceneFiles] /\ disk[f] = SceneFile(d.world)
    BY <1>3, <2>1
  <2>3. /\ e \in Editors /\ e.world = d.world /\ e.prefab = d.prefab /\ e.undo = d.undo /\ e.redo = d.redo
        /\ e.open = d.open /\ e.pending = d.pending /\ e.target = d.target
        /\ e.id = d.id /\ e.running = d.running /\ e.path = f /\ e.disk = disk
    BY <1>1, <1>2, <1>7, <2>2 DEF Editors
  <2> HIDE DEF disk
  <2>4. EditorOK(e)
    BY <1>2, <2>3, SameHistory
  <2>5. CleanOK(e, e.world.ent)
    <3>1. e.disk[e.path] = SceneFile([ent |-> e.world.ent])
      BY <2>2, <2>3, SavedTable
    <3> QED BY <1>1, <2>3, <3>1 DEF CleanOK, OnDisk
  <2>6. Leads(d, e)
    BY <1>4, <2>3, <2>4, <2>5 DEF Leads
  <2> QED BY <2>2, <2>3, <2>6 DEF Saves
<1> QED BY <1>5, <1>6, <1>7 DEF SaveScene

LEMMA SaveCurrentOK ==
    ASSUME NEW d, EditorOK(d), NEW e \in SaveCurrent(d)
    PROVE  Saves(d, e)
<1>1. d.path = "" \/ d.path \in Files
  BY EditorHas DEF Paths
<1>2. e = d \/ \E f \in Files : e \in SaveScene(d, f)
  BY <1>1 DEF SaveCurrent
<1>3. CASE e = d
  <2>1. Goes(d, d)
    BY StaysGoes
  <2> QED BY <1>3, <2>1 DEF Saves, Goes
<1> QED BY <1>2, <1>3, SaveSceneOK

(* The dialog's answer: what was asked for is done, or asked for again.    *)
Answers(d, e) == /\ Leads(d, e) /\ e.disk = d.disk
                 /\ d.pending # "close" => e.running = d.running /\ (d.dirty => e.id = d.id)

LEMMA DialogShutOK ==
    ASSUME NEW d, EditorOK(d)
    PROVE  LET m == [d EXCEPT !.open = FALSE, !.pending = "none", !.target = ""]
           IN  /\ EditorOK(m) /\ SameButWorld(d, m) /\ Leads(d, m)
               /\ m.world = d.world /\ m.dirty = d.dirty /\ m.drift = d.drift
<1> DEFINE m == [d EXCEPT !.open = FALSE, !.pending = "none", !.target = ""]
<1>1. d \in Editors /\ LinksInside(d.prefab.ents) /\ WorldOK(d.world) /\ HistoryOK(d) /\ "" \in Paths
  BY EditorHas DEF Paths
<1>2. /\ m \in Editors /\ m.world = d.world /\ m.prefab = d.prefab /\ m.undo = d.undo /\ m.redo = d.redo
      /\ m.open = FALSE /\ m.pending = "none"
      /\ m.id = d.id /\ m.running = d.running /\ m.path = d.path /\ m.disk = d.disk
      /\ m.crashed = d.crashed /\ m.dirty = d.dirty /\ m.drift = d.drift
  BY <1>1 DEF Editors
<1> HIDE DEF m
<1>3. HistoryOK(m) /\ DialogOK(m)
  BY <1>1, <1>2 DEF HistoryOK, DialogOK
<1>4. EditorOK(m) /\ SameButWorld(d, m)
  BY <1>1, <1>2, <1>3 DEF EditorOK, SameButWorld
<1>5. Leads(d, m)
  BY <1>2, <1>4, SameLeads
<1> QED BY <1>2, <1>4, <1>5 DEF m

LEMMA LeavesOK ==
    ASSUME NEW d, EditorOK(d)
    PROVE  LET m == [d EXCEPT !.running = FALSE] IN Leads(d, m) /\ m.id = d.id /\ m.disk = d.disk
<1> DEFINE m == [d EXCEPT !.running = FALSE]
<1>1. d \in Editors /\ LinksInside(d.prefab.ents) /\ WorldOK(d.world)
  BY EditorHas
<1>2. /\ m \in Editors /\ m.world = d.world /\ m.prefab = d.prefab /\ m.undo = d.undo /\ m.redo = d.redo
      /\ m.open = d.open /\ m.pending = d.pending /\ m.target = d.target
      /\ m.id = d.id /\ m.disk = d.disk /\ ~m.running
  BY <1>1 DEF Editors
<1> HIDE DEF m
<1>3. EditorOK(m)
  BY <1>1, <1>2, SameHistory
<1>4. d.id \in Nat
  BY EditorHas
<1>5. m.id >= d.id
  BY <1>2, <1>4
<1> QED BY <1>2, <1>3, <1>5 DEF m, Leads, CleanOK

LEMMA ExecutePendingOK ==
    ASSUME NEW d, EditorOK(d), d.open, NEW e \in ExecutePending(d)
    PROVE  Answers(d, e)
<1> DEFINE m == [d EXCEPT !.open = FALSE, !.pending = "none", !.target = ""]
<1>1. /\ EditorOK(m) /\ SameButWorld(d, m) /\ Leads(d, m)
      /\ m.world = d.world /\ m.dirty = d.dirty /\ m.drift = d.drift
  BY DialogShutOK
<1>2. d.pending \in {"new", "open", "close"} /\ (d.pending = "open" => d.target \in Files)
  BY EditorHas DEF DialogOK
<1>3. /\ d.pending = "new" => e \in NewScene(m)
      /\ d.pending = "open" => e \in OpenScene(m, d.target)
      /\ d.pending = "close" => e = [m EXCEPT !.running = FALSE]
  BY <1>2 DEF ExecutePending
<1> HIDE DEF m
<1>4. ASSUME Goes(m, e) PROVE Answers(d, e)
  <2>1. Leads(d, e)
    BY <1>1, <1>4, LeadsOn DEF Goes
  <2> QED BY <1>1, <1>4, <2>1 DEF Goes, Answers, SameButWorld
<1>5. CASE d.pending = "new"
  BY <1>1, <1>3, <1>4, <1>5, NewSceneOK
<1>6. CASE d.pending = "open"
  BY <1>1, <1>2, <1>3, <1>4, <1>6, OpenSceneOK
<1>7. CASE d.pending = "close"
  <2>1. Leads(m, e) /\ e.disk = m.disk
    BY <1>1, <1>3, <1>7, LeavesOK
  <2>2. Leads(d, e)
    BY <1>1, <2>1, LeadsOn
  <2> QED BY <1>1, <1>7, <2>1, <2>2 DEF Answers, SameButWorld
<1> QED BY <1>2, <1>5, <1>6, <1>7

LEMMA SaveAndGoOnOK ==
    ASSUME NEW d, EditorOK(d), d.open, NEW e \in UNION {ExecutePending(m) : m \in SaveCurrent(d)}
    PROVE  /\ Leads(d, e)
           /\ \/ \E f \in Files : e.disk[f] = SceneFile(d.world)
              \/ d.pending = "close"
              \/ d.dirty => (e.running = d.running /\ e.id = d.id)
<1>1. PICK m \in SaveCurrent(d) : e \in ExecutePending(m)
  OBVIOUS
<1>2. Saves(d, m)
  BY <1>1, SaveCurrentOK
<1>3. EditorOK(m) /\ m.open
  BY <1>2 DEF Saves, Leads
<1>4. Answers(m, e)
  BY <1>1, <1>3, ExecutePendingOK
<1>5. Leads(d, e)
  BY <1>2, <1>4, LeadsOn DEF Saves, Answers
<1> QED BY <1>2, <1>4, <1>5 DEF Saves, Answers

(* "Discard" goes on from an editor that holds itself clean.               *)
LEMMA DiscardOK ==
    ASSUME NEW d, EditorOK(d), d.open,
           NEW m \in ExecutePending([d EXCEPT !.dirty = FALSE])
    PROVE  Leads(d, [m EXCEPT !.drift = @ \/ m.id = d.id])
<1> DEFINE c == [d EXCEPT !.dirty = FALSE]
           e == [m EXCEPT !.drift = @ \/ m.id = d.id]
<1>1. d \in Editors /\ LinksInside(d.prefab.ents) /\ WorldOK(d.world)
  BY EditorHas
<1>2. /\ c \in Editors /\ c.world = d.world /\ c.prefab = d.prefab /\ c.undo = d.undo /\ c.redo = d.redo
      /\ c.open = d.open /\ c.pending = d.pending /\ c.target = d.target /\ c.id = d.id
  BY <1>1 DEF Editors
<1>3. m \in ExecutePending(c)
  OBVIOUS
<1> HIDE DEF c
<1>4. EditorOK(c)
  BY <1>1, <1>2, SameHistory
<1>5. Leads(c, m)
  BY <1>2, <1>3, <1>4, ExecutePendingOK DEF Answers
<1>6. EditorOK(m) /\ m \in Editors /\ LinksInside(m.prefab.ents) /\ WorldOK(m.world)
  BY <1>5, EditorHas DEF Leads
<1>7. /\ e \in Editors /\ e.world = m.world /\ e.prefab = m.prefab /\ e.undo = m.undo /\ e.redo = m.redo
      /\ e.open = m.open /\ e.pending = m.pending /\ e.target = m.target
      /\ e.id = m.id /\ e.running = m.running /\ e.path = m.path /\ e.disk = m.disk /\ e.dirty = m.dirty
      /\ (m.id = d.id => e.drift) /\ (m.id # d.id => e.drift = m.drift)
  BY <1>6 DEF Editors
<1> HIDE DEF e
<1>8. EditorOK(e)
  BY <1>6, <1>7, SameHistory
<1>9. CleanOK(e, e.world.ent)
  <2>1. CASE m.id = d.id
    BY <1>7, <2>1 DEF CleanOK
  <2>2. CASE m.id # d.id
    <3>1. CleanOK(m, m.world.ent)
      BY <1>2, <1>5, <2>2 DEF Leads
    <3> QED BY <1>7, <2>2, <3>1 DEF CleanOK, OnDisk
  <2> QED BY <2>1, <2>2
<1>10. Leads(d, e)
  BY <1>2, <1>5, <1>7, <1>8, <1>9 DEF Leads
<1> QED BY <1>10 DEF e

(* The question about leaving.                                             *)
LEMMA AskToLeaveOK ==
    ASSUME NEW d, EditorOK(d)
    PROVE  LET e == [Ask(d, "close", d.target) EXCEPT !.shown = TRUE]
           IN  Leads(d, e) /\ SameButWorld(d, e)
<1> DEFINE m == Ask(d, "close", d.target)
           e == [m EXCEPT !.shown = TRUE]
<1>1. d.target \in Paths
  BY EditorHas
<1>2. EditorOK(m) /\ SameButWorld(d, m) /\ m.world = d.world /\ m.dirty = d.dirty /\ m.drift = d.drift
  BY <1>1, AskOK
<1> HIDE DEF m
<1>3. m \in Editors /\ LinksInside(m.prefab.ents) /\ WorldOK(m.world)
  BY <1>2, EditorHas
<1>4. /\ e \in Editors /\ e.world = m.world /\ e.prefab = m.prefab /\ e.undo = m.undo /\ e.redo = m.redo
      /\ e.open = m.open /\ e.pending = m.pending /\ e.target = m.target
      /\ e.id = m.id /\ e.running = m.running /\ e.path = m.path /\ e.disk = m.disk
      /\ e.crashed = m.crashed /\ e.dirty = m.dirty /\ e.drift = m.drift
  BY <1>3 DEF Editors
<1> HIDE DEF e
<1>5. EditorOK(e)
  BY <1>2, <1>3, <1>4, SameHistory
<1>6. SameButWorld(d, e) /\ e.world = d.world /\ e.dirty = d.dirty /\ e.drift = d.drift
  BY <1>2, <1>4 DEF SameButWorld
<1>7. Leads(d, e)
  BY <1>5, <1>6, SameLeads
<1> QED BY <1>6, <1>7 DEF e, m
------------------------------------------------------------------------------
(* The steps keep the invariant.  A handler's: a save during play is noted *)
(* by PIEController.                                                       *)
LEMMA BecomesOK ==
    ASSUME EditorInv, NEW ds, Becomes(ds), edits' \in 0..MaxEdits, \A e \in ds : Leads(ed, e)
    PROVE  EditorInv'
<1> DEFINE s == pie.saved \/ (Playing /\ ~ed'.dirty)
<1>1. ed' \in ds /\ ed'.id <= MaxScenes /\ drag' = drag /\ pie' = [pie EXCEPT !.saved = s]
  BY DEF Becomes
<1>2. Leads(ed, ed')
  BY <1>1
<1>3. ed.id \in 1..MaxScenes /\ drag \in Sizes \union {-1} /\ PlayOK /\ CleanOnDisk
  BY DEF EditorInv
<1>4. EditorOK(ed') /\ ed'.id \in 1..MaxScenes
  <2>1. EditorOK(ed') /\ ed'.id >= ed.id
    BY <1>2 DEF Leads
  <2>2. ed'.id \in Nat
    BY <2>1, EditorHas
  <2> QED BY <1>1, <1>3, <2>1, <2>2, Bounds
<1>5. s \in BOOLEAN /\ pie = [state |-> pie.state, scene |-> pie.scene, snap |-> pie.snap, saved |-> pie.saved]
  BY <1>3 DEF PlayOK
<1>6. pie' = [state |-> pie.state, scene |-> pie.scene, snap |-> pie.snap, saved |-> s]
  <2> HIDE DEF s
  <2> QED BY <1>1, <1>5
<1>7. PlayOK'
  <2>1. pie.state = "stopped" => pie' = Stopped
    <3> SUFFICES ASSUME pie.state = "stopped" PROVE pie' = Stopped
      OBVIOUS
    <3>1. pie = Stopped
      BY <1>3 DEF PlayOK
    <3>2. s = FALSE
      BY <3>1 DEF Stopped, Playing
    <3> HIDE DEF s
    <3> QED BY <1>6, <3>1, <3>2 DEF Stopped
  <2> HIDE DEF s
  <2> QED BY <1>3, <1>5, <1>6, <2>1 DEF PlayOK
<1>8. CleanOnDisk'
  <2> SUFFICES ASSUME ~Playing' PROVE CleanOK(ed', ed'.world.ent)
    BY DEF CleanOnDisk
  <2>1. ~Playing
    BY <1>6 DEF Playing
  <2> QED BY <1>2, <1>3, <2>1 DEF CleanOnDisk, Leads
<1>9. SnapshotOnDisk'
  <2> SUFFICES ASSUME Playing', ~pie'.saved PROVE CleanOK(ed', TableOf(pie'.snap))
    BY DEF SnapshotOnDisk
  <2>1. Playing
    BY <1>6 DEF Playing
  <2>2. ed'.dirty
    BY <1>6, <2>1
  <2> QED BY <2>2 DEF CleanOK
<1> QED BY <1>1, <1>3, <1>4, <1>7, <1>8, <1>9 DEF EditorInv

LEMMA DialogStepOK ==
    ASSUME EditorInv, Discard \/ SaveAndGoOn \/ Cancel \/ ExitMenu \/ CloseCheck
    PROVE  EditorInv'
<1>1. EditorOK(ed) /\ edits \in 0..MaxEdits
  BY InvHas
<1>2. CASE Discard
  <2> DEFINE ds == {[d EXCEPT !.drift = @ \/ d.id = ed.id] :
                       d \in ExecutePending([ed EXCEPT !.dirty = FALSE])}
  <2>1. ed.open /\ Becomes(ds) /\ edits' = edits
    BY <1>2 DEF Discard
  <2>2. ASSUME NEW m \in ExecutePending([ed EXCEPT !.dirty = FALSE])
        PROVE  Leads(ed, [m EXCEPT !.drift = @ \/ m.id = ed.id])
    BY <1>1, <2>1, DiscardOK
  <2>3. \A e \in ds : Leads(ed, e)
    BY <2>2
  <2> HIDE DEF ds
  <2> QED BY <1>1, <2>1, <2>3, BecomesOK
<1>3. CASE SaveAndGoOn
  <2> DEFINE ds == UNION {ExecutePending(d) : d \in SaveCurrent(ed)}
  <2>1. ed.open /\ Becomes(ds) /\ edits' = edits
    BY <1>3 DEF SaveAndGoOn
  <2>2. \A e \in ds : Leads(ed, e)
    BY <1>1, <2>1, SaveAndGoOnOK
  <2> HIDE DEF ds
  <2> QED BY <1>1, <2>1, <2>2, BecomesOK
<1>4. CASE Cancel
  <2> DEFINE m == [ed EXCEPT !.open = FALSE, !.pending = "none", !.target = ""]
  <2>1. Becomes({m}) /\ edits' = edits
    BY <1>4 DEF Cancel
  <2>2. Leads(ed, m)
    BY <1>1, DialogShutOK
  <2> HIDE DEF m
  <2>3. \A e \in {m} : Leads(ed, e)
    BY <2>2
  <2> QED BY <1>1, <2>1, <2>3, BecomesOK
<1>5. CASE ExitMenu \/ CloseCheck
  <2> DEFINE l == [ed EXCEPT !.running = FALSE]
             a == [Ask(ed, "close", ed.target) EXCEPT !.shown = TRUE]
  <2>1. (Becomes({l}) \/ Becomes({a})) /\ edits' = edits
    BY <1>5 DEF ExitMenu, CloseCheck
  <2>2. Leads(ed, l) /\ Leads(ed, a)
    BY <1>1, LeavesOK, AskToLeaveOK
  <2> HIDE DEF l, a
  <2>3. (\A e \in {l} : Leads(ed, e)) /\ (\A e \in {a} : Leads(ed, e))
    BY <2>2
  <2> QED BY <1>1, <2>1, <2>3, BecomesOK
<1> QED BY <1>2, <1>3, <1>4, <1>5

LEMMA FileStepOK ==
    ASSUME EditorInv, DoNew \/ DoSave \/ (\E f \in Files : DoOpen(f) \/ DoSaveAs(f))
    PROVE  EditorInv'
<1>1. EditorOK(ed) /\ Budget
  BY InvHas DEF DoNew, DoSave, DoOpen, DoSaveAs
<1>2. edits' \in 0..MaxEdits
  BY <1>1, BudgetOK
<1>3. CASE DoNew
  <2>1. \A e \in NewScene(ed) : Leads(ed, e)
    BY <1>1, NewSceneOK DEF Goes
  <2> QED BY <1>2, <1>3, <2>1, BecomesOK DEF DoNew
<1>4. CASE DoSave
  <2>1. \A e \in SaveCurrent(ed) : Leads(ed, e)
    BY <1>1, SaveCurrentOK DEF Saves
  <2> QED BY <1>2, <1>4, <2>1, BecomesOK DEF DoSave
<1>5. ASSUME NEW f \in Files, DoOpen(f) PROVE EditorInv'
  <2>1. \A e \in OpenScene(ed, f) : Leads(ed, e)
    BY <1>1, OpenSceneOK DEF Goes
  <2> QED BY <1>2, <1>5, <2>1, BecomesOK DEF DoOpen
<1>6. ASSUME NEW f \in Files, DoSaveAs(f) PROVE EditorInv'
  <2>1. \A e \in SaveScene(ed, f) : Leads(ed, e)
    BY <1>1, SaveSceneOK DEF Saves
  <2> QED BY <1>2, <1>6, <2>1, BecomesOK DEF DoSaveAs
<1> QED BY <1>3, <1>4, <1>5, <1>6

(* The three steps of play-in-editor.                                      *)
LEMMA ReworldOK ==
    ASSUME NEW d, EditorOK(d), NEW w, WorldOK(w)
    PROVE  LET e == [d EXCEPT !.world = w]
           IN  /\ EditorOK(e) /\ SameButWorld(d, e) /\ e.world = w
               /\ e.dirty = d.dirty /\ e.drift = d.drift
<1> DEFINE e == [d EXCEPT !.world = w]
<1>1. d \in Editors /\ LinksInside(d.prefab.ents)
  BY EditorHas
<1>2. w \in Worlds
  BY DEF WorldOK
<1>3. /\ e \in Editors /\ e.world = w /\ e.prefab = d.prefab /\ e.undo = d.undo /\ e.redo = d.redo
      /\ e.open = d.open /\ e.pending = d.pending /\ e.target = d.target
      /\ e.id = d.id /\ e.running = d.running /\ e.path = d.path /\ e.disk = d.disk
      /\ e.crashed = d.crashed /\ e.dirty = d.dirty /\ e.drift = d.drift
  BY <1>1, <1>2 DEF Editors
<1> HIDE DEF e
<1>4. EditorOK(e)
  BY <1>1, <1>3, SameHistory
<1> QED BY <1>3, <1>4 DEF e, SameButWorld

LEMMA CleanSame ==
    ASSUME NEW d, NEW e, SameButWorld(d, e), e.dirty = d.dirty, e.drift = d.drift,
           NEW t, CleanOK(d, t)
    PROVE  CleanOK(e, t)
<1>1. OnDisk(d, t) => OnDisk(e, t)
  BY OnDiskSame
<1> QED BY <1>1 DEF CleanOK, SameButWorld

LEMMA PlacedSpawnOK ==
    ASSUME NEW w, WorldOK(w), NEW u \in GameStep(w) \union {w}
    PROVE  WorldOK(u)
<1>1. CASE u = w
  BY <1>1
<1>2. ASSUME NEW v \in Poses, NEW h \in Living(w), u = Written(w, h, "tr", v)
      PROVE  WorldOK(u)
  <2>1. h[1] \in DOMAIN w.ent
    BY LivingIs
  <2>2. "tr" \in Keys /\ v \in Int /\ "tr" # "body"
    BY SizesAreNumbers DEF Keys
  <2> QED BY <1>2, <2>1, <2>2, WrittenOK
<1>3. ASSUME NEW h \in Living(w), u = Kill(w, h) PROVE WorldOK(u)
  BY <1>3, KillOK
<1> QED BY <1>1, <1>2, <1>3 DEF GameStep, Moves

LEMMA PlayStepOK == ASSUME EditorInv, Play PROVE EditorInv'
<1> DEFINE snap == Snapshot(ed.world)
<1>1. PICK w \in GameStep(ed.world) \union {ed.world} : ed' = [ed EXCEPT !.world = w]
  <2>1. \E w \in {ed.world} \union Moves(ed.world) : ed' = [ed EXCEPT !.world = w]
    BY DEF Play
  <2>2. Moves(ed.world) \subseteq GameStep(ed.world)
    BY DEF GameStep
  <2> QED BY <2>1, <2>2
<1>2. /\ pie' = [state |-> "playing", scene |-> ed.id, snap |-> snap, saved |-> FALSE]
      /\ ~Playing /\ Budget /\ drag' = drag
  BY DEF Play
<1>3. EditorOK(ed) /\ WorldOK(ed.world) /\ edits' \in 0..MaxEdits
  BY <1>2, InvHas, BudgetOK
<1>4. /\ EditorOK(ed') /\ SameButWorld(ed, ed') /\ ed'.dirty = ed.dirty /\ ed'.drift = ed.drift
  <2>1. WorldOK(w)
    BY <1>3, PlacedSpawnOK
  <2> QED BY <1>1, <1>3, <2>1, ReworldOK
<1>5. ed.id \in 1..MaxScenes /\ drag \in Sizes \union {-1} /\ CleanOnDisk
  BY DEF EditorInv
<1>6. TableOf(snap) = ed.world.ent /\ \A h \in DOMAIN snap : h \in Handles /\ snap[h] \in Components
  BY <1>3, SnapshotOK
<1>7. CleanOK(ed', TableOf(snap))
  <2>1. CleanOK(ed, ed.world.ent)
    BY <1>2, <1>5 DEF CleanOnDisk
  <2> HIDE DEF snap
  <2> QED BY <1>4, <1>6, <2>1, CleanSame
<1> HIDE DEF snap
<1>8. /\ pie'.state = "playing" /\ pie'.saved = FALSE /\ pie'.snap = snap /\ pie'.scene = ed.id
      /\ pie' = [state |-> pie'.state, scene |-> pie'.scene, snap |-> pie'.snap, saved |-> pie'.saved]
  BY <1>2
<1>9. PlayOK'
  BY <1>6, <1>8 DEF PlayOK
<1>10. CleanOnDisk' /\ SnapshotOnDisk'
  BY <1>7, <1>8 DEF CleanOnDisk, SnapshotOnDisk, Playing
<1>11. ed'.id \in 1..MaxScenes /\ drag' \in Sizes \union {-1}
  BY <1>2, <1>4, <1>5 DEF SameButWorld
<1> QED BY <1>3, <1>4, <1>9, <1>10, <1>11 DEF EditorInv

LEMMA PieTickOK == ASSUME EditorInv, PieTick PROVE EditorInv'
<1>1. PICK w \in GameStep(ed.world) \union {ed.world} : ed' = [ed EXCEPT !.world = w]
  BY DEF PieTick
<1>2. pie' = pie /\ Playing /\ Budget /\ drag' = drag
  BY DEF PieTick
<1>3. EditorOK(ed) /\ WorldOK(ed.world) /\ edits' \in 0..MaxEdits
  BY <1>2, InvHas, BudgetOK
<1>4. /\ EditorOK(ed') /\ SameButWorld(ed, ed') /\ ed'.dirty = ed.dirty /\ ed'.drift = ed.drift
  <2>1. WorldOK(w)
    BY <1>3, PlacedSpawnOK
  <2> QED BY <1>1, <1>3, <2>1, ReworldOK
<1>5. ed.id \in 1..MaxScenes /\ drag \in Sizes \union {-1} /\ PlayOK /\ SnapshotOnDisk
  BY DEF EditorInv
<1>6. ed'.id = ed.id
  BY <1>4 DEF SameButWorld
<1>7. PlayOK' /\ CleanOnDisk'
  BY <1>2, <1>5 DEF PlayOK, CleanOnDisk, Playing
<1>8. SnapshotOnDisk'
  BY <1>2, <1>4, <1>5, <1>6, CleanSame DEF SnapshotOnDisk, Playing
<1> QED BY <1>2, <1>3, <1>4, <1>5, <1>6, <1>7, <1>8 DEF EditorInv

(* The end of play: without drift the world is the one of the snapshot.    *)
LEMMA StopIs ==
    ASSUME EditorInv, Stop
    PROVE  LET w == Restored(ed.world, pie.snap)
           IN  /\ WorldOK(w) /\ EditorOK(ed') /\ SameButWorld(ed, ed') /\ ed'.world = w
               /\ ed'.dirty = ed.dirty
               /\ ~ed'.drift => ~ed.drift /\ ~pie.saved /\ pie.scene = ed.id /\ Snapshot(w) = pie.snap
               /\ Living(w) = Living(ed.world) \intersect DOMAIN pie.snap
               /\ \A h \in Living(w) : \A k \in DOMAIN pie.snap[h] :
                     Has(w, h, k) /\ Of(w, h)[k] = pie.snap[h][k]
<1> DEFINE w == Restored(ed.world, pie.snap)
           b == \/ ed.drift \/ pie.saved \/ pie.scene # ed.id \/ Snapshot(w) # pie.snap
<1>1. ed' = [ed EXCEPT !.world = w, !.drift = b]
  BY DEF Stop
<1>2. EditorOK(ed) /\ WorldOK(ed.world) /\ PlayOK
  BY InvHas DEF EditorInv
<1>3. \A h \in DOMAIN pie.snap : h \in Handles /\ pie.snap[h] \in Components
  BY <1>2 DEF PlayOK
<1>4. /\ WorldOK(w) /\ Living(w) = Living(ed.world) \intersect DOMAIN pie.snap
      /\ \A h \in Living(w) : \A k \in DOMAIN pie.snap[h] :
            Has(w, h, k) /\ Of(w, h)[k] = pie.snap[h][k]
  BY <1>2, <1>3, RestoredOK
<1>5. ed \in Editors /\ LinksInside(ed.prefab.ents) /\ w \in Worlds
  <2>1. w \in Worlds
    <3> HIDE DEF w
    <3> QED BY <1>4 DEF WorldOK
  <2> QED BY <1>2, <2>1, EditorHas
<1>6. b \in BOOLEAN
  BY <1>2, EditorHas DEF PlayOK
<1>7. ~b => ~ed.drift /\ ~pie.saved /\ pie.scene = ed.id /\ Snapshot(w) = pie.snap
  OBVIOUS
<1> HIDE DEF w, b
<1>8. /\ ed' \in Editors /\ ed'.world = w /\ ed'.prefab = ed.prefab
      /\ ed'.undo = ed.undo /\ ed'.redo = ed.redo
      /\ ed'.open = ed.open /\ ed'.pending = ed.pending /\ ed'.target = ed.target
      /\ ed'.id = ed.id /\ ed'.running = ed.running /\ ed'.path = ed.path /\ ed'.disk = ed.disk
      /\ ed'.crashed = ed.crashed /\ ed'.dirty = ed.dirty /\ (ed'.drift <=> b)
  BY <1>1, <1>5, <1>6 DEF Editors
<1>9. EditorOK(ed')
  BY <1>2, <1>4, <1>5, <1>8, SameHistory
<1>10. SameButWorld(ed, ed')
  BY <1>8 DEF SameButWorld
<1> QED BY <1>4, <1>7, <1>8, <1>9, <1>10 DEF w

LEMMA StopOK == ASSUME EditorInv, Stop PROVE EditorInv'
<1> DEFINE w == Restored(ed.world, pie.snap)
<1>1. /\ WorldOK(w) /\ EditorOK(ed') /\ SameButWorld(ed, ed') /\ ed'.world = w /\ ed'.dirty = ed.dirty
      /\ ~ed'.drift => ~ed.drift /\ ~pie.saved /\ pie.scene = ed.id /\ Snapshot(w) = pie.snap
  BY StopIs
<1>2. Playing /\ pie' = Stopped /\ drag' = drag /\ edits' = edits
  BY DEF Stop
<1>3. ed.id \in 1..MaxScenes /\ drag \in Sizes \union {-1} /\ edits \in 0..MaxEdits /\ SnapshotOnDisk
  BY DEF EditorInv
<1> HIDE DEF w
<1>4. PlayOK' /\ ~Playing' /\ ed'.id = ed.id
  BY <1>1, <1>2 DEF PlayOK, Playing, Stopped, SameButWorld
<1>5. CleanOnDisk'
  <2> SUFFICES ASSUME ~ed'.drift, ed'.running, ~ed'.dirty PROVE OnDisk(ed', ed'.world.ent)
    BY DEF CleanOnDisk, CleanOK
  <2>1. ed.running /\ ~ed.dirty /\ ~ed.drift /\ ~pie.saved /\ pie.scene = ed.id /\ Snapshot(w) = pie.snap
    BY <1>1 DEF SameButWorld
  <2>2. TableOf(pie.snap) = w.ent
    BY <1>1, <2>1, SnapshotOK
  <2>3. OnDisk(ed, w.ent)
    BY <1>2, <1>3, <2>1, <2>2 DEF SnapshotOnDisk, CleanOK
  <2> QED BY <1>1, <2>3, OnDiskSame
<1>6. SnapshotOnDisk'
  BY <1>4 DEF SnapshotOnDisk
<1> QED BY <1>1, <1>2, <1>3, <1>4, <1>5, <1>6 DEF EditorInv
------------------------------------------------------------------------------
LEMMA InitInv == ASSUME Init PROVE EditorInv
<1>1. ed = Blank /\ drag = -1 /\ pie = Stopped /\ edits = 0
  BY DEF Init
<1>2. /\ MaxScenes \in Nat /\ MaxScenes >= 1 /\ MaxEdits \in Nat
  BY Bounds
<1>3. OldPrefab \in Seq(Components) /\ LinksInside(OldPrefab)
  <2> DEFINE a == Onto(Just("tr", 0), Just("kid", 0 - 2))
             b == Just("body", 0)
  <2>1. Just("tr", 0) \in Components /\ Just("kid", 0 - 2) \in Components
    BY JustOK DEF Keys
  <2>2. b \in Components /\ DOMAIN b = {"body"}
    BY SizesAreNumbers, JustOK DEF Keys
  <2>3. a \in Components
    BY <2>1, OntoOK
  <2>4. a["kid"] = 0 - 2
    <3>1. DOMAIN Just("tr", 0) = {"tr"} /\ DOMAIN Just("kid", 0 - 2) = {"kid"}
      BY DEF Just
    <3>2. "kid" \in DOMAIN Just("kid", 0 - 2) /\ "kid" \notin DOMAIN Just("tr", 0)
      BY <3>1
    <3>3. a["kid"] = Just("kid", 0 - 2)["kid"]
      BY <3>2 DEF Onto
    <3> QED BY <3>3 DEF Just
  <2> HIDE DEF a, b
  <2>5. OldPrefab = <<a, b>>
    BY DEF OldPrefab, a, b
  <2>6. OldPrefab \in Seq(Components) /\ DOMAIN OldPrefab = {1, 2} /\ OldPrefab[1] = a /\ OldPrefab[2] = b
    BY <2>2, <2>3, <2>5
  <2> QED BY <2>2, <2>4, <2>6 DEF LinksInside
<1>4. /\ WorldOK(EmptyWorld) /\ EmptyWorld \in Worlds /\ DOMAIN EmptyWorld.ent = {}
  BY EmptyWorldOK DEF WorldOK
<1>5. /\ ed.world = EmptyWorld /\ ed.id = 1 /\ ed.undo = << >> /\ ed.redo = << >>
      /\ ed.dirty = FALSE /\ ed.path = "" /\ ed.disk = [f \in Files |-> NoFile]
      /\ ed.prefab = PrefabFile(OldPrefab) /\ ed.sel = NoEntity /\ ed.open = FALSE
      /\ ed.pending = "none" /\ ed.target = "" /\ ed.shown = FALSE /\ ed.running = TRUE
      /\ ed.crashed = FALSE /\ ed.drift = FALSE
  BY <1>1 DEF Blank
<1>6. ed \in Editors
  <2>1. PrefabFile(OldPrefab) \in PrefabFiles
    BY <1>3 DEF PrefabFile, PrefabFiles
  <2>2. [f \in Files |-> NoFile] \in [Files -> SceneFiles]
    BY DEF SceneFiles
  <2>3. << >> \in Seq(Commands) /\ "" \in Paths /\ NoEntity \in Nat \X Nat /\ 1 \in Nat
    BY DEF Paths, NoEntity
  <2> HIDE DEF Blank
  <2> QED BY <1>1, <1>4, <2>1, <2>2, <2>3 DEF Editors, Blank
<1>7. ed.prefab.ents = OldPrefab
  <2>1. ed.prefab = PrefabFile(OldPrefab)
    BY <1>5
  <2> QED BY <2>1 DEF PrefabFile
<1>8. HistoryOK(ed) /\ DialogOK(ed)
  <2>1. Len(ed.undo) = 0 /\ Len(ed.redo) = 0 /\ DOMAIN ed.redo = {}
    <3>1. ed.undo = << >> /\ ed.redo = << >>
      BY <1>5
    <3> QED BY <3>1
  <2>2. 0 + 0 <= Cap
    BY Bounds
  <2>3. DialogOK(ed)
    BY <1>5 DEF DialogOK
  <2> QED BY <2>1, <2>2, <2>3 DEF HistoryOK
<1>9. EditorOK(ed)
  BY <1>3, <1>4, <1>5, <1>6, <1>7, <1>8 DEF EditorOK
<1>10. PlayOK /\ ~Playing
  BY <1>1 DEF PlayOK, Stopped, Playing
<1>11. CleanOnDisk /\ SnapshotOnDisk
  BY <1>4, <1>5, <1>10 DEF CleanOnDisk, SnapshotOnDisk, CleanOK, OnDisk
<1>12. ed.id \in 1..MaxScenes /\ edits \in 0..MaxEdits /\ drag \in Sizes \union {-1}
  <2>1. ed.id = 1 /\ edits = 0 /\ drag = -1
    BY <1>1, <1>5
  <2> QED BY <1>2, <2>1
<1> QED BY <1>9, <1>10, <1>11, <1>12 DEF EditorInv

LEMMA StutterInv == ASSUME EditorInv, UNCHANGED vars PROVE EditorInv'
<1>1. ed' = ed /\ drag' = drag /\ pie' = pie /\ edits' = edits
  BY DEF vars
<1> QED BY <1>1 DEF EditorInv, PlayOK, CleanOnDisk, SnapshotOnDisk, Playing

LEMMA NextInv == ASSUME EditorInv, [Next]_vars PROVE EditorInv'
<1>1. CASE EditStep
  BY <1>1, EditStepOK, EditDoneKeepsInv
<1>2. CASE HistoryStep
  BY <1>2, UndoOK, RedoOK, EditDoneKeepsInv DEF HistoryStep
<1>3. CASE SceneStep
  BY <1>3, DialogStepOK, FileStepOK DEF SceneStep
<1>4. CASE CloseBox
  <2>1. ed' = ed /\ drag' = drag /\ pie' = pie /\ edits' = edits
    BY <1>4 DEF CloseBox
  <2> QED BY <2>1 DEF EditorInv, PlayOK, CleanOnDisk, SnapshotOnDisk, Playing
<1>5. CASE CloseCheck
  BY <1>5, DialogStepOK
<1>6. CASE Play \/ PieTick \/ Stop
  BY <1>6, PlayStepOK, PieTickOK, StopOK
<1>7. CASE StaleScene
  <2>1. ed' = Dies(ed) /\ drag' = drag /\ pie' = pie /\ edits' = edits
    BY <1>7 DEF StaleScene
  <2>2. EditDone
    BY <2>1, InvHas, DiesOK DEF EditDone
  <2> QED BY <2>2, EditDoneKeepsInv
<1>8. CASE UNCHANGED vars
  BY <1>8, StutterInv
<1> QED BY <1>1, <1>2, <1>3, <1>4, <1>5, <1>6, <1>7, <1>8 DEF Next

(* The inductive invariant: the types and the allocation of slots, the cap *)
(* of the history, the dialog; and a clean scene is on disk, or its        *)
(* snapshot is while it is played.                                         *)
THEOREM Inductive == Spec => []EditorInv
<1>1. Init => EditorInv
  BY InitInv
<1>2. EditorInv /\ [Next]_vars => EditorInv'
  BY NextInv
<1> QED BY <1>1, <1>2, PTL DEF Spec
------------------------------------------------------------------------------
(* What the runs check, for every value of the constants.                  *)
LEMMA SlotsUsed ==
    ASSUME NEW w, WorldOK(w)
    PROVE  /\ ToSet(w.free) \union DOMAIN w.ent = 1..Slots
           /\ Len(w.free) + Cardinality(DOMAIN w.ent) = Slots
<1> DEFINE n == Len(w.free)
           used == DOMAIN w.ent
           free == ToSet(w.free)
<1>1. /\ n \in Nat /\ used \subseteq 1..Slots /\ w.free \in Seq(1..Slots) /\ DOMAIN w.free = 1..n
      /\ \A m \in 1..n : w.free[m] \in 1..Slots /\ w.free[m] \notin used
      /\ \A k, m \in 1..n : w.free[k] = w.free[m] => k = m
      /\ \A i \in 1..Slots : i \notin used => \E m \in 1..n : w.free[m] = i
  BY WorldHas
<1>2. free = {w.free[m] : m \in 1..n}
  BY <1>1 DEF ToSet
<1> HIDE DEF used, free, n
<1>3. free \union used = 1..Slots /\ free \intersect used = {}
  <2>1. \A i \in free : i \in 1..Slots /\ i \notin used
    BY <1>1, <1>2
  <2>2. \A i \in 1..Slots : i \notin used => i \in free
    BY <1>1, <1>2
  <2>3. \A i \in used : i \in 1..Slots
    BY <1>1
  <2> QED BY <2>1, <2>2, <2>3
<1>4. IsFiniteSet(1..Slots) /\ Cardinality(1..Slots) = Slots /\ IsFiniteSet(1..n) /\ Cardinality(1..n) = n
  <2>1. \A m \in Nat : IsFiniteSet(1..m) /\ Cardinality(1..m) = m
    <3> SUFFICES ASSUME NEW m \in Nat PROVE IsFiniteSet(1..m) /\ Cardinality(1..m) = m
      OBVIOUS
    <3>1. IsFiniteSet(1..m) /\ Cardinality(1..m) = IF 1 > m THEN 0 ELSE m - 1 + 1
      BY FS_Interval
    <3> QED BY <3>1
  <2> QED BY <1>1, <2>1, SlotsIsNat
<1>5. IsFiniteSet(free) /\ IsFiniteSet(used)
  BY <1>3, <1>4, FS_Subset
<1>6. Cardinality(free) = n
  <2> DEFINE f == [m \in 1..n |-> w.free[m]]
  <2>1. f \in Bijection(1..n, free)
    <3>1. f \in [1..n -> free]
      BY <1>2
    <3>2. \A k, m \in 1..n : f[k] = f[m] => k = m
      BY <1>1
    <3>3. \A i \in free : \E m \in 1..n : f[m] = i
      BY <1>2
    <3> HIDE DEF f
    <3> QED BY <3>1, <3>2, <3>3 DEF Bijection, Injection, Surjection, IsInjective
  <2>2. ExistsBijection(1..n, free)
    BY <2>1 DEF ExistsBijection
  <2> QED BY <1>4, <2>2, FS_Bijection
<1>7. /\ Cardinality(free \union used)
            = Cardinality(free) + Cardinality(used) - Cardinality(free \intersect used)
      /\ Cardinality(used) \in Nat
  BY <1>5, FS_Union, FS_CardinalityType
<1>8. Cardinality({}) = 0
  BY FS_EmptySet
<1>9. n + Cardinality(used) = Slots
  <2> DEFINE c == Cardinality(used)
  <2>1. Slots = n + c - 0
    BY <1>3, <1>4, <1>6, <1>7, <1>8
  <2>2. c \in Nat /\ n \in Nat
    BY <1>1, <1>7
  <2> HIDE DEF c
  <2>3. n + c = Slots
    BY <2>1, <2>2, SlotsIsNat
  <2> QED BY <2>3 DEF c
<1> QED BY <1>3, <1>9 DEF used, free, n

LEMMA TypesHold == ASSUME EditorInv PROVE TypeOK
<1>1. EditorOK(ed) /\ WorldOK(ed.world) /\ edits \in 0..MaxEdits /\ drag \in Sizes \union {-1}
  BY InvHas
<1>2. ed.id \in 1..MaxScenes /\ PlayOK
  BY DEF EditorInv
<1>3. Living(ed.world) \subseteq Handles
  BY <1>1, LivingIs
<1>4. /\ ToSet(ed.world.free) \union DOMAIN ed.world.ent = 1..Slots
      /\ Len(ed.world.free) + Cardinality(DOMAIN ed.world.ent) = Slots
  BY <1>1, SlotsUsed
<1>5. Len(ed.undo) <= Cap
  <2> DEFINE m == Len(ed.undo)
             n == Len(ed.redo)
  <2>1. m \in Nat /\ n \in Nat /\ m + n <= Cap
    BY <1>1, EditorHas
  <2> HIDE DEF m, n
  <2>2. m <= Cap
    BY <2>1, Bounds
  <2> QED BY <2>2 DEF m
<1>6. ed.path \in Files \union {""} /\ DialogOK(ed)
  BY <1>1, EditorHas DEF Paths
<1>7. pie.state = "stopped" => pie = Stopped
  BY <1>2 DEF PlayOK
<1>8. ed.open <=> ed.pending \in {"new", "open", "close"}
  BY <1>6 DEF DialogOK
<1> QED BY <1>1, <1>2, <1>3, <1>4, <1>5, <1>6, <1>7, <1>8 DEF TypeOK

(* An unmarked title means that the file holds the scene that is edited,   *)
(* whatever was done, undone, loaded, saved and played before: EditorApp's *)
(* dirty flag, the paths and play-in-editor keep each other up to date.    *)
THEOREM CleanTitle == Spec => []CleanIsSaved
<1>1. ASSUME EditorInv PROVE CleanIsSaved
  <2>1. TypeOK
    BY <1>1, TypesHold
  <2>2. ASSUME ed.running, ~ed.dirty, ~ed.drift, ~Playing
        PROVE  IF ed.path = "" THEN DOMAIN ed.world.ent = {}
               ELSE ed.disk[ed.path] \in {SceneFile(ed.world), BadFile}
    <3>1. OnDisk(ed, ed.world.ent)
      BY <1>1, <2>2 DEF EditorInv, CleanOnDisk, CleanOK
    <3>2. SceneFile(ed.world) = SceneFile([ent |-> ed.world.ent])
      BY SavedTable
    <3> QED BY <3>1, <3>2 DEF OnDisk
  <2> QED BY <2>1, <2>2 DEF CleanIsSaved
<1> QED BY <1>1, Inductive, PTL

LEMMA UndoneKeeps ==
    ASSUME EditorInv, HistoryStep
    PROVE  NamedEntityOnly
<1>1. CASE Undo
  <2>1. /\ Len(ed'.undo) = Len(ed.undo) - 1 /\ Len(ed.undo) \in Nat
        /\ KeepsOthers(ed.world, ed'.world, Last(ed.undo).e)
    BY <1>1, UndoOK
  <2>2. Len(ed'.undo) < Len(ed.undo)
    BY <2>1
  <2> QED BY <2>1, <2>2 DEF NamedEntityOnly, KeepsOthers
<1>2. CASE Redo
  <2>1. /\ Len(ed'.undo) = Len(ed.undo) + 1 /\ Len(ed.undo) \in Nat
        /\ KeepsOthers(ed.world, ed'.world, Last(ed.redo).e)
    BY <1>2, RedoOK
  <2>2. ~(Len(ed'.undo) < Len(ed.undo))
    BY <2>1
  <2> QED BY <2>1, <2>2 DEF NamedEntityOnly, KeepsOthers
<1> QED BY <1>1, <1>2 DEF HistoryStep

(* What an instance adds is new, and linked among itself.                  *)
LEMMA InstanceLinks ==
    ASSUME NEW w, WorldOK(w), NEW prefab \in Seq(Components), LinksInside(prefab),
           Room(w, Len(prefab)), NEW more \in Components, "kid" \notin DOMAIN more,
           NEW h \in Living(Instantiated(w, prefab, more)),
           h[1] \notin DOMAIN w.ent, Has(Instantiated(w, prefab, more), h, "kid")
    PROVE  LET u == Instantiated(w, prefab, more)
               t == Linked(Of(u, h)["kid"])
           IN  t \in Living(u) /\ t[1] \notin DOMAIN w.ent
<1> DEFINE u == Instantiated(w, prefab, more)
           t == Linked(Of(u, h)["kid"])
<1>1. /\ WorldOK(u) /\ u.gen = w.gen
      /\ \A j \in DOMAIN u.ent \ DOMAIN w.ent :
            "kid" \in DOMAIN u.ent[j] =>
               \E i \in DOMAIN u.ent \ DOMAIN w.ent : Linked(u.ent[j]["kid"]) = <<i, w.gen[i]>>
  BY InstantiatedOK
<1>2. h \in Living(u) /\ Has(u, h, "kid")
  OBVIOUS
<1> HIDE DEF u
<1>3. h[1] \in DOMAIN u.ent \ DOMAIN w.ent /\ "kid" \in DOMAIN u.ent[h[1]]
  BY <1>1, <1>2, LivingIs DEF Has, Of
<1>4. PICK i \in DOMAIN u.ent \ DOMAIN w.ent : t = <<i, w.gen[i]>>
  BY <1>1, <1>3 DEF Of
<1>5. t = <<i, u.gen[i]>> /\ t[1] = i
  BY <1>1, <1>4
<1> HIDE DEF t
<1>6. t \in Living(u)
  BY <1>4, <1>5 DEF Living
<1>7. t \in Living(u) /\ t[1] \notin DOMAIN w.ent
  BY <1>4, <1>5, <1>6
<1> QED BY <1>7 DEF u, t

(* New handles are those in new slots, while no generation changes.        *)
LEMMA NewHandles ==
    ASSUME NEW w, WorldOK(w), NEW u, WorldOK(u), u.gen = w.gen
    PROVE  /\ \A h \in Living(u) \ Living(w) : h[1] \in DOMAIN u.ent /\ h[1] \notin DOMAIN w.ent
           /\ \A h \in Living(u) : h[1] \notin DOMAIN w.ent => h \in Living(u) \ Living(w)
<1>1. ASSUME NEW h \in Living(u) \ Living(w) PROVE h[1] \in DOMAIN u.ent /\ h[1] \notin DOMAIN w.ent
  <2>1. h[1] \in DOMAIN u.ent /\ h = <<h[1], u.gen[h[1]]>>
    BY LivingIs
  <2>2. h = <<h[1], w.gen[h[1]]>>
    BY <2>1
  <2>3. h[1] \notin DOMAIN w.ent
    <3> SUFFICES ASSUME h[1] \in DOMAIN w.ent PROVE FALSE
      OBVIOUS
    <3>1. <<h[1], w.gen[h[1]]>> \in Living(w)
      BY DEF Living
    <3> QED BY <2>2, <3>1
  <2> QED BY <2>1, <2>3
<1>2. ASSUME NEW h \in Living(u), h[1] \notin DOMAIN w.ent PROVE h \notin Living(w)
  BY <1>2, LivingIs
<1> QED BY <1>1, <1>2

LEMMA InstanceKeepsToItself ==
    ASSUME EditorInv, Spawn \/ DropPrefab
    PROVE  LinkedInside
<1> DEFINE new == Living(ed'.world) \ Living(ed.world)
           p == ed.prefab.ents
<1> SUFFICES ASSUME NEW h \in new, Has(ed'.world, h, "kid")
             PROVE  Linked(Of(ed'.world, h)["kid"]) \in new
  BY DEF LinkedInside
<1>1. /\ WorldOK(ed.world) /\ p \in Seq(Components) /\ LinksInside(p) /\ h \in Living(ed'.world)
  BY InvHas, PrefabHas
<1>2. CASE Spawn
  <2> DEFINE b == Created(ed.world, << >>)
             u == Instantiated(b, p, << >>)
             s == Last(ed.world.free)
  <2>1. Room(ed.world, 1) /\ WorldOK(b) /\ Room(b, Len(p)) /\ ed'.world = u
    BY <1>2, SpawnIs DEF SpawnedWorld
  <2>2. /\ b.gen = ed.world.gen /\ DOMAIN b.ent = DOMAIN ed.world.ent \union {s} /\ b.ent[s] = << >>
    BY <1>1, <2>1, NoComponents, CreatedOK
  <2>3. << >> \in Components /\ "kid" \notin DOMAIN << >>
    BY NoComponents
  <2> HIDE DEF b, s, p
  <2>4. /\ WorldOK(u) /\ u.gen = b.gen /\ \A j \in DOMAIN b.ent : j \in DOMAIN u.ent /\ u.ent[j] = b.ent[j]
    BY <1>1, <2>1, <2>3, InstantiatedOK
  <2>5. Has(u, h, "kid") /\ h \in Living(u)
    BY <1>1, <2>1
  <2>6. h[1] \notin DOMAIN ed.world.ent
    <3> HIDE DEF u
    <3> QED BY <1>1, <2>1, <2>2, <2>4, NewHandles
  <2>7. h[1] # s
    <3> HIDE DEF u
    <3> SUFFICES ASSUME h[1] = s PROVE FALSE
      OBVIOUS
    <3>1. u.ent[h[1]] = << >>
      BY <2>2, <2>4
    <3>2. "kid" \in DOMAIN u.ent[h[1]]
      BY <2>5 DEF Has, Of
    <3> QED BY <3>1, <3>2
  <2>8. h[1] \notin DOMAIN b.ent
    BY <2>2, <2>6, <2>7
  <2> DEFINE t == Linked(Of(u, h)["kid"])
  <2>9. t \in Living(u) /\ t[1] \notin DOMAIN b.ent
    BY <1>1, <2>1, <2>3, <2>5, <2>8, InstanceLinks
  <2> HIDE DEF u, t
  <2>10. t \in Living(u) \ Living(ed.world)
    BY <1>1, <2>2, <2>4, <2>9, NewHandles
  <2> QED BY <2>1, <2>10 DEF t
<1>3. CASE DropPrefab
  <2>1. CASE "pre" \in DOMAIN p[1]
    <3>1. ed' = Dies(ed)
      BY <1>3, <2>1 DEF DropPrefab, Does
    <3>2. ed'.world = ed.world
      BY <3>1, InvHas, DiesOK
    <3> QED BY <3>2
  <2>2. CASE "pre" \notin DOMAIN p[1]
    <3> DEFINE m == Just("pre", 1)
               u == Instantiated(ed.world, p, m)
    <3>1. p # << >> /\ Room(ed.world, Len(p)) /\ Gesture(u)
      BY <1>3, <2>2 DEF DropPrefab
    <3>2. m \in Components /\ "kid" \notin DOMAIN m
      BY JustOK DEF Keys
    <3>3. Room(ed.world, 1)
      BY <3>1, PrefabHas DEF Room
    <3> HIDE DEF m, p
    <3>4. WorldOK(u) /\ u.gen = ed.world.gen
      BY <1>1, <3>1, <3>2, InstantiatedOK
    <3>5. ed'.world = u
      <4> HIDE DEF u
      <4> QED BY <3>1, <3>3, <3>4, GestureDone
    <3>6. Has(u, h, "kid") /\ h \in Living(u)
      BY <1>1, <3>5
    <3>7. h[1] \notin DOMAIN ed.world.ent
      <4> HIDE DEF u
      <4> QED BY <1>1, <3>4, <3>5, NewHandles
    <3> DEFINE t == Linked(Of(u, h)["kid"])
    <3>8. t \in Living(u) /\ t[1] \notin DOMAIN ed.world.ent
      BY <1>1, <3>1, <3>2, <3>6, <3>7, InstanceLinks
    <3> HIDE DEF u, t
    <3>9. t \in Living(u) \ Living(ed.world)
      BY <1>1, <3>4, <3>8, NewHandles
    <3> QED BY <3>5, <3>9 DEF t
  <2> QED BY <2>1, <2>2
<1> QED BY <1>2, <1>3

(* Undo and redo touch only the entity their command made or names, for    *)
(* the handles a command keeps go stale with their slot's generation; and  *)
(* the entities of a prefab's instance refer only to each other.           *)
THEOREM OwnEntities == Spec => OwnEntityOnly
<1>1. EditorInv /\ [Next]_vars => [NamedEntityOnly /\ LinkedInside]_vars
  <2> SUFFICES ASSUME EditorInv PROVE NamedEntityOnly /\ LinkedInside
    OBVIOUS
  <2>1. NamedEntityOnly
    <3>1. CASE HistoryStep
      BY <3>1, UndoneKeeps
    <3>2. CASE ~HistoryStep
      BY <3>2 DEF NamedEntityOnly
    <3> QED BY <3>1, <3>2
  <2>2. LinkedInside
    <3>1. CASE Spawn \/ DropPrefab
      BY <3>1, InstanceKeepsToItself
    <3>2. CASE ~(Spawn \/ DropPrefab)
      BY <3>2 DEF LinkedInside
    <3> QED BY <3>1, <3>2
  <2> QED BY <2>1, <2>2
<1> QED BY <1>1, Inductive, PTL DEF Spec, OwnEntityOnly

(* Stop gives back what play changed: exactly the entities of the snapshot *)
(* that are still alive, each with every component it had.                 *)
THEOREM PlayIsUndone == Spec => StopRestores
<1> DEFINE Restores == (Stop /\ pie.scene = ed.id) =>
              /\ Living(ed'.world) = Living(ed.world) \intersect DOMAIN pie.snap
              /\ \A h \in Living(ed'.world) : \A k \in DOMAIN pie.snap[h] :
                    Has(ed'.world, h, k) /\ Of(ed'.world, h)[k] = pie.snap[h][k]
<1>1. EditorInv /\ [Next]_vars => [Restores]_vars
  <2> SUFFICES ASSUME EditorInv, Stop
               PROVE  /\ Living(ed'.world) = Living(ed.world) \intersect DOMAIN pie.snap
                      /\ \A h \in Living(ed'.world) : \A k \in DOMAIN pie.snap[h] :
                            Has(ed'.world, h, k) /\ Of(ed'.world, h)[k] = pie.snap[h][k]
    OBVIOUS
  <2> DEFINE w == Restored(ed.world, pie.snap)
  <2>1. /\ ed'.world = w /\ Living(w) = Living(ed.world) \intersect DOMAIN pie.snap
        /\ \A h \in Living(w) : \A k \in DOMAIN pie.snap[h] :
              Has(w, h, k) /\ Of(w, h)[k] = pie.snap[h][k]
    BY StopIs
  <2> HIDE DEF w
  <2> QED BY <2>1
<1> QED BY <1>1, Inductive, PTL DEF Spec, StopRestores

(* With marked changes the scene is neither replaced nor left, but through *)
(* the dialog.                                                             *)
LEMMA LostOnlyByAnswer ==
    ASSUME EditorInv, [Next]_vars, ed.dirty,
           ed'.id # ed.id \/ (ed.running /\ ~ed'.running), ~ed'.crashed
    PROVE  Discard \/ SaveAndGoOn
<1>1. EditorOK(ed)
  BY InvHas
<1>2. ASSUME Edited(ed, ed') PROVE FALSE
  BY <1>2 DEF Edited, SameButWorld
<1>3. ASSUME ed'.id = ed.id, ed'.running = ed.running PROVE FALSE
  BY <1>3
<1>4. CASE EditStep \/ HistoryStep
  <2>1. EditDone
    BY <1>4, EditStepOK, UndoOK, RedoOK DEF HistoryStep
  <2> QED BY <1>2, <2>1 DEF EditDone
<1>5. CASE DoNew
  <2>1. ed' \in NewScene(ed)
    BY <1>5 DEF DoNew, Becomes
  <2>2. Goes(ed, ed')
    BY <1>1, <2>1, NewSceneOK
  <2> QED BY <1>3, <2>2 DEF Goes
<1>6. ASSUME NEW f \in Files, DoOpen(f) PROVE FALSE
  <2>1. ed' \in OpenScene(ed, f)
    BY <1>6 DEF DoOpen, Becomes
  <2>2. Goes(ed, ed')
    BY <1>1, <2>1, OpenSceneOK
  <2> QED BY <1>3, <2>2 DEF Goes
<1>7. CASE DoSave
  <2>1. ed' \in SaveCurrent(ed)
    BY <1>7 DEF DoSave, Becomes
  <2>2. Saves(ed, ed')
    BY <1>1, <2>1, SaveCurrentOK
  <2> QED BY <1>3, <2>2 DEF Saves
<1>8. ASSUME NEW f \in Files, DoSaveAs(f) PROVE FALSE
  <2>1. ed' \in SaveScene(ed, f)
    BY <1>8 DEF DoSaveAs, Becomes
  <2>2. Saves(ed, ed')
    BY <1>1, <2>1, SaveSceneOK
  <2> QED BY <1>3, <2>2 DEF Saves
<1>9. CASE Cancel
  <2> DEFINE m == [ed EXCEPT !.open = FALSE, !.pending = "none", !.target = ""]
  <2>1. ed' = m
    BY <1>9 DEF Cancel, Becomes
  <2>2. SameButWorld(ed, m)
    BY <1>1, DialogShutOK
  <2> HIDE DEF m
  <2> QED BY <1>3, <2>1, <2>2 DEF SameButWorld
<1>10. CASE ExitMenu \/ CloseCheck
  <2> DEFINE a == [Ask(ed, "close", ed.target) EXCEPT !.shown = TRUE]
  <2>1. ed' = a
    BY <1>10 DEF ExitMenu, CloseCheck, Becomes
  <2>2. SameButWorld(ed, a)
    BY <1>1, AskToLeaveOK
  <2> HIDE DEF a
  <2> QED BY <1>3, <2>1, <2>2 DEF SameButWorld
<1>11. CASE CloseBox \/ UNCHANGED vars
  <2>1. ed' = ed
    BY <1>11 DEF CloseBox, vars
  <2> QED BY <1>3, <2>1
<1>12. CASE Play \/ PieTick
  <2>1. \E w \in GameStep(ed.world) \union {ed.world} : ed' = [ed EXCEPT !.world = w]
    BY <1>12 DEF Play, PieTick, GameStep
  <2>2. ed'.id = ed.id /\ ed'.running = ed.running
    <3>1. ed \in Editors
      BY <1>1, EditorHas
    <3> QED BY <2>1, <3>1 DEF Editors
  <2> QED BY <1>3, <2>2
<1>13. CASE Stop
  <2>1. SameButWorld(ed, ed')
    BY <1>13, StopIs
  <2> QED BY <1>3, <2>1 DEF SameButWorld
<1>14. CASE StaleScene
  <2>1. Edited(ed, ed')
    BY <1>1, <1>14, DiesOK DEF StaleScene
  <2> QED BY <1>2, <2>1
<1>15. CASE SceneStep
  BY <1>5, <1>6, <1>7, <1>8, <1>9, <1>10, <1>15 DEF SceneStep
<1> QED BY <1>4, <1>10, <1>11, <1>12, <1>13, <1>14, <1>15 DEF Next

(* Marked changes are gone only when the user discarded them, or they are  *)
(* in a file; or a save failed on the way out and the program left anyway. *)
THEOREM NothingLost == Spec => NothingLostUnasked
<1> DEFINE Lost == ed.dirty /\ (ed'.id # ed.id \/ (ed.running /\ ~ed'.running)) /\ ~ed'.crashed
           Meant == \/ Discard
                    \/ \E f \in Files : ed'.disk[f] = SceneFile(ed.world)
                    \/ SaveAndGoOn /\ ed.pending = "close"
<1>1. EditorInv /\ [Next]_vars => [Lost => Meant]_vars
  <2> SUFFICES ASSUME EditorInv, [Next]_vars, Lost PROVE Meant
    OBVIOUS
  <2>1. Discard \/ SaveAndGoOn
    BY LostOnlyByAnswer
  <2>2. CASE SaveAndGoOn
    <3>1. ed.open /\ EditorOK(ed) /\ ed' \in UNION {ExecutePending(m) : m \in SaveCurrent(ed)}
      BY <2>2, InvHas DEF SaveAndGoOn, Becomes
    <3>2. \/ \E f \in Files : ed'.disk[f] = SceneFile(ed.world)
          \/ ed.pending = "close"
          \/ ed.dirty => (ed'.running = ed.running /\ ed'.id = ed.id)
      BY <3>1, SaveAndGoOnOK
    <3> QED BY <2>2, <3>2
  <2> QED BY <2>1, <2>2
<1> QED BY <1>1, Inductive, PTL DEF Spec, NothingLostUnasked
==============================================================================
