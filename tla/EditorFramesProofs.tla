----------------------------- MODULE EditorFramesProofs -----------------------------
(***************************************************************************)
(* Proofs about EditorFrames: GpuFrames' device and frame graphs under the  *)
(* loops of the game, the demo and the editor.  Inv says what a list under *)
(* way has done to the resources it may use (Open: an unbroken trace of    *)
(* states from rest to where the frame is), that every entry of the queue  *)
(* takes its resources from rest to rest and draws no mesh before its copy *)
(* (EntryOK), how fences, slots and signals go together (Paced), and which *)
(* mesh a handle stands for (EdMeshes).  Every action then keeps it.       *)
(***************************************************************************)
EXTENDS EditorFrames, SequenceTheorems, WellFoundedInduction, TLAPS

(* Induction over the numbers, for a set.                                  *)
LEMMA SetInduction ==
    ASSUME NEW S, 0 \in S, \A n \in Nat : n \in S => n + 1 \in S
    PROVE  Nat \subseteq S
<1> DEFINE T == Nat \ S
<1> SUFFICES ASSUME T # {} PROVE FALSE
  OBVIOUS
<1>1. PICK n \in T : \A m \in T : ~(<<m, n>> \in OpToRel(<, Nat))
  <2>1. T \subseteq Nat
    OBVIOUS
  <2> HIDE DEF T
  <2> QED BY <2>1, NatLessThanWellFounded, WFMin
<1>2. n \in Nat /\ n # 0
  OBVIOUS
<1>3. n - 1 \in Nat /\ n - 1 < n
  BY <1>2
<1>4. n - 1 \notin T
  <2>1. <<n - 1, n>> \in OpToRel(<, Nat)
    BY <1>2, <1>3 DEF OpToRel
  <2> QED BY <1>1, <2>1
<1>5. (n - 1) + 1 \in S
  BY <1>3, <1>4
<1> QED BY <1>2, <1>5


(* One load of the game, one of the editor. *)
UploadsStart ==
    [gpu |-> [gpu EXCEPT !.held = FALSE], handles |-> handles,
     mm |-> IF mm.list = Frames THEN MeshManager(gpu) ELSE mm]
DrainStart(sc, list) == [gpu |-> gpu, mm |-> list, handles |-> sc.handles, registered |-> sc.registered]

UploadOne(ok, acc, i) ==
    IF i \notin ok THEN acc
    ELSE [gpu |-> Textured(UploadStatic(acc.gpu, acc.mm), Len(acc.mm.paths) + 1), mm |-> WithMesh(acc.mm, "game"),
          handles |-> [acc.handles EXCEPT ![i] = Len(acc.mm.paths) + 1]]

DrainOne(good, acc, l) ==
    IF l.path \notin good THEN acc
    ELSE [gpu |-> UploadTexture(UploadStatic(acc.gpu, acc.mm), Len(acc.mm.paths) + 1),
          mm |-> WithMesh(acc.mm, l.path),
          handles |-> [acc.handles EXCEPT ![l.i] = Len(acc.mm.paths) + 1],
          registered |-> [acc.registered EXCEPT ![l.i] = l.path]]

(* What the GPU goes through on a list. *)
LEMMA PerformedRun ==
    ASSUME NEW g, NEW s, Len(s) \in Nat
    PROVE  \E f : /\ Performed(g, s) = f[Len(s)] /\ f[0] = g
                 /\ \A k \in 1 .. Len(s) : f[k] = Effect(s[k], f[k - 1])
<1> DEFINE First == g
           N == Len(s)
           Then(a, k) == Effect(s[k], a)
           IsRun(m, r) == r = [k \in 0 .. m |-> IF k = 0 THEN First ELSE Then(r[k - 1], k)]
           S == {m \in Nat : \E r : IsRun(m, r)}
           f == CHOOSE r : IsRun(N, r)
<1>1. Performed(g, s) = f[Len(s)]
  BY DEF Along, Performed
<1> HIDE DEF First, Then, N
<1>2. 0 \in S
  <2>1. IsRun(0, [k \in 0 .. 0 |-> First])
    OBVIOUS
  <2> QED BY <2>1
<1>3. ASSUME NEW m \in Nat, m \in S PROVE m + 1 \in S
  <2>1. PICK r : IsRun(m, r)
    BY <1>3
  <2> DEFINE h == [k \in 0 .. (m + 1) |-> IF k = m + 1 THEN Then(r[m], m + 1) ELSE r[k]]
  <2>2. IsRun(m + 1, h)
    <3>1. ASSUME NEW k \in 0 .. (m + 1)
          PROVE  h[k] = IF k = 0 THEN First ELSE Then(h[k - 1], k)
      BY <2>1
    <3> QED BY <3>1
  <2> HIDE DEF h, IsRun
  <2> QED BY <2>2
<1>n. N \in Nat
  BY DEF N
<1>4. N \in S
  <2> HIDE DEF S
  <2> QED BY <1>2, <1>3, <1>n, SetInduction
<1>5. IsRun(N, f)
  <2> HIDE DEF IsRun
  <2> QED BY <1>4
<1> HIDE DEF f
<1>6. f[0] = First /\ \A k \in 1 .. N : f[k] = Then(f[k - 1], k)
  BY <1>5, <1>n
<1> QED BY <1>1, <1>6 DEF First, Then, N

(* The slots taken so far. *)
LEMMA ThoseRun ==
    ASSUME NEW T, Len([i \in Ents |-> i]) \in Nat
    PROVE  \E f : /\ Those(T) = f[Len([i \in Ents |-> i])] /\ f[0] = << >>
                 /\ \A k \in 1 .. Len([i \in Ents |-> i]) : f[k] = (IF [i \in Ents |-> i][k] \in T THEN Append(f[k - 1], [i \in Ents |-> i][k]) ELSE f[k - 1])
<1> DEFINE First == << >>
           N == Len([i \in Ents |-> i])
           Then(a, k) == (IF [i \in Ents |-> i][k] \in T THEN Append(a, [i \in Ents |-> i][k]) ELSE a)
           IsRun(m, r) == r = [k \in 0 .. m |-> IF k = 0 THEN First ELSE Then(r[k - 1], k)]
           S == {m \in Nat : \E r : IsRun(m, r)}
           f == CHOOSE r : IsRun(N, r)
<1>1. Those(T) = f[Len([i \in Ents |-> i])]
  BY DEF Along, Those
<1> HIDE DEF First, Then, N
<1>2. 0 \in S
  <2>1. IsRun(0, [k \in 0 .. 0 |-> First])
    OBVIOUS
  <2> QED BY <2>1
<1>3. ASSUME NEW m \in Nat, m \in S PROVE m + 1 \in S
  <2>1. PICK r : IsRun(m, r)
    BY <1>3
  <2> DEFINE h == [k \in 0 .. (m + 1) |-> IF k = m + 1 THEN Then(r[m], m + 1) ELSE r[k]]
  <2>2. IsRun(m + 1, h)
    <3>1. ASSUME NEW k \in 0 .. (m + 1)
          PROVE  h[k] = IF k = 0 THEN First ELSE Then(h[k - 1], k)
      BY <2>1
    <3> QED BY <3>1
  <2> HIDE DEF h, IsRun
  <2> QED BY <2>2
<1>n. N \in Nat
  BY DEF N
<1>4. N \in S
  <2> HIDE DEF S
  <2> QED BY <1>2, <1>3, <1>n, SetInduction
<1>5. IsRun(N, f)
  <2> HIDE DEF IsRun
  <2> QED BY <1>4
<1> HIDE DEF f
<1>6. f[0] = First /\ \A k \in 1 .. N : f[k] = Then(f[k - 1], k)
  BY <1>5, <1>n
<1> QED BY <1>1, <1>6 DEF First, Then, N

(* A pass being made ready. *)
LEMMA ReadyRun ==
    ASSUME NEW run, NEW needs, Len(needs) \in Nat
    PROVE  \E f : /\ Ready(run, needs) = f[Len(needs)] /\ f[0] = run
                 /\ \A k \in 1 .. Len(needs) : f[k] = Wanted(f[k - 1], needs[k].h, needs[k].to)
<1> DEFINE First == run
           N == Len(needs)
           Then(a, k) == Wanted(a, needs[k].h, needs[k].to)
           IsRun(m, r) == r = [k \in 0 .. m |-> IF k = 0 THEN First ELSE Then(r[k - 1], k)]
           S == {m \in Nat : \E r : IsRun(m, r)}
           f == CHOOSE r : IsRun(N, r)
<1>1. Ready(run, needs) = f[Len(needs)]
  BY DEF Along, Ready
<1> HIDE DEF First, Then, N
<1>2. 0 \in S
  <2>1. IsRun(0, [k \in 0 .. 0 |-> First])
    OBVIOUS
  <2> QED BY <2>1
<1>3. ASSUME NEW m \in Nat, m \in S PROVE m + 1 \in S
  <2>1. PICK r : IsRun(m, r)
    BY <1>3
  <2> DEFINE h == [k \in 0 .. (m + 1) |-> IF k = m + 1 THEN Then(r[m], m + 1) ELSE r[k]]
  <2>2. IsRun(m + 1, h)
    <3>1. ASSUME NEW k \in 0 .. (m + 1)
          PROVE  h[k] = IF k = 0 THEN First ELSE Then(h[k - 1], k)
      BY <2>1
    <3> QED BY <3>1
  <2> HIDE DEF h, IsRun
  <2> QED BY <2>2
<1>n. N \in Nat
  BY DEF N
<1>4. N \in S
  <2> HIDE DEF S
  <2> QED BY <1>2, <1>3, <1>n, SetInduction
<1>5. IsRun(N, f)
  <2> HIDE DEF IsRun
  <2> QED BY <1>4
<1> HIDE DEF f
<1>6. f[0] = First /\ \A k \in 1 .. N : f[k] = Then(f[k - 1], k)
  BY <1>5, <1>n
<1> QED BY <1>1, <1>6 DEF First, Then, N

(* The passes of a graph. *)
LEMMA PassesRun ==
    ASSUME NEW run, NEW passes, Len(passes) \in Nat
    PROVE  \E f : /\ RunAll(run, passes) = f[Len(passes)] /\ f[0] = run
                 /\ \A k \in 1 .. Len(passes) : f[k] = RunPass(f[k - 1], passes[k])
<1> DEFINE First == run
           N == Len(passes)
           Then(a, k) == RunPass(a, passes[k])
           IsRun(m, r) == r = [k \in 0 .. m |-> IF k = 0 THEN First ELSE Then(r[k - 1], k)]
           S == {m \in Nat : \E r : IsRun(m, r)}
           f == CHOOSE r : IsRun(N, r)
<1>1. RunAll(run, passes) = f[Len(passes)]
  BY DEF Along, RunAll
<1> HIDE DEF First, Then, N
<1>2. 0 \in S
  <2>1. IsRun(0, [k \in 0 .. 0 |-> First])
    OBVIOUS
  <2> QED BY <2>1
<1>3. ASSUME NEW m \in Nat, m \in S PROVE m + 1 \in S
  <2>1. PICK r : IsRun(m, r)
    BY <1>3
  <2> DEFINE h == [k \in 0 .. (m + 1) |-> IF k = m + 1 THEN Then(r[m], m + 1) ELSE r[k]]
  <2>2. IsRun(m + 1, h)
    <3>1. ASSUME NEW k \in 0 .. (m + 1)
          PROVE  h[k] = IF k = 0 THEN First ELSE Then(h[k - 1], k)
      BY <2>1
    <3> QED BY <3>1
  <2> HIDE DEF h, IsRun
  <2> QED BY <2>2
<1>n. N \in Nat
  BY DEF N
<1>4. N \in S
  <2> HIDE DEF S
  <2> QED BY <1>2, <1>3, <1>n, SetInduction
<1>5. IsRun(N, f)
  <2> HIDE DEF IsRun
  <2> QED BY <1>4
<1> HIDE DEF f
<1>6. f[0] = First /\ \A k \in 1 .. N : f[k] = Then(f[k - 1], k)
  BY <1>5, <1>n
<1> QED BY <1>1, <1>6 DEF First, Then, N

(* The imports being put back. *)
LEMMA RestoredRun ==
    ASSUME NEW run, Len([h \in 1 .. Len(run.res) |-> h]) \in Nat
    PROVE  \E f : /\ AllRestored(run) = f[Len([h \in 1 .. Len(run.res) |-> h])] /\ f[0] = run
                 /\ \A k \in 1 .. Len([h \in 1 .. Len(run.res) |-> h]) : f[k] = Restored(f[k - 1], [h \in 1 .. Len(run.res) |-> h][k])
<1> DEFINE First == run
           N == Len([h \in 1 .. Len(run.res) |-> h])
           Then(a, k) == Restored(a, [h \in 1 .. Len(run.res) |-> h][k])
           IsRun(m, r) == r = [k \in 0 .. m |-> IF k = 0 THEN First ELSE Then(r[k - 1], k)]
           S == {m \in Nat : \E r : IsRun(m, r)}
           f == CHOOSE r : IsRun(N, r)
<1>1. AllRestored(run) = f[Len([h \in 1 .. Len(run.res) |-> h])]
  BY DEF Along, AllRestored
<1> HIDE DEF First, Then, N
<1>2. 0 \in S
  <2>1. IsRun(0, [k \in 0 .. 0 |-> First])
    OBVIOUS
  <2> QED BY <2>1
<1>3. ASSUME NEW m \in Nat, m \in S PROVE m + 1 \in S
  <2>1. PICK r : IsRun(m, r)
    BY <1>3
  <2> DEFINE h == [k \in 0 .. (m + 1) |-> IF k = m + 1 THEN Then(r[m], m + 1) ELSE r[k]]
  <2>2. IsRun(m + 1, h)
    <3>1. ASSUME NEW k \in 0 .. (m + 1)
          PROVE  h[k] = IF k = 0 THEN First ELSE Then(h[k - 1], k)
      BY <2>1
    <3> QED BY <3>1
  <2> HIDE DEF h, IsRun
  <2> QED BY <2>2
<1>n. N \in Nat
  BY DEF N
<1>4. N \in S
  <2> HIDE DEF S
  <2> QED BY <1>2, <1>3, <1>n, SetInduction
<1>5. IsRun(N, f)
  <2> HIDE DEF IsRun
  <2> QED BY <1>4
<1> HIDE DEF f
<1>6. f[0] = First /\ \A k \in 1 .. N : f[k] = Then(f[k - 1], k)
  BY <1>5, <1>n
<1> QED BY <1>1, <1>6 DEF First, Then, N

(* The game's loads. *)
LEMMA UploadsRun ==
    ASSUME NEW ok, Len(loads) \in Nat
    PROVE  \E f : /\ Uploads(ok) = f[Len(loads)] /\ f[0] = UploadsStart
                 /\ \A k \in 1 .. Len(loads) : f[k] = UploadOne(ok, f[k - 1], loads[k])
<1> DEFINE First == UploadsStart
           N == Len(loads)
           Then(a, k) == UploadOne(ok, a, loads[k])
           IsRun(m, r) == r = [k \in 0 .. m |-> IF k = 0 THEN First ELSE Then(r[k - 1], k)]
           S == {m \in Nat : \E r : IsRun(m, r)}
           f == CHOOSE r : IsRun(N, r)
<1>1. Uploads(ok) = f[Len(loads)]
  BY DEF Along, Uploads, UploadOne, UploadsStart
<1> HIDE DEF First, Then, N
<1>2. 0 \in S
  <2>1. IsRun(0, [k \in 0 .. 0 |-> First])
    OBVIOUS
  <2> QED BY <2>1
<1>3. ASSUME NEW m \in Nat, m \in S PROVE m + 1 \in S
  <2>1. PICK r : IsRun(m, r)
    BY <1>3
  <2> DEFINE h == [k \in 0 .. (m + 1) |-> IF k = m + 1 THEN Then(r[m], m + 1) ELSE r[k]]
  <2>2. IsRun(m + 1, h)
    <3>1. ASSUME NEW k \in 0 .. (m + 1)
          PROVE  h[k] = IF k = 0 THEN First ELSE Then(h[k - 1], k)
      BY <2>1
    <3> QED BY <3>1
  <2> HIDE DEF h, IsRun
  <2> QED BY <2>2
<1>n. N \in Nat
  BY DEF N
<1>4. N \in S
  <2> HIDE DEF S
  <2> QED BY <1>2, <1>3, <1>n, SetInduction
<1>5. IsRun(N, f)
  <2> HIDE DEF IsRun
  <2> QED BY <1>4
<1> HIDE DEF f
<1>6. f[0] = First /\ \A k \in 1 .. N : f[k] = Then(f[k - 1], k)
  BY <1>5, <1>n
<1> QED BY <1>1, <1>6 DEF First, Then, N

(* The editor's loads. *)
LEMMA DrainRun ==
    ASSUME NEW sc, NEW list, NEW good, Len(sc.loads) \in Nat
    PROVE  \E f : /\ Drain(sc, list, good) = f[Len(sc.loads)] /\ f[0] = DrainStart(sc, list)
                 /\ \A k \in 1 .. Len(sc.loads) : f[k] = DrainOne(good, f[k - 1], sc.loads[k])
<1> DEFINE First == DrainStart(sc, list)
           N == Len(sc.loads)
           Then(a, k) == DrainOne(good, a, sc.loads[k])
           IsRun(m, r) == r = [k \in 0 .. m |-> IF k = 0 THEN First ELSE Then(r[k - 1], k)]
           S == {m \in Nat : \E r : IsRun(m, r)}
           f == CHOOSE r : IsRun(N, r)
<1>1. Drain(sc, list, good) = f[Len(sc.loads)]
  BY DEF Along, Drain, DrainOne, DrainStart
<1> HIDE DEF First, Then, N
<1>2. 0 \in S
  <2>1. IsRun(0, [k \in 0 .. 0 |-> First])
    OBVIOUS
  <2> QED BY <2>1
<1>3. ASSUME NEW m \in Nat, m \in S PROVE m + 1 \in S
  <2>1. PICK r : IsRun(m, r)
    BY <1>3
  <2> DEFINE h == [k \in 0 .. (m + 1) |-> IF k = m + 1 THEN Then(r[m], m + 1) ELSE r[k]]
  <2>2. IsRun(m + 1, h)
    <3>1. ASSUME NEW k \in 0 .. (m + 1)
          PROVE  h[k] = IF k = 0 THEN First ELSE Then(h[k - 1], k)
      BY <2>1
    <3> QED BY <3>1
  <2> HIDE DEF h, IsRun
  <2> QED BY <2>2
<1>n. N \in Nat
  BY DEF N
<1>4. N \in S
  <2> HIDE DEF S
  <2> QED BY <1>2, <1>3, <1>n, SetInduction
<1>5. IsRun(N, f)
  <2> HIDE DEF IsRun
  <2> QED BY <1>4
<1> HIDE DEF f
<1>6. f[0] = First /\ \A k \in 1 .. N : f[k] = Then(f[k - 1], k)
  BY <1>5, <1>n
<1> QED BY <1>1, <1>6 DEF First, Then, N

------------------------------------------------------------------------------
(* Sequences.                                                              *)
LEMMA Appended ==
    ASSUME NEW S, NEW s \in Seq(S), NEW e \in S
    PROVE  /\ Append(s, e) \in Seq(S) /\ Len(Append(s, e)) = Len(s) + 1 /\ Len(s) \in Nat
           /\ \A k \in 1 .. Len(s) : Append(s, e)[k] = s[k]
           /\ Append(s, e)[Len(s) + 1] = e
BY AppendProperties, LenProperties

LEMMA Behind ==
    ASSUME NEW S, NEW s \in Seq(S), s # << >>
    PROVE  /\ Tail(s) \in Seq(S) /\ Len(Tail(s)) = Len(s) - 1 /\ Len(s) \in Nat \ {0}
           /\ Head(s) = s[1] /\ Head(s) \in S
           /\ \A k \in 1 .. Len(s) - 1 : Tail(s)[k] = s[k + 1]
<1>1. Len(s) \in Nat \ {0} /\ Head(s) = s[1] /\ Head(s) \in S /\ Tail(s) \in Seq(S) /\ Len(Tail(s)) = Len(s) - 1
  BY HeadTailProperties, EmptySeq, LenProperties
<1>2. \A k \in 1 .. Len(s) - 1 : Tail(s)[k] = s[k + 1]
  BY <1>1, HeadTailProperties
<1> QED BY <1>1, <1>2
------------------------------------------------------------------------------
(* The device.  A command list may be typed further than its slot needs.   *)
Resources == {"window", "view", "preview", "pie"} \X Nat \X Nat \X {"present", "target", "depth"}
States == {"present", "target", "depth", "sampled"}
Commands == [res : Resources, from : States, to : States, mesh : Nat, copy : BOOLEAN, tex : Nat]
Entries == [slot : 0 .. Frames, cmds : Seq(Commands), signal : Nat]

Fields == {"size", "back", "slot", "counter", "done", "queue", "fences", "lists", "states",
           "uploaded", "textures", "held", "faults"}

HasLists(g) ==
    /\ DOMAIN g.lists = Slots
    /\ \A s \in Slots : DOMAIN g.lists[s] = {"open", "cmds"} /\ g.lists[s].cmds \in Seq(Commands)

Device(g) ==
    /\ DOMAIN g = Fields /\ HasLists(g)
    /\ g.slot \in Slots /\ g.back \in 0 .. BackBuffers - 1
    /\ g.counter \in Nat /\ g.done \in Nat
    /\ g.queue \in Seq(Entries) /\ g.fences \in [Slots -> Nat]

(* What recording, creating and releasing leave alone.                     *)
Kept(g, h) ==
    /\ DOMAIN h = Fields /\ HasLists(h)
    /\ h.slot = g.slot /\ h.back = g.back /\ h.counter = g.counter /\ h.done = g.done
    /\ h.queue = g.queue /\ h.fences = g.fences
    /\ h.uploaded = g.uploaded /\ h.faults = g.faults
    /\ \A s \in Slots : h.lists[s].open = g.lists[s].open

LEMMA KeptOnwards ==
    ASSUME NEW g, NEW h, NEW j, Kept(g, h), Kept(h, j) PROVE Kept(g, j)
BY DEF Kept

LEMMA KeptDevice ==
    ASSUME NEW g, NEW h, Device(g), Kept(g, h) PROVE Device(h)
BY DEF Kept, Device

LEMMA KeptSame ==
    ASSUME NEW g, Device(g) PROVE Kept(g, g)
BY DEF Kept, Device

(* Recording adds to one list.                                             *)
LEMMA RecordGives ==
    ASSUME NEW g, Device(g), NEW s, NEW cmds \in Seq(Commands)
    PROVE  LET h == Record(g, s, cmds)
           IN  /\ Kept(g, h) /\ h.states = g.states /\ h.held = g.held
               /\ s \in Slots /\ g.lists[s].open => h.lists[s].cmds = g.lists[s].cmds \o cmds
               /\ \A t \in Slots : t # s \/ ~g.lists[t].open => h.lists[t] = g.lists[t]
<1> DEFINE h == Record(g, s, cmds)
<1>1. CASE g.lists[s].open /\ s \in Slots
  <2>1. h = [g EXCEPT !.lists[s].cmds = @ \o cmds]
    BY <1>1 DEF Record
  <2> HIDE DEF h
  <2>2. DOMAIN h = Fields /\ h.states = g.states /\ h.held = g.held /\ h.slot = g.slot /\ h.back = g.back
        /\ h.counter = g.counter /\ h.done = g.done
        /\ h.queue = g.queue /\ h.fences = g.fences /\ h.uploaded = g.uploaded /\ h.faults = g.faults
        /\ h.lists = [g.lists EXCEPT ![s].cmds = @ \o cmds]
    BY <2>1 DEF Device, Fields
  <2>3. DOMAIN h.lists = Slots /\ \A t \in Slots : t # s => h.lists[t] = g.lists[t]
    BY <2>2 DEF Device, HasLists
  <2>4. h.lists[s] = [g.lists[s] EXCEPT !.cmds = @ \o cmds] /\ DOMAIN g.lists[s] = {"open", "cmds"}
    BY <1>1, <2>2 DEF Device, HasLists
  <2>5. /\ h.lists[s].cmds = g.lists[s].cmds \o cmds /\ h.lists[s].open = g.lists[s].open
        /\ DOMAIN h.lists[s] = {"open", "cmds"}
    BY <2>4
  <2>6. g.lists[s].cmds \o cmds \in Seq(Commands)
    BY <1>1, ConcatProperties DEF Device, HasLists
  <2>7. HasLists(h)
    BY <2>3, <2>5, <2>6 DEF Device, HasLists
  <2>8. Kept(g, h)
    BY <2>2, <2>3, <2>5, <2>7 DEF Kept
  <2> QED BY <1>1, <2>2, <2>3, <2>5, <2>8 DEF h
<1>2. CASE g.lists[s].open /\ s \notin Slots
  <2>1. h = [g EXCEPT !.lists[s].cmds = @ \o cmds]
    BY <1>2 DEF Record
  <2> HIDE DEF h
  <2>2. DOMAIN h = Fields /\ h.states = g.states /\ h.held = g.held /\ h.slot = g.slot /\ h.back = g.back
        /\ h.counter = g.counter /\ h.done = g.done
        /\ h.queue = g.queue /\ h.fences = g.fences /\ h.uploaded = g.uploaded /\ h.faults = g.faults
        /\ h.lists = [g.lists EXCEPT ![s].cmds = @ \o cmds]
    BY <2>1 DEF Device, Fields
  <2>3. DOMAIN h.lists = Slots /\ \A t \in Slots : h.lists[t] = g.lists[t]
    BY <1>2, <2>2 DEF Device, HasLists
  <2>4. Kept(g, h)
    BY <2>2, <2>3 DEF Kept, Device, HasLists
  <2> QED BY <1>2, <2>2, <2>3, <2>4 DEF h
<1>3. CASE ~g.lists[s].open
  BY <1>3, KeptSame DEF Record
<1> QED BY <1>1, <1>2, <1>3

LEMMA GivenGives ==
    ASSUME NEW g, Device(g), NEW new
    PROVE  /\ Kept(g, Given(g, new)) /\ Given(g, new).lists = g.lists /\ Given(g, new).held = g.held
           /\ Given(g, new).states = [r \in DOMAIN g.states \union new |-> IF r \in new THEN r[4] ELSE g.states[r]]
BY DEF Given, Device, Kept, Fields, HasLists

LEMMA ReleasedGives ==
    ASSUME NEW g, Device(g), NEW gone
    PROVE  /\ Kept(g, Released(g, gone)) /\ Released(g, gone).lists = g.lists /\ Released(g, gone).held = g.held
           /\ Released(g, gone).states = [r \in DOMAIN g.states \ gone |-> g.states[r]]
BY DEF Released, Device, Kept, Fields, HasLists

LEMMA HeldGives ==
    ASSUME NEW g, Device(g), NEW b
    PROVE  LET h == [g EXCEPT !.held = b]
           IN Kept(g, h) /\ h.lists = g.lists /\ h.states = g.states
BY DEF Device, Kept, Fields, HasLists

LEMMA TexturesGive ==
    ASSUME NEW g, Device(g), NEW b
    PROVE  LET h == [g EXCEPT !.textures = b]
           IN  /\ Kept(g, h) /\ h.lists = g.lists /\ h.states = g.states /\ h.held = g.held
BY DEF Device, Kept, Fields, HasLists

(* A signal is an entry of its own, with no commands.                      *)
LEMMA SignalGives ==
    ASSUME NEW g, Device(g)
    PROVE  LET h == Signal(g)
           IN  /\ Device(h) /\ h.counter = g.counter + 1
               /\ h.queue = Append(g.queue, [slot |-> Frames, cmds |-> << >>, signal |-> g.counter + 1])
               /\ [slot |-> Frames, cmds |-> << >>, signal |-> g.counter + 1] \in Entries
               /\ h.slot = g.slot /\ h.back = g.back /\ h.done = g.done /\ h.fences = g.fences
               /\ h.lists = g.lists /\ h.states = g.states /\ h.held = g.held
               /\ h.uploaded = g.uploaded /\ h.faults = g.faults
<1> DEFINE e == [slot |-> Frames, cmds |-> << >>, signal |-> g.counter + 1]
           h == Signal(g)
<1>1. e \in Entries
  BY DeviceAssumption DEF Entries, Device
<1> HIDE DEF e
<1>2. /\ DOMAIN h = Fields /\ h.counter = g.counter + 1 /\ h.queue = Append(g.queue, e)
      /\ h.slot = g.slot /\ h.back = g.back /\ h.done = g.done /\ h.fences = g.fences
      /\ h.lists = g.lists /\ h.states = g.states /\ h.held = g.held
      /\ h.uploaded = g.uploaded /\ h.faults = g.faults
  BY DEF Signal, Device, Fields, e
<1> HIDE DEF h
<1>3. Append(g.queue, e) \in Seq(Entries)
  BY <1>1, Appended DEF Device
<1>4. Device(h)
  BY <1>2, <1>3 DEF Device, HasLists
<1> QED BY <1>1, <1>2, <1>4 DEF h, e

LEMMA ResizedGives ==
    ASSUME NEW g, Device(g), NEW size
    PROVE  LET h == Resized(g, size)
           IN  /\ Device(h) /\ h.counter = g.counter /\ h.queue = g.queue
               /\ h.slot = g.slot /\ h.done = g.done /\ h.fences = g.fences
               /\ h.lists = g.lists /\ h.held = g.held
               /\ h.states = [r \in DOMAIN g.states |-> IF r \in SwapChain("window", 0) THEN r[4] ELSE g.states[r]]
               /\ h.uploaded = g.uploaded /\ h.faults = g.faults
<1> DEFINE h == Resized(g, size)
<1>1. /\ DOMAIN h = Fields /\ h.counter = g.counter /\ h.queue = g.queue
      /\ h.slot = g.slot /\ h.done = g.done /\ h.fences = g.fences
      /\ h.lists = g.lists /\ h.held = g.held
      /\ h.states = [r \in DOMAIN g.states |-> IF r \in SwapChain("window", 0) THEN r[4] ELSE g.states[r]]
      /\ h.uploaded = g.uploaded /\ h.faults = g.faults
      /\ h.back \in {0, g.back}
  BY DEF Resized, Device, Fields
<1> HIDE DEF h
<1>2. Device(h)
  BY <1>1, DeviceAssumption DEF Device, HasLists
<1> QED BY <1>1, <1>2 DEF h

LEMMA BackBufferOK ==
    ASSUME NEW i \in 0 .. BackBuffers - 1
    PROVE  /\ BackBuffer(i) \in Resources /\ BackBuffer(i) \in SwapChain("window", 0)
           /\ \A from, to \in States : Barrier(BackBuffer(i), from, to) \in Commands
<1>1. i \in Nat
  BY DeviceAssumption
<1>2. BackBuffer(i) \in Resources
  BY <1>1 DEF BackBuffer, Resources
<1>3. BackBuffer(i) \in SwapChain("window", 0)
  BY DEF BackBuffer, SwapChain
<1>4. ASSUME NEW from \in States, NEW to \in States
      PROVE  Barrier(BackBuffer(i), from, to) \in Commands
  BY <1>2 DEF Barrier, Commands
<1> QED BY <1>2, <1>3, <1>4

LEMMA BeginFrameGives ==
    ASSUME NEW g, Device(g)
    PROVE  LET h == BeginFrame(g)
           IN  /\ Device(h) /\ h.slot = NextSlot(g) /\ NextSlot(g) \in Slots
               /\ h.lists[h.slot].open /\ h.lists[h.slot].cmds = << Barrier(BackBuffer(g.back), "present", "target") >>
               /\ \A t \in Slots : t # h.slot => h.lists[t] = g.lists[t]
               /\ h.counter = g.counter /\ h.queue = g.queue /\ h.back = g.back
               /\ h.done = g.done /\ h.fences = g.fences /\ h.held = g.held
               /\ h.states = g.states /\ h.uploaded = g.uploaded /\ h.faults = g.faults
<1> DEFINE h == BeginFrame(g)
           n == NextSlot(g)
           cmds == << Barrier(BackBuffer(g.back), "present", "target") >>
           l == [open |-> TRUE, cmds |-> cmds]
<1>1. n \in Slots
  BY DeviceAssumption, SMTT(30) DEF Device, NextSlot, Slots
<1>2. cmds \in Seq(Commands)
  BY BackBufferOK DEF Device, States
<1>3. /\ DOMAIN h = Fields /\ h.slot = n /\ h.counter = g.counter /\ h.queue = g.queue /\ h.back = g.back
      /\ h.done = g.done /\ h.fences = g.fences /\ h.held = g.held
      /\ h.states = g.states /\ h.uploaded = g.uploaded /\ h.faults = g.faults
      /\ h.lists = [g.lists EXCEPT ![n] = l]
  <2> HIDE DEF n, l
  <2>1. h = [g EXCEPT !.slot = n, !.lists[n] = l]
    BY DEF BeginFrame, n, l
  <2> HIDE DEF h
  <2> QED BY <2>1 DEF Device, Fields
<1> HIDE DEF h, n, cmds
<1>4. DOMAIN h.lists = Slots /\ h.lists[n] = l /\ \A t \in Slots : t # n => h.lists[t] = g.lists[t]
  BY <1>1, <1>3 DEF Device, HasLists
<1>5. Device(h)
  BY <1>1, <1>2, <1>3, <1>4 DEF Device, HasLists
<1>6. h.lists[h.slot].open /\ h.lists[h.slot].cmds = cmds
  BY <1>3, <1>4
<1> QED BY <1>1, <1>3, <1>4, <1>5, <1>6 DEF h, n, cmds

LEMMA EndFrameGives ==
    ASSUME NEW g, Device(g)
    PROVE  LET h == EndFrame(g)
               e == [slot |-> g.slot, signal |-> g.counter + 1,
                     cmds |-> Append(g.lists[g.slot].cmds, Barrier(BackBuffer(g.back), "target", "present"))]
           IN  /\ Device(h) /\ h.slot = g.slot /\ h.counter = g.counter + 1
               /\ e \in Entries /\ h.queue = Append(g.queue, e)
               /\ ~h.lists[g.slot].open
               /\ \A t \in Slots : t # g.slot => h.lists[t] = g.lists[t]
               /\ h.fences = [g.fences EXCEPT ![g.slot] = g.counter + 1]
               /\ h.done = g.done /\ h.held = g.held
               /\ h.states = g.states /\ h.uploaded = g.uploaded /\ h.faults = g.faults
<1> DEFINE h == EndFrame(g)
           all == Append(g.lists[g.slot].cmds, Barrier(BackBuffer(g.back), "target", "present"))
           e == [slot |-> g.slot, signal |-> g.counter + 1, cmds |-> all]
           l == [open |-> FALSE, cmds |-> << >>]
           b == (g.back + 1) % BackBuffers
<1>1. /\ g.slot \in Slots /\ g.lists[g.slot].cmds \in Seq(Commands)
      /\ Barrier(BackBuffer(g.back), "target", "present") \in Commands
  BY BackBufferOK DEF Device, HasLists, States
<1>2. all \in Seq(Commands)
  BY <1>1, Appended
<1>3. b \in 0 .. BackBuffers - 1
  BY DeviceAssumption DEF Device
<1> HIDE DEF all
<1>4. e \in Entries
  BY <1>1, <1>2, DeviceAssumption, SMTT(30) DEF Device, Entries, Slots
<1> HIDE DEF e
<1>5. Append(g.queue, e) \in Seq(Entries)
  BY <1>4, Appended DEF Device
<1> HIDE DEF b
<1>6. /\ DOMAIN h = Fields /\ h.slot = g.slot /\ h.counter = g.counter + 1 /\ h.queue = Append(g.queue, e)
      /\ h.back = b /\ h.done = g.done /\ h.fences = [g.fences EXCEPT ![g.slot] = g.counter + 1]
      /\ h.held = g.held /\ h.states = g.states /\ h.uploaded = g.uploaded /\ h.faults = g.faults
      /\ h.lists = [g.lists EXCEPT ![g.slot] = l]
  <2> HIDE DEF l
  <2>1. h = [g EXCEPT !.lists[g.slot] = l, !.back = b, !.counter = g.counter + 1,
                      !.fences[g.slot] = g.counter + 1, !.queue = Append(@, e)]
    BY DEF EndFrame, Submitted, l, b, e, all
  <2> HIDE DEF h
  <2> QED BY <2>1 DEF Device, Fields
<1> HIDE DEF h
<1>7. DOMAIN h.lists = Slots /\ h.lists[g.slot] = l /\ \A t \in Slots : t # g.slot => h.lists[t] = g.lists[t]
  BY <1>1, <1>6 DEF Device, HasLists
<1>8. Device(h)
  <2>1. HasLists(h)
    <3>1. l.cmds \in Seq(Commands) /\ DOMAIN l = {"open", "cmds"}
      OBVIOUS
    <3> HIDE DEF l
    <3> QED BY <1>7, <3>1 DEF Device, HasLists
  <2>2. h.fences \in [Slots -> Nat]
    BY <1>6 DEF Device
  <2> QED BY <1>3, <1>5, <1>6, <2>1, <2>2 DEF Device
<1>9. ~h.lists[g.slot].open
  BY <1>7
<1> QED BY <1>4, <1>6, <1>7, <1>8, <1>9 DEF h, e, all

LEMMA EffectGives ==
    ASSUME NEW g, DOMAIN g = Fields, NEW c
    PROVE  LET h == Effect(c, g)
           IN  /\ DOMAIN h = Fields /\ h.slot = g.slot /\ h.back = g.back /\ h.counter = g.counter
               /\ h.done = g.done /\ h.queue = g.queue /\ h.fences = g.fences /\ h.lists = g.lists /\ h.held = g.held
               /\ h.states = IF c.res \in DOMAIN g.states THEN [g.states EXCEPT ![c.res] = c.to] ELSE g.states
               /\ h.uploaded = IF c.copy THEN g.uploaded \union {c.mesh} ELSE g.uploaded
               /\ h.faults = g.faults \union Faults(c, g)
BY DEF Effect, Fields

(* Executing the oldest entry.                                             *)
LEMMA ExecutedGives ==
    ASSUME NEW g, Device(g), g.queue # << >>
    PROVE  LET h == Executed(g)
           IN  /\ Device(h) /\ h.queue = Tail(g.queue) /\ h.done = g.queue[1].signal
               /\ h.slot = g.slot /\ h.back = g.back /\ h.counter = g.counter
               /\ h.fences = g.fences /\ h.lists = g.lists /\ h.held = g.held
               /\ \E f : /\ f[0] = g /\ \A k \in 0 .. Len(g.queue[1].cmds) : DOMAIN f[k] = Fields
                         /\ \A k \in 1 .. Len(g.queue[1].cmds) : f[k] = Effect(g.queue[1].cmds[k], f[k - 1])
                         /\ h.states = f[Len(g.queue[1].cmds)].states
                         /\ h.uploaded = f[Len(g.queue[1].cmds)].uploaded
                         /\ h.faults = f[Len(g.queue[1].cmds)].faults
<1> DEFINE e == g.queue[1]
           h == Executed(g)
<1>1. /\ e \in Entries /\ Head(g.queue) = e
      /\ Tail(g.queue) \in Seq(Entries)
  BY Behind DEF Device
<1>2. Len(e.cmds) \in Nat /\ e.signal \in Nat
  BY <1>1, LenProperties DEF Entries
<1> HIDE DEF e
<1>3. PICK f : /\ Performed(g, e.cmds) = f[Len(e.cmds)] /\ f[0] = g
               /\ \A k \in 1 .. Len(e.cmds) : f[k] = Effect(e.cmds[k], f[k - 1])
  BY <1>2, PerformedRun
<1>3e. h = [f[Len(e.cmds)] EXCEPT !.queue = Tail(@), !.done = e.signal]
  BY <1>1, <1>3 DEF Executed
<1> HIDE DEF h
<1> DEFINE j == f[Len(e.cmds)]
           Same(m) == /\ DOMAIN m = Fields /\ m.slot = g.slot /\ m.back = g.back /\ m.counter = g.counter
                      /\ m.done = g.done /\ m.queue = g.queue /\ m.fences = g.fences /\ m.lists = g.lists
                      /\ m.held = g.held
           S == {k \in Nat : k <= Len(e.cmds) => Same(f[k])}
<1>4. 0 \in S
  BY <1>3 DEF Device
<1>5. ASSUME NEW k \in Nat, k \in S PROVE k + 1 \in S
  <2> SUFFICES ASSUME k + 1 <= Len(e.cmds) PROVE Same(f[k + 1])
    OBVIOUS
  <2>1. Same(f[k]) /\ k + 1 \in 1 .. Len(e.cmds) /\ (k + 1) - 1 = k
    BY <1>2, <1>5
  <2>2. f[k + 1] = Effect(e.cmds[k + 1], f[k])
    BY <1>3, <2>1
  <2> DEFINE c == e.cmds[k + 1]
             m == f[k]
  <2>3. f[k + 1] = Effect(c, m) /\ Same(m)
    BY <2>1, <2>2
  <2> HIDE DEF c, m
  <2> DEFINE n == Effect(c, m)
  <2>4. /\ DOMAIN n = Fields /\ n.slot = m.slot /\ n.back = m.back /\ n.counter = m.counter
        /\ n.done = m.done /\ n.queue = m.queue /\ n.fences = m.fences /\ n.lists = m.lists /\ n.held = m.held
    BY <2>3, EffectGives, ZenonT(60)
  <2> HIDE DEF n
  <2>5. Same(n)
    BY <2>3, <2>4
  <2> QED BY <2>3, <2>5 DEF n
<1>6. \A k \in 0 .. Len(e.cmds) : Same(f[k])
  <2> HIDE DEF S, Same
  <2>1. Nat \subseteq S
    BY <1>4, <1>5, SetInduction
  <2>2. \A k \in 0 .. Len(e.cmds) : k \in Nat /\ k <= Len(e.cmds)
    BY <1>2
  <2> QED BY <2>1, <2>2 DEF S
<1>7. Same(j)
  BY <1>2, <1>3, <1>6
<1>8. /\ DOMAIN h = Fields /\ h.queue = Tail(g.queue) /\ h.done = e.signal
      /\ h.slot = g.slot /\ h.back = g.back /\ h.counter = g.counter
      /\ h.fences = g.fences /\ h.lists = g.lists /\ h.held = g.held
      /\ h.states = j.states /\ h.uploaded = j.uploaded /\ h.faults = j.faults
  <2>1. h = [j EXCEPT !.queue = Tail(@), !.done = e.signal]
    BY <1>3e
  <2> HIDE DEF j
  <2> QED BY <1>7, <2>1 DEF Fields
<1>9. Device(h)
  BY <1>1, <1>2, <1>8 DEF Device, HasLists
<1>10. /\ f[0] = g /\ \A k \in 0 .. Len(e.cmds) : DOMAIN f[k] = Fields
       /\ \A k \in 1 .. Len(e.cmds) : f[k] = Effect(e.cmds[k], f[k - 1])
       /\ h.states = f[Len(e.cmds)].states
       /\ h.uploaded = f[Len(e.cmds)].uploaded
       /\ h.faults = f[Len(e.cmds)].faults
  BY <1>3, <1>6, <1>8
<1> QED BY <1>8, <1>9, <1>10 DEF h, e

LEMMA CreatedGives ==
    LET h == Created(1)
    IN  /\ Device(h) /\ h.counter = 0 /\ h.done = 0 /\ h.queue = << >> /\ h.fences = [s \in Slots |-> 0]
        /\ \A s \in Slots : ~h.lists[s].open
        /\ h.states = AtRest(SwapChain("window", 0)) /\ h.uploaded = {} /\ h.faults = {}
<1> DEFINE h == Created(1)
           l == [open |-> FALSE, cmds |-> << >>]
<1>1. /\ DOMAIN h = Fields /\ h.slot = 0 /\ h.back = 0 /\ h.counter = 0 /\ h.done = 0 /\ h.queue = << >>
      /\ h.fences = [s \in Slots |-> 0] /\ h.lists = [s \in Slots |-> l]
      /\ h.states = AtRest(SwapChain("window", 0)) /\ h.uploaded = {} /\ h.faults = {}
  BY DEF Created, Fields
<1>2. l.cmds \in Seq(Commands) /\ DOMAIN l = {"open", "cmds"} /\ ~l.open
  OBVIOUS
<1> HIDE DEF h, l
<1>3. HasLists(h) /\ \A s \in Slots : ~h.lists[s].open
  BY <1>1, <1>2 DEF HasLists
<1>4. 0 \in Slots /\ 0 \in 0 .. BackBuffers - 1
  BY DeviceAssumption DEF Slots
<1>5. Device(h)
  BY <1>1, <1>3, <1>4 DEF Device
<1> QED BY <1>1, <1>3, <1>5 DEF h
------------------------------------------------------------------------------
(* What a list does to the states of all resources there may be: a state   *)
(* for every point between two commands, each finding its resource as it   *)
(* expects.                                                                *)
Maps == [Resources -> States]
Puts(m, c) == [m EXCEPT ![c.res] = c.to]
Traces(t, a, cmds, b) ==
    /\ t \in [0 .. Len(cmds) -> Maps] /\ t[0] = a /\ t[Len(cmds)] = b
    /\ \A k \in 1 .. Len(cmds) : t[k - 1][cmds[k].res] = cmds[k].from /\ t[k] = Puts(t[k - 1], cmds[k])
Leads(a, cmds, b) == \E t : Traces(t, a, cmds, b)

LEMMA LeadsNothing ==
    ASSUME NEW a \in Maps PROVE Leads(a, << >>, a)
<1>1. Traces([k \in 0 .. 0 |-> a], a, << >>, a)
  BY DEF Traces
<1> QED BY <1>1 DEF Leads

LEMMA LeadsOne ==
    ASSUME NEW a \in Maps, NEW c \in Commands, a[c.res] = c.from
    PROVE  Puts(a, c) \in Maps /\ Leads(a, << c >>, Puts(a, c))
<1>1. Puts(a, c) \in Maps
  BY DEF Puts, Maps, Commands
<1> DEFINE t == [k \in 0 .. 1 |-> IF k = 0 THEN a ELSE Puts(a, c)]
           s == << c >>
<1>2. Len(s) = 1 /\ s[1] = c
  OBVIOUS
<1>3. t \in [0 .. 1 -> Maps] /\ t[0] = a /\ t[1] = Puts(a, c)
  BY <1>1
<1> HIDE DEF s, t
<1>4. \A k \in 1 .. Len(s) : t[k - 1][s[k].res] = s[k].from /\ t[k] = Puts(t[k - 1], s[k])
  <2> SUFFICES ASSUME NEW k \in 1 .. Len(s)
               PROVE  t[k - 1][s[k].res] = s[k].from /\ t[k] = Puts(t[k - 1], s[k])
    OBVIOUS
  <2>1. k = 1 /\ k - 1 = 0
    BY <1>2
  <2> QED BY <1>2, <1>3, <2>1
<1>5. Traces(t, a, s, Puts(a, c))
  BY <1>2, <1>3, <1>4 DEF Traces
<1> QED BY <1>1, <1>5 DEF Leads, s

LEMMA LeadsOn ==
    ASSUME NEW a, NEW b, NEW d, NEW p \in Seq(Commands), NEW q \in Seq(Commands),
           Leads(a, p, b), Leads(b, q, d)
    PROVE  p \o q \in Seq(Commands) /\ Leads(a, p \o q, d)
<1>1. PICK t : Traces(t, a, p, b)
  BY DEF Leads
<1>2. PICK u : Traces(u, b, q, d)
  BY DEF Leads
<1> DEFINE m == Len(p)
           n == Len(q)
           s == p \o q
           v == [k \in 0 .. m + n |-> IF k <= m THEN t[k] ELSE u[k - m]]
<1>3. /\ m \in Nat /\ n \in Nat /\ s \in Seq(Commands) /\ Len(s) = m + n
      /\ \A k \in 1 .. m : s[k] = p[k]
      /\ \A k \in 1 .. m + n : k > m => s[k] = q[k - m]
  BY ConcatProperties, LenProperties
<1>4. /\ t \in [0 .. m -> Maps] /\ t[0] = a /\ t[m] = b
      /\ \A k \in 1 .. m : t[k - 1][p[k].res] = p[k].from /\ t[k] = Puts(t[k - 1], p[k])
  BY <1>1 DEF Traces
<1>5. /\ u \in [0 .. n -> Maps] /\ u[0] = b /\ u[n] = d
      /\ \A k \in 1 .. n : u[k - 1][q[k].res] = q[k].from /\ u[k] = Puts(u[k - 1], q[k])
  BY <1>2 DEF Traces
<1> HIDE DEF m, n, s
<1>6. (\A k \in 0 .. m : v[k] = t[k]) /\ \A k \in 0 .. n : v[m + k] = u[k]
  <2>1. \A k \in 0 .. m : v[k] = t[k]
    BY <1>3
  <2>2. ASSUME NEW k \in 0 .. n PROVE v[m + k] = u[k]
    <3>1. m + k \in 0 .. m + n /\ (m + k <= m => k = 0) /\ (m + k) - m = k /\ (k = 0 => m + k = m)
      BY <1>3
    <3> QED BY <1>4, <1>5, <3>1
  <2> QED BY <2>1, <2>2
<1>7. v \in [0 .. m + n -> Maps]
  <2> SUFFICES ASSUME NEW k \in 0 .. m + n PROVE (IF k <= m THEN t[k] ELSE u[k - m]) \in Maps
    OBVIOUS
  <2>1. k <= m => k \in 0 .. m
    BY <1>3
  <2>2. ~(k <= m) => k - m \in 0 .. n
    BY <1>3
  <2> QED BY <1>4, <1>5, <2>1, <2>2
<1> HIDE DEF v
<1>8. ASSUME NEW k \in 1 .. m + n
      PROVE  v[k - 1][s[k].res] = s[k].from /\ v[k] = Puts(v[k - 1], s[k])
  <2>1. CASE k <= m
    <3>1. k \in 1 .. m /\ k - 1 \in 0 .. m /\ k \in 0 .. m
      BY <1>3, <2>1
    <3> QED BY <1>3, <1>4, <1>6, <3>1
  <2>2. CASE k > m
    <3> DEFINE i == k - m
    <3>1. i \in 1 .. n /\ i - 1 \in 0 .. n /\ i \in 0 .. n /\ m + i = k /\ m + (i - 1) = k - 1
      BY <1>3, <2>2
    <3>2. s[k] = q[i]
      BY <1>3, <2>2
    <3> HIDE DEF i
    <3>3. v[k] = u[i] /\ v[k - 1] = u[i - 1]
      BY <1>6, <3>1
    <3> QED BY <1>5, <3>1, <3>2, <3>3
  <2> QED BY <1>3, <2>1, <2>2
<1>9. v[0] = a /\ v[m + n] = d
  BY <1>3, <1>4, <1>5, <1>6
<1>10. Traces(v, a, s, d)
  BY <1>3, <1>7, <1>8, <1>9 DEF Traces
<1> QED BY <1>3, <1>10 DEF Leads, s

(* Commands that find and leave their resource in the same state.          *)
Idles(a, cmds) == \A k \in 1 .. Len(cmds) : cmds[k].from = cmds[k].to /\ a[cmds[k].res] = cmds[k].to

LEMMA LeadsNowhere ==
    ASSUME NEW a \in Maps, NEW cmds \in Seq(Commands), Idles(a, cmds)
    PROVE  Leads(a, cmds, a)
<1>1. Len(cmds) \in Nat /\ \A k \in 1 .. Len(cmds) : cmds[k] \in Commands
  BY LenProperties, ElementOfSeq
<1> DEFINE t == [k \in 0 .. Len(cmds) |-> a]
<1>2. ASSUME NEW k \in 1 .. Len(cmds)
      PROVE  t[k - 1][cmds[k].res] = cmds[k].from /\ t[k] = Puts(t[k - 1], cmds[k])
  <2>1. k - 1 \in 0 .. Len(cmds) /\ k \in 0 .. Len(cmds)
    BY <1>1
  <2>2. t[k - 1] = a /\ t[k] = a
    BY <2>1
  <2>3. cmds[k].res \in Resources
    BY <1>1 DEF Commands
  <2>4. Puts(a, cmds[k]) = a
    BY <2>3 DEF Idles, Puts, Maps
  <2> QED BY <2>2, <2>4 DEF Idles
<1>3. t \in [0 .. Len(cmds) -> Maps] /\ t[0] = a /\ t[Len(cmds)] = a
  BY <1>1
<1> HIDE DEF t
<1> QED BY <1>2, <1>3 DEF Leads, Traces
------------------------------------------------------------------------------
(* Frame graphs with a colour and a depth buffer: the imported colour ends *)
(* as a render target, the depth buffer stays writable.                    *)
Draws(cmds, color, M) ==
    /\ cmds \in Seq(Commands)
    /\ \A k \in 1 .. Len(cmds) : /\ cmds[k].res = color /\ cmds[k].from = "target" /\ cmds[k].to = "target"
                                 /\ cmds[k].copy = FALSE /\ cmds[k].mesh \in M

(* A list that copies nothing, on some resources, drawing some meshes.     *)
Renders(cmds, R, M) ==
    /\ cmds \in Seq(Commands)
    /\ \A k \in 1 .. Len(cmds) : cmds[k].res \in R /\ cmds[k].copy = FALSE /\ cmds[k].mesh \in M

ColorNeeds == << [h |-> 1, to |-> "target"] >>
BothNeeds == << [h |-> 1, to |-> "target"], [h |-> 2, to |-> "depth"] >>

Imports(color, depth, st) ==
    << [res |-> color, state |-> st, back |-> TRUE], [res |-> depth, state |-> "depth", back |-> FALSE] >>

Pairs(color, depth, a) ==
    /\ color \in Resources /\ depth \in Resources /\ color # depth
    /\ a \in Maps /\ a[depth] = "depth"

Colored(a, color, st) == [a EXCEPT ![color] = st]

RunAt(run, color, depth, a, M, st) ==
    /\ run = [res |-> Imports(color, depth, st), cmds |-> run.cmds] /\ st \in States
    /\ Renders(run.cmds, {color, depth}, M) /\ Leads(a, run.cmds, Colored(a, color, st))

LEMMA RendersOn ==
    ASSUME NEW R, NEW M, NEW p, NEW q, Renders(p, R, M), Renders(q, R, M)
    PROVE  Renders(p \o q, R, M)
<1>1. p \in Seq(Commands) /\ q \in Seq(Commands)
  BY DEF Renders
<1> DEFINE s == p \o q
<1>2. /\ s \in Seq(Commands) /\ Len(s) = Len(p) + Len(q) /\ Len(p) \in Nat /\ Len(q) \in Nat
      /\ \A k \in 1 .. Len(p) : s[k] = p[k]
      /\ \A k \in 1 .. Len(p) + Len(q) : k > Len(p) => s[k] = q[k - Len(p)]
  BY <1>1, ConcatProperties, LenProperties
<1> HIDE DEF s
<1>3. ASSUME NEW k \in 1 .. Len(s) PROVE s[k].res \in R /\ s[k].copy = FALSE /\ s[k].mesh \in M
  <2>1. CASE k <= Len(p)
    <3>1. k \in 1 .. Len(p)
      BY <1>2, <2>1
    <3> QED BY <1>2, <3>1 DEF Renders
  <2>2. CASE k > Len(p)
    <3>1. k - Len(p) \in 1 .. Len(q) /\ k \in 1 .. Len(p) + Len(q)
      BY <1>2, <2>2
    <3>2. s[k] = q[k - Len(p)]
      BY <1>2, <2>2, <3>1
    <3> QED BY <3>1, <3>2 DEF Renders
  <2>3. k <= Len(p) \/ k > Len(p)
    BY <1>2
  <2> QED BY <2>1, <2>2, <2>3
<1> QED BY <1>2, <1>3 DEF Renders, s

LEMMA StateChanged ==
    ASSUME NEW r, NEW s, NEW t, NEW b
    PROVE  [[res |-> r, state |-> s, back |-> b] EXCEPT !.state = t] = [res |-> r, state |-> t, back |-> b]
OBVIOUS

LEMMA ImportChanged ==
    ASSUME NEW r, NEW s, NEW t, NEW b, NEW y
    PROVE  [<< [res |-> r, state |-> s, back |-> b], y >> EXCEPT ![1].state = t]
             = << [res |-> r, state |-> t, back |-> b], y >>
<1> DEFINE x == [res |-> r, state |-> s, back |-> b]
           z == [res |-> r, state |-> t, back |-> b]
<1>1. [x EXCEPT !.state = t] = z
  BY StateChanged
<1> HIDE DEF x, z
<1>2. [<< x, y >> EXCEPT ![1].state = t] = << [x EXCEPT !.state = t], y >>
  OBVIOUS
<1> QED BY <1>1, <1>2 DEF x, z

LEMMA ImportsChanged ==
    ASSUME NEW r, NEW d, NEW s, NEW t
    PROVE  [Imports(r, d, s) EXCEPT ![1].state = t] = Imports(r, d, t)
<1> DEFINE y == [res |-> d, state |-> "depth", back |-> FALSE]
           b == TRUE
<1>1. Imports(r, d, s) = << [res |-> r, state |-> s, back |-> b], y >>
  BY DEF Imports
<1>2. Imports(r, d, t) = << [res |-> r, state |-> t, back |-> b], y >>
  BY DEF Imports
<1> HIDE DEF y, b
<1> QED BY <1>1, <1>2, ImportChanged

LEMMA WantedColor ==
    ASSUME NEW run, NEW color, NEW depth, NEW a, NEW M, NEW now, Pairs(color, depth, a), 0 \in M,
           RunAt(run, color, depth, a, M, now)
    PROVE  RunAt(Wanted(run, 1, "target"), color, depth, a, M, "target")
<1> DEFINE c == Barrier(color, now, "target")
           b == Colored(a, color, now)
           n == Wanted(run, 1, "target")
<1>0. now \in States /\ "target" \in States
  BY DEF RunAt, States
<1>1. CASE now = "target"
  <2>1. run.res[1].state = "target"
    BY <1>1 DEF RunAt, Imports
  <2>2. n = run
    BY <2>1 DEF Wanted
  <2> QED BY <1>1, <2>2
<1>2. CASE now # "target"
  <2>1. run.res = Imports(color, depth, now)
    BY DEF RunAt
  <2>2. run.res[1] = [res |-> color, state |-> now, back |-> TRUE]
    BY <2>1 DEF Imports
  <2>3. n = [res |-> [run.res EXCEPT ![1].state = "target"], cmds |-> Append(run.cmds, c)]
    BY <1>2, <2>2 DEF Wanted
  <2>4. [run.res EXCEPT ![1].state = "target"] = Imports(color, depth, "target")
    BY <2>1, ImportsChanged
  <2>5. c \in Commands /\ c.res = color /\ c.from = now /\ c.to = "target" /\ c.mesh = 0 /\ c.copy = FALSE
    BY <1>0 DEF Barrier, Commands, Pairs
  <2> HIDE DEF c, n
  <2>6. run.cmds \in Seq(Commands) /\ Leads(a, run.cmds, b)
    BY DEF RunAt, Renders
  <2>7. Append(run.cmds, c) = run.cmds \o << c >> /\ << c >> \in Seq(Commands)
    BY <2>5, <2>6
  <2>8. b \in Maps /\ b[color] = now /\ Puts(b, c) = Colored(a, color, "target")
    BY <1>0, <2>5 DEF Colored, Pairs, Maps, Puts
  <2> HIDE DEF b
  <2>9. Leads(b, << c >>, Colored(a, color, "target"))
    BY <2>5, <2>8, LeadsOne
  <2>10. Leads(a, run.cmds \o << c >>, Colored(a, color, "target"))
    BY <2>6, <2>7, <2>9, LeadsOn
  <2>11. Renders(<< c >>, {color, depth}, M)
    BY <2>5, <2>7 DEF Renders
  <2>12. Renders(run.cmds \o << c >>, {color, depth}, M)
    BY <2>11, RendersOn DEF RunAt
  <2>13. n = [res |-> Imports(color, depth, "target"), cmds |-> run.cmds \o << c >>]
    BY <2>3, <2>4, <2>7
  <2>14. n.cmds = run.cmds \o << c >>
    BY <2>13
  <2> QED BY <1>0, <2>10, <2>12, <2>13, <2>14 DEF RunAt, n
<1> QED BY <1>1, <1>2

LEMMA WantedDepth ==
    ASSUME NEW run, NEW color, NEW depth, NEW a, NEW M, NEW now, RunAt(run, color, depth, a, M, now)
    PROVE  Wanted(run, 2, "depth") = run /\ Restored(run, 1) = run /\ Restored(run, 2) = run
<1>1. run.res = Imports(color, depth, now)
  BY DEF RunAt
<1>2. run.res[1].back = TRUE /\ run.res[2].state = "depth" /\ run.res[2].back = FALSE
  BY <1>1 DEF Imports
<1> QED BY <1>2 DEF Wanted, Restored

LEMMA ReadyColor ==
    ASSUME NEW run, NEW color, NEW depth, NEW a, NEW M, NEW now, Pairs(color, depth, a), 0 \in M,
           RunAt(run, color, depth, a, M, now), NEW needs \in {ColorNeeds, BothNeeds}
    PROVE  RunAt(Ready(run, needs), color, depth, a, M, "target")
<1>1. /\ Len(needs) \in {1, 2} /\ needs[1].h = 1 /\ needs[1].to = "target"
      /\ Len(needs) = 2 => needs[2].h = 2 /\ needs[2].to = "depth"
  BY DEF ColorNeeds, BothNeeds
<1>2. Len(needs) \in Nat
  BY <1>1
<1>3. PICK f : /\ Ready(run, needs) = f[Len(needs)] /\ f[0] = run
               /\ \A k \in 1 .. Len(needs) : f[k] = Wanted(f[k - 1], needs[k].h, needs[k].to)
  BY <1>2, ReadyRun
<1>4. f[1] = Wanted(run, 1, "target")
  <2>1. 1 \in 1 .. Len(needs) /\ 1 - 1 = 0
    BY <1>1
  <2> QED BY <1>1, <1>3, <2>1
<1>5. RunAt(f[1], color, depth, a, M, "target")
  BY <1>4, WantedColor
<1>6. CASE Len(needs) = 2
  <2>1. 2 \in 1 .. Len(needs) /\ 2 - 1 = 1
    BY <1>6
  <2>2. f[2] = Wanted(f[1], 2, "depth")
    BY <1>1, <1>3, <1>6, <2>1
  <2>3. f[2] = f[1]
    BY <1>5, <2>2, WantedDepth
  <2> QED BY <1>3, <1>5, <1>6, <2>3
<1>7. CASE Len(needs) = 1
  BY <1>3, <1>5, <1>7
<1> QED BY <1>1, <1>6, <1>7

LEMMA DrawsRender ==
    ASSUME NEW color, NEW depth, NEW M, NEW cmds, Draws(cmds, color, M), NEW a \in Maps, a[color] = "target"
    PROVE  Renders(cmds, {color, depth}, M) /\ Leads(a, cmds, a)
<1>1. Renders(cmds, {color, depth}, M) /\ cmds \in Seq(Commands)
  BY DEF Draws, Renders
<1>2. Idles(a, cmds)
  BY DEF Draws, Idles
<1> QED BY <1>1, <1>2, LeadsNowhere

Passing(p, color, M) == p.needs \in {ColorNeeds, BothNeeds} /\ Draws(p.cmds, color, M)

LEMMA PassColor ==
    ASSUME NEW run, NEW color, NEW depth, NEW a, NEW M, NEW now, Pairs(color, depth, a), 0 \in M,
           RunAt(run, color, depth, a, M, now), NEW p, Passing(p, color, M)
    PROVE  RunAt(RunPass(run, p), color, depth, a, M, "target")
<1> DEFINE r == Ready(run, p.needs)
           b == Colored(a, color, "target")
<1>1. RunAt(r, color, depth, a, M, "target")
  BY ReadyColor DEF Passing
<1> HIDE DEF r
<1>2. RunPass(run, p) = [r EXCEPT !.cmds = @ \o p.cmds]
  BY DEF RunPass, r
<1>3. r = [res |-> Imports(color, depth, "target"), cmds |-> r.cmds]
  BY <1>1 DEF RunAt
<1>4. RunPass(run, p) = [res |-> Imports(color, depth, "target"), cmds |-> r.cmds \o p.cmds]
  <2> DEFINE m == r.cmds
             i == Imports(color, depth, "target")
  <2>1. r = [res |-> i, cmds |-> m] /\ RunPass(run, p) = [r EXCEPT !.cmds = m \o p.cmds]
    BY <1>2, <1>3
  <2> HIDE DEF m, i
  <2>2. RunPass(run, p) = [res |-> i, cmds |-> m \o p.cmds]
    BY <2>1
  <2> QED BY <2>2 DEF m, i
<1>5. b \in Maps /\ b[color] = "target"
  BY DEF Colored, Pairs, Maps, States
<1> HIDE DEF b
<1>6. Renders(p.cmds, {color, depth}, M) /\ Leads(b, p.cmds, b)
  BY <1>5, DrawsRender DEF Passing
<1>7. Renders(r.cmds, {color, depth}, M) /\ Leads(a, r.cmds, b)
  BY <1>1 DEF RunAt, b
<1>8. Renders(r.cmds \o p.cmds, {color, depth}, M)
  BY <1>6, <1>7, RendersOn
<1>9. Leads(a, r.cmds \o p.cmds, b)
  BY <1>6, <1>7, LeadsOn DEF Renders
<1> QED BY <1>4, <1>8, <1>9 DEF RunAt, b, States

LEMMA PassesColor ==
    ASSUME NEW run, NEW color, NEW depth, NEW a, NEW M, NEW now, Pairs(color, depth, a), 0 \in M,
           RunAt(run, color, depth, a, M, now), NEW passes, Len(passes) \in Nat \ {0},
           \A k \in 1 .. Len(passes) : Passing(passes[k], color, M)
    PROVE  RunAt(RunAll(run, passes), color, depth, a, M, "target")
<1>1. PICK f : /\ RunAll(run, passes) = f[Len(passes)] /\ f[0] = run
               /\ \A k \in 1 .. Len(passes) : f[k] = RunPass(f[k - 1], passes[k])
  BY PassesRun
<1> DEFINE Good(k) == \E s : RunAt(f[k], color, depth, a, M, s) /\ (k # 0 => s = "target")
           S == {k \in Nat : k <= Len(passes) => Good(k)}
<1>2. 0 \in S
  BY <1>1
<1>3. ASSUME NEW k \in Nat, k \in S PROVE k + 1 \in S
  <2> SUFFICES ASSUME k + 1 <= Len(passes) PROVE Good(k + 1)
    OBVIOUS
  <2>1. k + 1 \in 1 .. Len(passes) /\ (k + 1) - 1 = k /\ k <= Len(passes)
    OBVIOUS
  <2>2. PICK s : RunAt(f[k], color, depth, a, M, s)
    BY <1>3, <2>1
  <2>3. f[k + 1] = RunPass(f[k], passes[k + 1]) /\ Passing(passes[k + 1], color, M)
    BY <1>1, <2>1
  <2>4. RunAt(f[k + 1], color, depth, a, M, "target")
    BY <2>2, <2>3, PassColor
  <2> QED BY <2>4
<1>4. Good(Len(passes))
  <2> HIDE DEF S, Good
  <2>1. Len(passes) \in S
    BY <1>2, <1>3, SetInduction
  <2> QED BY <2>1 DEF S
<1> QED BY <1>1, <1>4

LEMMA RestoredColor ==
    ASSUME NEW run, NEW color, NEW depth, NEW a, NEW M, NEW now, RunAt(run, color, depth, a, M, now)
    PROVE  AllRestored(run) = run
<1> DEFINE order == [h \in 1 .. Len(run.res) |-> h]
<1>1. run.res = Imports(color, depth, now)
  BY DEF RunAt
<1>2. Len(run.res) = 2
  BY <1>1 DEF Imports
<1>3. Len(order) = 2 /\ order[1] = 1 /\ order[2] = 2
  BY <1>2
<1>4. Len(order) \in Nat
  BY <1>3
<1>5. PICK f : /\ AllRestored(run) = f[Len(order)] /\ f[0] = run
               /\ \A k \in 1 .. Len(order) : f[k] = Restored(f[k - 1], order[k])
  BY <1>4, RestoredRun
<1> HIDE DEF order
<1>6. 1 \in 1 .. Len(order) /\ 2 \in 1 .. Len(order) /\ 1 - 1 = 0 /\ 2 - 1 = 1
  BY <1>3
<1>7. f[1] = Restored(run, 1)
  BY <1>3, <1>5, <1>6
<1>8. f[1] = run
  BY <1>7, WantedDepth
<1>9. f[2] = Restored(f[1], 2)
  BY <1>3, <1>5, <1>6
<1>10. f[2] = run
  BY <1>8, <1>9, WantedDepth
<1> QED BY <1>3, <1>5, <1>10

(* What a graph over a colour and its depth buffer records.                *)
GraphCmds(graph) == AllRestored(RunAll([res |-> graph.res, cmds |-> << >>], graph.passes)).cmds

LEMMA GraphRenders ==
    ASSUME NEW graph, NEW color, NEW depth, NEW a, NEW M, NEW now \in States,
           Pairs(color, depth, a), a[color] = now, 0 \in M,
           graph.res = Imports(color, depth, now), Len(graph.passes) \in Nat \ {0},
           \A k \in 1 .. Len(graph.passes) : Passing(graph.passes[k], color, M)
    PROVE  /\ Renders(GraphCmds(graph), {color, depth}, M)
           /\ Leads(a, GraphCmds(graph), Colored(a, color, "target"))
<1> DEFINE run == [res |-> graph.res, cmds |-> << >>]
<1>1. RunAt(run, color, depth, a, M, now)
  <2>1. Renders(<< >>, {color, depth}, M)
    BY DEF Renders
  <2>2. Colored(a, color, now) = a
    BY DEF Colored, Pairs, Maps
  <2>3. Leads(a, << >>, a)
    BY LeadsNothing DEF Pairs
  <2> QED BY <2>1, <2>2, <2>3 DEF RunAt
<1> DEFINE passes == graph.passes
           all == RunAll(run, passes)
<1>2. Len(passes) \in Nat \ {0} /\ \A k \in 1 .. Len(passes) : Passing(passes[k], color, M)
  OBVIOUS
<1>3. GraphCmds(graph) = AllRestored(all).cmds
  BY DEF GraphCmds
<1> HIDE DEF run, passes
<1>4. RunAt(all, color, depth, a, M, "target")
  BY <1>1, <1>2, PassesColor
<1> HIDE DEF all
<1>5. AllRestored(all) = all
  BY <1>4, RestoredColor
<1> QED BY <1>3, <1>4, <1>5 DEF RunAt
------------------------------------------------------------------------------
(* Meshes.  U is what the GPU has or will have copied before a list, and   *)
(* Copied what the list copies itself.                                     *)
Copied(cmds) == {cmds[k].mesh : k \in {j \in 1 .. Len(cmds) : cmds[j].copy}}
Fed(U, cmds) ==
    \A k \in 1 .. Len(cmds) :
      \/ cmds[k].copy \/ cmds[k].mesh = 0 \/ cmds[k].mesh \in U
      \/ \E j \in 1 .. k - 1 : cmds[j].copy /\ cmds[j].mesh = cmds[k].mesh

Uses(cmds, D) == \A k \in 1 .. Len(cmds) : cmds[k].res \in D
Rest == [r \in Resources |-> r[4]]

(* A list that takes the resources of D from rest to a, where the meshes   *)
(* of K may be drawn next.                                                 *)
ListOK(cmds, a, D, U, K) ==
    /\ cmds \in Seq(Commands) /\ Leads(Rest, cmds, a) /\ a \in Maps
    /\ Uses(cmds, D) /\ Fed(U, cmds) /\ K \subseteq U \union Copied(cmds)

LEMMA RestMaps == Rest \in Maps
BY DEF Rest, Maps, Resources, States

LEMMA Joined ==
    ASSUME NEW p \in Seq(Commands), NEW q \in Seq(Commands)
    PROVE  /\ p \o q \in Seq(Commands) /\ Len(p) \in Nat /\ Len(q) \in Nat /\ Len(p \o q) = Len(p) + Len(q)
           /\ \A k \in 1 .. Len(p) : (p \o q)[k] = p[k]
           /\ \A k \in 1 .. Len(q) : (p \o q)[Len(p) + k] = q[k]
           /\ \A k \in 1 .. Len(p \o q) : k \in 1 .. Len(p) \/ (k - Len(p) \in 1 .. Len(q) /\ (p \o q)[k] = q[k - Len(p)])
<1> DEFINE s == p \o q
<1>1. /\ s \in Seq(Commands) /\ Len(s) = Len(p) + Len(q) /\ Len(p) \in Nat /\ Len(q) \in Nat
      /\ \A k \in 1 .. Len(p) : s[k] = p[k]
      /\ \A k \in 1 .. Len(p) + Len(q) : k > Len(p) => s[k] = q[k - Len(p)]
  BY ConcatProperties, LenProperties
<1> HIDE DEF s
<1>2. ASSUME NEW k \in 1 .. Len(s)
      PROVE  k \in 1 .. Len(p) \/ (k - Len(p) \in 1 .. Len(q) /\ s[k] = q[k - Len(p)])
  BY <1>1
<1>3. ASSUME NEW k \in 1 .. Len(q) PROVE s[Len(p) + k] = q[k]
  <2>1. Len(p) + k \in 1 .. Len(p) + Len(q) /\ Len(p) + k > Len(p) /\ (Len(p) + k) - Len(p) = k
    BY <1>1
  <2> QED BY <1>1, <2>1
<1> QED BY <1>1, <1>2, <1>3 DEF s

LEMMA CopiedOn ==
    ASSUME NEW p \in Seq(Commands), NEW q \in Seq(Commands)
    PROVE  Copied(p \o q) = Copied(p) \union Copied(q)
<1> DEFINE s == p \o q
<1>1. /\ Len(p) \in Nat /\ Len(q) \in Nat /\ Len(s) = Len(p) + Len(q)
      /\ \A k \in 1 .. Len(p) : s[k] = p[k]
      /\ \A k \in 1 .. Len(q) : s[Len(p) + k] = q[k]
      /\ \A k \in 1 .. Len(s) : k \in 1 .. Len(p) \/ (k - Len(p) \in 1 .. Len(q) /\ s[k] = q[k - Len(p)])
  BY Joined
<1> HIDE DEF s
<1>2. ASSUME NEW k \in 1 .. Len(s), s[k].copy PROVE s[k].mesh \in Copied(p) \union Copied(q)
  BY <1>1, <1>2 DEF Copied
<1>3. ASSUME NEW k \in 1 .. Len(p), p[k].copy PROVE p[k].mesh \in Copied(s)
  <2>1. k \in 1 .. Len(s) /\ s[k] = p[k]
    BY <1>1
  <2> QED BY <1>3, <2>1 DEF Copied
<1>4. ASSUME NEW k \in 1 .. Len(q), q[k].copy PROVE q[k].mesh \in Copied(s)
  <2>1. Len(p) + k \in 1 .. Len(s) /\ s[Len(p) + k] = q[k]
    BY <1>1
  <2> QED BY <1>4, <2>1 DEF Copied
<1>5. Copied(s) \subseteq Copied(p) \union Copied(q)
  BY <1>2 DEF Copied
<1>6. Copied(p) \subseteq Copied(s) /\ Copied(q) \subseteq Copied(s)
  BY <1>3, <1>4 DEF Copied
<1> QED BY <1>5, <1>6 DEF s

LEMMA FedOn ==
    ASSUME NEW p \in Seq(Commands), NEW q \in Seq(Commands), NEW U, Fed(U, p),
           \A k \in 1 .. Len(q) : q[k].copy \/ q[k].mesh = 0 \/ q[k].mesh \in U \union Copied(p)
    PROVE  Fed(U, p \o q)
<1> DEFINE s == p \o q
<1>1. /\ Len(p) \in Nat /\ Len(q) \in Nat /\ Len(s) = Len(p) + Len(q)
      /\ \A k \in 1 .. Len(p) : s[k] = p[k]
      /\ \A k \in 1 .. Len(s) : k \in 1 .. Len(p) \/ (k - Len(p) \in 1 .. Len(q) /\ s[k] = q[k - Len(p)])
  BY Joined
<1> HIDE DEF s
<1> SUFFICES ASSUME NEW k \in 1 .. Len(s)
             PROVE  \/ s[k].copy \/ s[k].mesh = 0 \/ s[k].mesh \in U
                    \/ \E j \in 1 .. k - 1 : s[j].copy /\ s[j].mesh = s[k].mesh
  BY DEF Fed, s
<1>2. CASE k \in 1 .. Len(p)
  <2>1. s[k] = p[k] /\ \A j \in 1 .. k - 1 : s[j] = p[j]
    BY <1>1, <1>2
  <2> QED BY <1>2, <2>1 DEF Fed
<1>3. CASE k - Len(p) \in 1 .. Len(q) /\ s[k] = q[k - Len(p)]
  <2>1. s[k].copy \/ s[k].mesh = 0 \/ s[k].mesh \in U \/ s[k].mesh \in Copied(p)
    BY <1>3
  <2>2. ASSUME s[k].mesh \in Copied(p) PROVE \E j \in 1 .. k - 1 : s[j].copy /\ s[j].mesh = s[k].mesh
    <3>1. PICK j \in 1 .. Len(p) : p[j].copy /\ p[j].mesh = s[k].mesh
      BY <2>2 DEF Copied
    <3>2. j \in 1 .. k - 1 /\ s[j] = p[j]
      BY <1>1, <1>3
    <3> QED BY <3>1, <3>2
  <2> QED BY <2>1, <2>2
<1> QED BY <1>1, <1>2, <1>3

LEMMA UsesOn ==
    ASSUME NEW p \in Seq(Commands), NEW q \in Seq(Commands), NEW D, Uses(p, D), Uses(q, D)
    PROVE  Uses(p \o q, D)
<1> DEFINE s == p \o q
<1>1. /\ \A k \in 1 .. Len(p) : s[k] = p[k]
      /\ \A k \in 1 .. Len(s) : k \in 1 .. Len(p) \/ (k - Len(p) \in 1 .. Len(q) /\ s[k] = q[k - Len(p)])
  BY Joined
<1> HIDE DEF s
<1>2. Uses(s, D)
  BY <1>1 DEF Uses
<1> QED BY <1>2 DEF s

(* Drawing on.                                                             *)
LEMMA ListRenders ==
    ASSUME NEW cmds, NEW a, NEW D, NEW U, NEW K, ListOK(cmds, a, D, U, K),
           NEW q, NEW b \in Maps, Leads(a, q, b), Renders(q, D, K \union {0})
    PROVE  ListOK(cmds \o q, b, D, U, K)
<1>1. cmds \in Seq(Commands) /\ q \in Seq(Commands)
  BY DEF ListOK, Renders
<1>2. cmds \o q \in Seq(Commands) /\ Leads(Rest, cmds \o q, b)
  BY <1>1, LeadsOn DEF ListOK
<1>3. Uses(cmds \o q, D)
  <2>1. Uses(q, D)
    BY DEF Renders, Uses
  <2> QED BY <1>1, <2>1, UsesOn DEF ListOK
<1>4. Fed(U, cmds \o q)
  <2>1. \A k \in 1 .. Len(q) : q[k].copy \/ q[k].mesh = 0 \/ q[k].mesh \in U \union Copied(cmds)
    BY DEF ListOK, Renders
  <2> QED BY <1>1, <2>1, FedOn DEF ListOK
<1>5. K \subseteq U \union Copied(cmds \o q)
  BY <1>1, CopiedOn DEF ListOK
<1> QED BY <1>2, <1>3, <1>4, <1>5 DEF ListOK

(* Copying on.                                                             *)
LEMMA ListCopies ==
    ASSUME NEW cmds, NEW a, NEW D, NEW U, NEW K, ListOK(cmds, a, D, U, K),
           Depth \in D, a[Depth] = "depth", NEW m \in Nat
    PROVE  << Copy(m) >> \in Seq(Commands) /\ ListOK(cmds \o << Copy(m) >>, a, D, U, K \union {m})
<1> DEFINE c == Copy(m)
           q == << c >>
<1>0. Depth \in Resources
  BY DEF Depth, Resources
<1>1. c \in Commands /\ c.copy = TRUE /\ c.mesh = m /\ c.res = Depth /\ c.from = "depth" /\ c.to = "depth"
  BY <1>0 DEF Copy, Commands, States
<1> HIDE DEF c
<1>2. cmds \in Seq(Commands) /\ q \in Seq(Commands) /\ Len(q) = 1 /\ q[1] = c /\ \A k \in 1 .. Len(q) : q[k] = c
  BY <1>1 DEF ListOK
<1>3. Idles(a, q)
  BY <1>1, <1>2 DEF Idles
<1> HIDE DEF q
<1>4. Leads(a, q, a)
  BY <1>2, <1>3, LeadsNowhere DEF ListOK
<1>5. cmds \o q \in Seq(Commands) /\ Leads(Rest, cmds \o q, a)
  BY <1>2, <1>4, LeadsOn DEF ListOK
<1>6. Uses(cmds \o q, D)
  <2>1. Uses(q, D)
    BY <1>1, <1>2 DEF Uses
  <2> QED BY <1>2, <2>1, UsesOn DEF ListOK
<1>7. Fed(U, cmds \o q)
  <2>1. \A k \in 1 .. Len(q) : q[k].copy
    BY <1>1, <1>2
  <2> QED BY <1>2, <2>1, FedOn DEF ListOK
<1>8. m \in Copied(q)
  <2>1. 1 \in 1 .. Len(q) /\ q[1].copy /\ q[1].mesh = m
    BY <1>1, <1>2
  <2> QED BY <2>1 DEF Copied
<1>9. K \union {m} \subseteq U \union Copied(cmds \o q)
  BY <1>2, <1>8, CopiedOn DEF ListOK
<1> QED BY <1>2, <1>5, <1>6, <1>7, <1>9 DEF ListOK, q, c
------------------------------------------------------------------------------
(* What is drawn.                                                          *)
LEMMA ThoseGives ==
    ASSUME NEW T PROVE Those(T) \in Seq(T \intersect Ents)
<1> DEFINE order == [i \in Ents |-> i]
           E == T \intersect Ents
<1>1. Len(order) \in Nat /\ \A k \in 1 .. Len(order) : order[k] \in Ents
  BY LoopAssumption DEF Ents
<1>2. PICK f : /\ Those(T) = f[Len(order)] /\ f[0] = << >>
               /\ \A k \in 1 .. Len(order) : f[k] = IF order[k] \in T THEN Append(f[k - 1], order[k]) ELSE f[k - 1]
  BY <1>1, ThoseRun
<1> HIDE DEF order, E
<1> DEFINE S == {k \in Nat : k <= Len(order) => f[k] \in Seq(E)}
<1>3. 0 \in S
  <2>1. f[0] = << >>
    BY <1>2
  <2>2. f[0] \in Seq(E)
    BY <2>1
  <2> QED BY <2>2
<1>4. ASSUME NEW k \in Nat, k \in S PROVE k + 1 \in S
  <2> SUFFICES ASSUME k + 1 <= Len(order) PROVE f[k + 1] \in Seq(E)
    OBVIOUS
  <2>1. k + 1 \in 1 .. Len(order) /\ (k + 1) - 1 = k /\ k <= Len(order)
    BY <1>1
  <2>2. f[k] \in Seq(E)
    BY <1>4, <2>1
  <2>3. f[k + 1] = IF order[k + 1] \in T THEN Append(f[k], order[k + 1]) ELSE f[k]
    BY <1>2, <2>1
  <2>4. order[k + 1] \in T => order[k + 1] \in E
    BY <1>1, <2>1 DEF E
  <2> QED BY <2>2, <2>3, <2>4, AppendProperties
<1>5. Len(order) \in S
  BY <1>1, <1>3, <1>4, SetInduction
<1> QED BY <1>1, <1>2, <1>5 DEF E

LEMMA DrawOK ==
    ASSUME NEW r \in Resources, NEW m \in Nat
    PROVE  /\ Draw(r, m) \in Commands /\ Draw(r, m).res = r /\ Draw(r, m).from = "target"
           /\ Draw(r, m).to = "target" /\ Draw(r, m).copy = FALSE /\ Draw(r, m).mesh = m
BY DEF Draw, Commands, States

(* A mesh of the scene, with its textures.                                 *)
LEMMA SceneDrawOK ==
    ASSUME NEW g, NEW r \in Resources, NEW m \in Nat
    PROVE  /\ DrawScene(g, r, m) \in Commands /\ DrawScene(g, r, m).res = r
           /\ DrawScene(g, r, m).from = "target" /\ DrawScene(g, r, m).to = "target"
           /\ DrawScene(g, r, m).copy = FALSE /\ DrawScene(g, r, m).mesh = m
<1> DEFINE c == DrawScene(g, r, m)
           x == TextureOf(g, m)
<1>1. c = [res |-> r, from |-> "target", to |-> "target", mesh |-> m, copy |-> FALSE, tex |-> x]
  BY DEF DrawScene
<1>2. x \in Nat
  BY DEF TextureOf
<1> HIDE DEF c, x
<1>3. c \in Commands
  BY <1>1, <1>2 DEF Commands, States
<1> QED BY <1>1, <1>3 DEF c

LEMMA EachDrawn ==
    ASSUME NEW g, NEW r \in Resources, NEW M \in SUBSET Nat, NEW h, NEW s \in Seq(Ents), \A i \in Ents : h[i] \in M
    PROVE  Draws([k \in 1 .. Len(s) |-> DrawScene(g, r, h[s[k]])], r, M)
<1> DEFINE d == [k \in 1 .. Len(s) |-> DrawScene(g, r, h[s[k]])]
<1>1. Len(s) \in Nat /\ \A k \in 1 .. Len(s) : h[s[k]] \in M /\ h[s[k]] \in Nat
  BY ElementOfSeq, LenProperties
<1>2. \A k \in 1 .. Len(s) : /\ d[k] \in Commands /\ d[k].res = r /\ d[k].from = "target"
                             /\ d[k].to = "target" /\ d[k].copy = FALSE /\ d[k].mesh \in M
  <2> SUFFICES ASSUME NEW k \in 1 .. Len(s)
               PROVE  /\ d[k] \in Commands /\ d[k].res = r /\ d[k].from = "target"
                      /\ d[k].to = "target" /\ d[k].copy = FALSE /\ d[k].mesh \in M
    OBVIOUS
  <2> DEFINE m == h[s[k]]
             c == DrawScene(g, r, m)
  <2>1. m \in M /\ m \in Nat /\ d[k] = c
    BY <1>1
  <2> HIDE DEF m, d
  <2>2. \A n \in Nat : /\ DrawScene(g, r, n) \in Commands /\ DrawScene(g, r, n).res = r
                       /\ DrawScene(g, r, n).from = "target" /\ DrawScene(g, r, n).to = "target"
                       /\ DrawScene(g, r, n).copy = FALSE /\ DrawScene(g, r, n).mesh = n
    BY SceneDrawOK
  <2>3. c \in Commands /\ c.res = r /\ c.from = "target" /\ c.to = "target" /\ c.copy = FALSE /\ c.mesh = m
    BY <2>1, <2>2, Zenon
  <2> HIDE DEF c
  <2> QED BY <2>1, <2>3
<1>3. DOMAIN d = 1 .. Len(s)
  OBVIOUS
<1> HIDE DEF d
<1>4. d \in [1 .. Len(s) -> Commands]
  <2>1. d = [k \in 1 .. Len(s) |-> d[k]]
    BY DEF d
  <2> QED BY <1>2, <2>1
<1>5. d \in Seq(Commands) /\ Len(d) = Len(s)
  BY <1>1, <1>4, <1>3
<1> QED BY <1>2, <1>5 DEF Draws, d

LEMMA OneDrawn ==
    ASSUME NEW r \in Resources, NEW M \in SUBSET Nat, NEW m \in M
    PROVE  Draws(<< Draw(r, m) >>, r, M)
<1> DEFINE c == Draw(r, m)
<1>1. /\ c \in Commands /\ c.res = r /\ c.from = "target"
      /\ c.to = "target" /\ c.copy = FALSE /\ c.mesh = m
  BY DrawOK
<1> HIDE DEF c
<1>2. << c >> \in Seq(Commands) /\ Len(<< c >>) = 1 /\ << c >>[1] = c
  BY <1>1
<1> QED BY <1>1, <1>2 DEF Draws, c

LEMMA NoneDrawn ==
    ASSUME NEW r, NEW M PROVE Draws(<< >>, r, M)
BY DEF Draws

(* Graphs over a colour and a depth buffer.                                *)
PassSet(color, M) == {p \in [needs : {ColorNeeds, BothNeeds}, cmds : Seq(Commands)] : Draws(p.cmds, color, M)}
GraphOn(graph, color, depth, st, M) ==
    /\ DOMAIN graph = {"res", "passes"} /\ graph.res = Imports(color, depth, st)
    /\ graph.passes \in Seq(PassSet(color, M))

LEMMA PassAdded ==
    ASSUME NEW graph, NEW color, NEW depth, NEW now, NEW M, GraphOn(graph, color, depth, now, M),
           NEW needs \in {ColorNeeds, BothNeeds}, NEW cmds, Draws(cmds, color, M)
    PROVE  /\ GraphOn(AddPass(graph, needs, cmds), color, depth, now, M)
           /\ AddPass(graph, needs, cmds).passes # << >>
<1> DEFINE p == [needs |-> needs, cmds |-> cmds]
<1>1. p \in PassSet(color, M)
  BY DEF PassSet, Draws
<1> HIDE DEF p
<1> DEFINE h == AddPass(graph, needs, cmds)
<1>2. h = [graph EXCEPT !.passes = Append(@, p)]
  BY DEF AddPass, p
<1> HIDE DEF h
<1>3. DOMAIN h = {"res", "passes"} /\ h.res = graph.res /\ h.passes = Append(graph.passes, p)
  BY <1>2 DEF GraphOn
<1>4. Append(graph.passes, p) \in Seq(PassSet(color, M)) /\ Append(graph.passes, p) # << >>
  BY <1>1, AppendProperties DEF GraphOn
<1> QED BY <1>3, <1>4 DEF GraphOn, h

LEMMA MeshesAdded ==
    ASSUME NEW graph, NEW color, NEW depth, NEW now, NEW M, GraphOn(graph, color, depth, now, M),
           NEW cmds, Draws(cmds, color, M)
    PROVE  /\ GraphOn(WithMeshes(graph, cmds), color, depth, now, M)
           /\ graph.passes # << >> \/ cmds # << >> => WithMeshes(graph, cmds).passes # << >>
<1>1. WithMeshes(graph, cmds) = IF cmds = << >> THEN graph ELSE AddPass(graph, BothNeeds, cmds)
  BY DEF WithMeshes, BothNeeds
<1>2. BothNeeds \in {ColorNeeds, BothNeeds}
  OBVIOUS
<1> QED BY <1>1, <1>2, PassAdded

LEMMA TwoAppended ==
    ASSUME NEW x, NEW y PROVE Append(<< x >>, y) = << x, y >>
<1> DEFINE E == {x, y}
           s == << x >>
           a == Append(s, y)
           b == << x, y >>
<1>1. s \in Seq(E) /\ Len(s) = 1 /\ s[1] = x
  OBVIOUS
<1>2. b \in Seq(E) /\ Len(b) = 2 /\ b[1] = x /\ b[2] = y
  OBVIOUS
<1>3. y \in E
  OBVIOUS
<1> HIDE DEF s, b, E
<1>4. a \in Seq(E) /\ Len(a) = 2 /\ a[1] = x /\ a[2] = y
  <2>1. /\ a \in Seq(E) /\ Len(a) = Len(s) + 1 /\ a[Len(s) + 1] = y
        /\ \A i \in 1 .. Len(s) : a[i] = s[i]
    <3> HIDE DEF a
    <3>1. s \in Seq(E) /\ y \in E
      BY <1>1, <1>3
    <3>2. /\ Append(s, y) \in Seq(E) /\ Len(Append(s, y)) = Len(s) + 1 /\ Append(s, y)[Len(s) + 1] = y
          /\ \A i \in 1 .. Len(s) : Append(s, y)[i] = s[i]
      BY <3>1, Appended
    <3> QED BY <3>2 DEF a
  <2> HIDE DEF a
  <2> QED BY <1>1, <2>1
<1> HIDE DEF a
<1>5. \A i \in 1 .. 2 : a[i] = b[i]
  BY <1>2, <1>4
<1>6. a = b
  BY <1>2, <1>4, <1>5, SeqEqual
<1> QED BY <1>6 DEF a, b, s

LEMMA Imported2 ==
    ASSUME NEW color, NEW depth, NEW now, NEW M
    PROVE  /\ GraphOn(ImportDepthBuffer(ImportBackBuffer(EmptyGraph, color, now), depth), color, depth, now, M)
           /\ ImportDepthBuffer(ImportBackBuffer(EmptyGraph, color, now), depth).passes = << >>
<1> DEFINE x == [res |-> color, state |-> now, back |-> TRUE]
           y == [res |-> depth, state |-> "depth", back |-> FALSE]
           g == ImportBackBuffer(EmptyGraph, color, now)
           h == ImportDepthBuffer(g, depth)
<1>1. DOMAIN g = {"res", "passes"} /\ g.res = << x >> /\ g.passes = << >>
  <2>1. g = [EmptyGraph EXCEPT !.res = Append(@, x)]
    BY DEF ImportBackBuffer, Import
  <2> HIDE DEF g, x
  <2>2. Append(<< >>, x) = << x >>
    OBVIOUS
  <2> QED BY <2>1, <2>2 DEF EmptyGraph
<1>2. h = [g EXCEPT !.res = Append(@, y)]
  BY DEF ImportDepthBuffer, Import
<1> HIDE DEF g, h, x, y
<1>3. Append(<< x >>, y) = << x, y >>
  BY TwoAppended
<1>4. DOMAIN h = {"res", "passes"} /\ h.res = << x, y >> /\ h.passes = << >>
  BY <1>1, <1>2, <1>3
<1>5. << >> \in Seq(PassSet(color, M))
  OBVIOUS
<1>6. << x, y >> = Imports(color, depth, now)
  BY DEF Imports, x, y
<1>7. GraphOn(h, color, depth, now, M)
  BY <1>4, <1>5, <1>6 DEF GraphOn
<1> QED BY <1>4, <1>7 DEF g, h

LEMMA GraphDraws ==
    ASSUME NEW graph, NEW color, NEW depth, NEW now \in States, NEW M, GraphOn(graph, color, depth, now, M),
           graph.passes # << >>, NEW a, Pairs(color, depth, a), a[color] = now, 0 \in M
    PROVE  /\ Renders(GraphCmds(graph), {color, depth}, M)
           /\ Leads(a, GraphCmds(graph), Colored(a, color, "target"))
<1> DEFINE s == graph.passes
<1>1. s \in Seq(PassSet(color, M)) /\ s # << >> /\ graph.res = Imports(color, depth, now)
  BY DEF GraphOn
<1>2. Len(s) \in Nat \ {0} /\ \A k \in 1 .. Len(s) : s[k] \in PassSet(color, M)
  <2> HIDE DEF s
  <2> QED BY <1>1, LenProperties, EmptySeq, ElementOfSeq
<1>3. \A k \in 1 .. Len(s) : Passing(s[k], color, M)
  BY <1>2 DEF PassSet, Passing
<1> QED BY <1>1, <1>2, <1>3, GraphRenders

(* Executing a graph into the list of the frame.                           *)
Open(g, a, D, U, K) ==
    /\ Device(g) /\ g.lists[g.slot].open
    /\ ListOK(g.lists[g.slot].cmds, a, D, U, K)

LEMMA RecordOpen ==
    ASSUME NEW g, NEW a, NEW D, NEW U, NEW K, Open(g, a, D, U, K),
           NEW q, NEW b \in Maps, Leads(a, q, b), Renders(q, D, K \union {0})
    PROVE  LET h == Record(g, g.slot, q)
           IN  Open(h, b, D, U, K) /\ Kept(g, h) /\ h.states = g.states /\ h.held = g.held
<1> DEFINE h == Record(g, g.slot, q)
<1>1. g.slot \in Slots /\ q \in Seq(Commands)
  BY DEF Open, Device, Renders
<1>2. /\ Kept(g, h) /\ h.states = g.states /\ h.held = g.held
      /\ h.lists[g.slot].cmds = g.lists[g.slot].cmds \o q
  <2>1. Device(g) /\ g.lists[g.slot].open
    BY DEF Open
  <2> DEFINE s == g.slot
  <2>2. s \in Slots /\ g.lists[s].open /\ h = Record(g, s, q)
    BY <1>1, <2>1
  <2> HIDE DEF s, h
  <2>3. /\ Kept(g, h) /\ h.states = g.states /\ h.held = g.held
        /\ h.lists[s].cmds = g.lists[s].cmds \o q
    BY <1>1, <2>1, <2>2, RecordGives, SMTT(30)
  <2> QED BY <2>3 DEF s
<1> HIDE DEF h
<1>3. Device(h) /\ h.slot = g.slot /\ h.lists[h.slot].open
  BY <1>1, <1>2, KeptDevice DEF Open, Kept
<1>4. ListOK(g.lists[g.slot].cmds \o q, b, D, U, K)
  BY ListRenders DEF Open
<1> QED BY <1>2, <1>3, <1>4 DEF Open, h

Target(color, a, D) ==
    Pairs(color, DepthOf(color), a) /\ color \in D /\ DepthOf(color) \in D

GraphFor(graph, color, now, K) ==
    GraphOn(graph, color, DepthOf(color), now, K \union {0}) /\ graph.passes # << >>

(* The list leads further; nothing but lists has changed.                  *)
Opened(g, h, a, D, U, K) == Open(h, a, D, U, K) /\ Kept(g, h) /\ h.states = g.states /\ h.held = g.held

LEMMA ExecuteOpen ==
    ASSUME NEW g, NEW a, NEW D, NEW U, NEW K, Open(g, a, D, U, K),
           NEW color, Target(color, a, D), NEW graph, GraphFor(graph, color, a[color], K)
    PROVE  Opened(g, Execute(g, graph), Colored(a, color, "target"), D, U, K)
<1> DEFINE q == GraphCmds(graph)
           M == K \union {0}
           b == Colored(a, color, "target")
           depth == DepthOf(color)
           now == a[color]
<1>0. /\ Pairs(color, depth, a) /\ color \in D /\ depth \in D /\ now \in States
      /\ GraphOn(graph, color, depth, now, M) /\ 0 \in M /\ graph.passes # << >>
  BY DEF Target, Pairs, Maps, GraphFor
<1>1. Renders(q, {color, depth}, M) /\ Leads(a, q, b)
  <2> HIDE DEF q, b, M, depth
  <2>1. Renders(GraphCmds(graph), {color, depth}, M) /\ Leads(a, GraphCmds(graph), Colored(a, color, "target"))
    <3> HIDE DEF now
    <3>1. a[color] = now
      BY DEF now
    <3> QED BY <1>0, <3>1, GraphDraws
  <2> QED BY <2>1 DEF q, b
<1>2. Execute(g, graph) = Record(g, g.slot, q)
  BY DEF Execute, GraphCmds
<1>3. b \in Maps
  BY DEF Colored, Target, Pairs, Maps, States
<1> HIDE DEF q, b
<1>4. Renders(q, D, M)
  BY <1>0, <1>1 DEF Renders
<1> QED BY <1>1, <1>2, <1>3, <1>4, RecordOpen DEF b, Opened

------------------------------------------------------------------------------
(* The queue.  A host that keeps no promise about meshes may draw any.     *)
Avail(any, S) == IF any THEN Nat ELSE S
Pool(g, k) == g.uploaded \union UNION {Copied(g.queue[j].cmds) : j \in 1 .. k - 1}
Known(g) == Pool(g, Len(g.queue) + 1)

EntryOK(cmds, D, U) ==
    cmds \in Seq(Commands) /\ Leads(Rest, cmds, Rest) /\ Uses(cmds, D) /\ Fed(U, cmds)

QueueOK(g, any) ==
    \A k \in 1 .. Len(g.queue) : EntryOK(g.queue[k].cmds, DOMAIN g.states, Avail(any, Pool(g, k)))

Resting(g) == DOMAIN g.states \subseteq Resources /\ g.states = AtRest(DOMAIN g.states)
Faultless(g, any) == g.faults \subseteq {"texture gone"} \union IF any THEN {"not uploaded"} ELSE {}
Sound(g, any) == Resting(g) /\ Faultless(g, any) /\ QueueOK(g, any)

(* The part of a map that is about D.                                      *)
On(D, m) == [r \in D |-> m[r]]

LEMMA FedMore ==
    ASSUME NEW U, NEW V, U \subseteq V, NEW cmds, Fed(U, cmds) PROVE Fed(V, cmds)
BY DEF Fed

(* One command, where it is expected.                                      *)
Effected(m, n, D, now, c) ==
    /\ DOMAIN n = Fields /\ n.states = On(D, Puts(now, c))
    /\ n.uploaded = IF c.copy THEN m.uploaded \union {c.mesh} ELSE m.uploaded
    /\ n.faults \subseteq m.faults \union {"texture gone", "not uploaded"}
    /\ c.copy \/ c.mesh = 0 \/ c.mesh \in m.uploaded => n.faults \subseteq m.faults \union {"texture gone"}

LEMMA EffectSound ==
    ASSUME NEW m, DOMAIN m = Fields, NEW D \in SUBSET Resources, NEW now \in Maps, NEW c \in Commands,
           m.states = On(D, now), c.res \in D, now[c.res] = c.from
    PROVE  Effected(m, Effect(c, m), D, now, c)
<1> DEFINE n == Effect(c, m)
<1>1. /\ DOMAIN n = Fields
      /\ n.states = IF c.res \in DOMAIN m.states THEN [m.states EXCEPT ![c.res] = c.to] ELSE m.states
      /\ n.uploaded = IF c.copy THEN m.uploaded \union {c.mesh} ELSE m.uploaded
      /\ n.faults = m.faults \union Faults(c, m)
  BY EffectGives
<1> HIDE DEF n
<1>2. DOMAIN m.states = D /\ m.states[c.res] = c.from
  BY DEF On
<1>3. \A r \in D : Puts(now, c)[r] = IF r = c.res THEN c.to ELSE now[r]
  BY DEF Puts, Maps
<1>4. n.states = On(D, Puts(now, c))
  <2>1. n.states = [m.states EXCEPT ![c.res] = c.to]
    BY <1>1, <1>2
  <2>2. n.states = [r \in D |-> IF r = c.res THEN c.to ELSE now[r]]
    BY <1>2, <2>1 DEF On
  <2> QED BY <1>3, <2>2 DEF On
<1>5. /\ Faults(c, m) \subseteq {"texture gone", "not uploaded"}
      /\ c.copy \/ c.mesh = 0 \/ c.mesh \in m.uploaded => Faults(c, m) \subseteq {"texture gone"}
  BY <1>2 DEF Faults
<1> QED BY <1>1, <1>4, <1>5 DEF n, Effected

(* A whole entry.                                                          *)
LEMMA ExecutedSound ==
    ASSUME NEW g, Device(g), g.queue # << >>, NEW any \in BOOLEAN, Sound(g, any)
    PROVE  LET h == Executed(g)
           IN  /\ Resting(h) /\ DOMAIN h.states = DOMAIN g.states /\ Faultless(h, any)
               /\ h.uploaded = g.uploaded \union Copied(g.queue[1].cmds)
<1> DEFINE cmds == g.queue[1].cmds
           h == Executed(g)
           D == DOMAIN g.states
           n == Len(cmds)
           Upto(k) == {cmds[j].mesh : j \in {i \in 1 .. k : cmds[i].copy}}
<1>1. /\ cmds \in Seq(Commands) /\ Leads(Rest, cmds, Rest) /\ Uses(cmds, D)
      /\ any \/ Fed(g.uploaded, cmds)
  <2>1. 1 \in 1 .. Len(g.queue)
    BY Behind DEF Device
  <2>2. EntryOK(cmds, D, Avail(any, Pool(g, 1)))
    BY <2>1 DEF Sound, QueueOK
  <2>3. Pool(g, 1) = g.uploaded
    BY DEF Pool
  <2> QED BY <2>2, <2>3 DEF EntryOK, Avail
<1>2. n \in Nat /\ \A k \in 1 .. n : cmds[k] \in Commands
  BY <1>1, LenProperties, ElementOfSeq
<1>3. PICK f : /\ f[0] = g /\ \A k \in 0 .. n : DOMAIN f[k] = Fields
               /\ \A k \in 1 .. n : f[k] = Effect(cmds[k], f[k - 1])
               /\ h.states = f[n].states /\ h.uploaded = f[n].uploaded /\ h.faults = f[n].faults
  BY ExecutedGives
<1>4. PICK t : Traces(t, Rest, cmds, Rest)
  BY <1>1 DEF Leads
<1>5. /\ t \in [0 .. n -> Maps] /\ t[0] = Rest /\ t[n] = Rest
      /\ \A k \in 1 .. n : t[k - 1][cmds[k].res] = cmds[k].from /\ t[k] = Puts(t[k - 1], cmds[k])
  BY <1>4 DEF Traces
<1>6. D \in SUBSET Resources /\ g.states = On(D, Rest)
  BY DEF Sound, Resting, AtRest, Rest, On
<1> HIDE DEF h, D
<1> DEFINE Fine(k) == /\ f[k].states = On(D, t[k]) /\ Faultless(f[k], any)
                      /\ f[k].uploaded = g.uploaded \union Upto(k)
           S == {k \in Nat : k <= n => Fine(k)}
<1>7. 0 \in S
  <2>1. Upto(0) = {}
    OBVIOUS
  <2> QED BY <1>3, <1>5, <1>6, <2>1 DEF Sound
<1> HIDE DEF cmds
<1>8. ASSUME NEW k \in Nat, k \in S PROVE k + 1 \in S
  <2> SUFFICES ASSUME k + 1 <= n PROVE Fine(k + 1)
    OBVIOUS
  <2>1. k + 1 \in 1 .. n /\ (k + 1) - 1 = k /\ k <= n /\ k \in 0 .. n
    BY <1>2
  <2> DEFINE c == cmds[k + 1]
             m == f[k]
             now == t[k]
  <2>2. Fine(k)
    BY <1>8, <2>1
  <2>3. /\ c \in Commands /\ c.res \in D /\ now \in Maps /\ now[c.res] = c.from /\ DOMAIN m = Fields
        /\ t[k + 1] = Puts(now, c) /\ f[k + 1] = Effect(c, m) /\ m.states = On(D, now)
    BY <1>1, <1>2, <1>3, <1>5, <2>1, <2>2 DEF Uses
  <2>4. Upto(k + 1) = IF c.copy THEN Upto(k) \union {c.mesh} ELSE Upto(k)
    <3>1. \A i : i \in 1 .. k + 1 <=> i \in 1 .. k \/ i = k + 1
      BY <2>1
    <3> QED BY <3>1
  <2>5. any \/ c.copy \/ c.mesh = 0 \/ c.mesh \in m.uploaded
    <3>1. any \/ Fed(g.uploaded, cmds)
      BY <1>1
    <3>2. ASSUME Fed(g.uploaded, cmds)
          PROVE  c.copy \/ c.mesh = 0 \/ c.mesh \in g.uploaded \/ c.mesh \in Upto(k)
      BY <2>1, <3>2 DEF Fed
    <3> QED BY <2>2, <3>1, <3>2
  <2> HIDE DEF c, m, now, Upto
  <2> DEFINE e == Effect(c, m)
  <2>6. /\ e.states = On(D, Puts(now, c))
        /\ e.uploaded = IF c.copy THEN m.uploaded \union {c.mesh} ELSE m.uploaded
        /\ e.faults \subseteq m.faults \union {"texture gone", "not uploaded"}
        /\ c.copy \/ c.mesh = 0 \/ c.mesh \in m.uploaded => e.faults \subseteq m.faults \union {"texture gone"}
    <3>1. /\ DOMAIN m = Fields /\ D \in SUBSET Resources /\ now \in Maps /\ c \in Commands
          /\ m.states = On(D, now) /\ c.res \in D /\ now[c.res] = c.from
      BY <1>6, <2>3
    <3>2. Effected(m, Effect(c, m), D, now, c)
      <4> HIDE DEF e
      <4> QED BY <3>1, EffectSound
    <3> QED BY <3>2 DEF Effected
  <2> HIDE DEF e
  <2>7. f[k + 1] = e
    BY <2>3 DEF e
  <2>8. Faultless(m, any) /\ m.uploaded = g.uploaded \union Upto(k)
    BY <2>2 DEF m
  <2>9. Faultless(e, any)
    BY <2>5, <2>6, <2>8 DEF Faultless
  <2>10. e.uploaded = g.uploaded \union Upto(k + 1)
    BY <2>4, <2>6, <2>8
  <2> QED BY <2>3, <2>6, <2>7, <2>9, <2>10
<1>9. Fine(n)
  <2> HIDE DEF S, Fine
  <2>1. n \in S
    BY <1>2, <1>7, <1>8, SetInduction
  <2> QED BY <1>2, <2>1 DEF S
<1>10. h.states = On(D, Rest) /\ Faultless(h, any)
  BY <1>3, <1>5, <1>9 DEF Faultless
<1>11. DOMAIN h.states = D /\ Resting(h)
  BY <1>6, <1>10 DEF Resting, AtRest, Rest, On
<1>12. h.uploaded = g.uploaded \union Copied(cmds)
  <2>1. Upto(n) = Copied(cmds)
    BY DEF Copied
  <2> QED BY <1>3, <1>9, <2>1
<1> QED BY <1>10, <1>11, <1>12 DEF h, D, cmds

LEMMA GpuSound ==
    ASSUME NEW g, Device(g), g.queue # << >>, NEW any \in BOOLEAN, Sound(g, any)
    PROVE  LET h == Executed(g)
           IN Sound(h, any) /\ DOMAIN h.states = DOMAIN g.states /\ Known(h) = Known(g)
<1> DEFINE h == Executed(g)
           n == Len(g.queue)
<1>1. /\ Resting(h) /\ DOMAIN h.states = DOMAIN g.states /\ Faultless(h, any)
      /\ h.uploaded = g.uploaded \union Copied(g.queue[1].cmds) /\ h.queue = Tail(g.queue)
  BY ExecutedSound, ExecutedGives
<1>2. /\ n \in Nat \ {0} /\ Len(Tail(g.queue)) = n - 1
      /\ \A k \in 1 .. n - 1 : Tail(g.queue)[k] = g.queue[k + 1]
  BY Behind DEF Device
<1> HIDE DEF h, n
<1>3. Len(h.queue) = n - 1 /\ \A k \in 1 .. n - 1 : h.queue[k] = g.queue[k + 1]
  BY <1>1, <1>2
<1>4. ASSUME NEW k \in 1 .. n PROVE Pool(h, k) = Pool(g, k + 1)
  <2>1. Pool(h, k) \subseteq Pool(g, k + 1)
    <3>1. ASSUME NEW j \in 1 .. k - 1 PROVE Copied(h.queue[j].cmds) \subseteq Pool(g, k + 1)
      <4>1. j \in 1 .. n - 1 /\ j + 1 \in 1 .. (k + 1) - 1
        BY <1>2
      <4>2. h.queue[j] = g.queue[j + 1]
        BY <1>3, <4>1
      <4> QED BY <4>1, <4>2 DEF Pool
    <3>2. 1 \in 1 .. (k + 1) - 1
      BY <1>2
    <3>3. h.uploaded \subseteq Pool(g, k + 1)
      BY <1>1, <3>2 DEF Pool
    <3> QED BY <3>1, <3>3 DEF Pool
  <2>2. Pool(g, k + 1) \subseteq Pool(h, k)
    <3>1. ASSUME NEW j \in 1 .. (k + 1) - 1 PROVE Copied(g.queue[j].cmds) \subseteq Pool(h, k)
      <4>1. CASE j = 1
        BY <1>1, <4>1 DEF Pool
      <4>2. CASE j # 1
        <5>1. j - 1 \in 1 .. k - 1 /\ j - 1 \in 1 .. n - 1 /\ (j - 1) + 1 = j
          BY <1>2, <4>2
        <5>2. h.queue[j - 1] = g.queue[j]
          BY <1>3, <5>1
        <5> QED BY <5>1, <5>2 DEF Pool
      <4> QED BY <4>1, <4>2
    <3>2. g.uploaded \subseteq Pool(h, k)
      BY <1>1 DEF Pool
    <3> QED BY <3>1, <3>2 DEF Pool
  <2> QED BY <2>1, <2>2
<1>5. QueueOK(h, any)
  <2> SUFFICES ASSUME NEW k \in 1 .. Len(h.queue)
               PROVE  EntryOK(h.queue[k].cmds, DOMAIN h.states, Avail(any, Pool(h, k)))
    BY DEF QueueOK
  <2>1. k \in 1 .. n - 1 /\ k \in 1 .. n /\ k + 1 \in 1 .. n
    BY <1>2, <1>3
  <2>2. h.queue[k] = g.queue[k + 1] /\ Pool(h, k) = Pool(g, k + 1)
    BY <1>3, <1>4, <2>1
  <2>3. EntryOK(g.queue[k + 1].cmds, DOMAIN g.states, Avail(any, Pool(g, k + 1)))
    BY <2>1 DEF Sound, QueueOK, n
  <2> QED BY <1>1, <2>2, <2>3
<1>6. Known(h) = Known(g)
  <2>1. n \in 1 .. n /\ Len(h.queue) + 1 = n
    BY <1>2, <1>3
  <2> QED BY <1>4, <2>1 DEF Known, n
<1> QED BY <1>1, <1>5, <1>6 DEF Sound, h

(* An entry more.                                                          *)
LEMMA QueueGrows ==
    ASSUME NEW g, Device(g), NEW any \in BOOLEAN, Sound(g, any), NEW h, NEW e \in Entries,
           h.queue = Append(g.queue, e), h.states = g.states, h.uploaded = g.uploaded, h.faults = g.faults,
           EntryOK(e.cmds, DOMAIN g.states, Avail(any, Known(g)))
    PROVE  Sound(h, any) /\ Known(h) = Known(g) \union Copied(e.cmds)
<1> DEFINE n == Len(g.queue)
<1>1. /\ n \in Nat /\ Len(h.queue) = n + 1 /\ h.queue[n + 1] = e
      /\ \A k \in 1 .. n : h.queue[k] = g.queue[k]
  BY Appended DEF Device
<1> HIDE DEF n
<1>2. ASSUME NEW k \in 1 .. n + 1 PROVE Pool(h, k) = Pool(g, k)
  <2>1. \A j \in 1 .. k - 1 : j \in 1 .. n
    BY <1>1
  <2>2. \A j \in 1 .. k - 1 : h.queue[j] = g.queue[j]
    BY <1>1, <2>1
  <2> QED BY <2>2 DEF Pool
<1>3. QueueOK(h, any)
  <2> SUFFICES ASSUME NEW k \in 1 .. n + 1
               PROVE  EntryOK(h.queue[k].cmds, DOMAIN g.states, Avail(any, Pool(h, k)))
    BY <1>1 DEF QueueOK
  <2>1. CASE k = n + 1
    <3>1. Pool(h, k) = Known(g)
      BY <1>2, <2>1 DEF Known, n
    <3> QED BY <1>1, <2>1, <3>1
  <2>2. CASE k # n + 1
    <3>1. k \in 1 .. n
      BY <1>1, <2>2
    <3>2. EntryOK(g.queue[k].cmds, DOMAIN g.states, Avail(any, Pool(g, k)))
      BY <3>1 DEF Sound, QueueOK, n
    <3> QED BY <1>1, <1>2, <3>1, <3>2
  <2> QED BY <2>1, <2>2
<1>4. Known(h) = Known(g) \union Copied(e.cmds)
  <2>1. Known(h) = Pool(h, (n + 1) + 1) /\ Known(g) = Pool(g, n + 1) /\ Pool(h, n + 1) = Pool(g, n + 1)
    <3>1. n + 1 \in 1 .. n + 1
      BY <1>1
    <3> QED BY <1>1, <1>2, <3>1 DEF Known, n
  <2>2. \A j : j \in 1 .. ((n + 1) + 1) - 1 <=> j \in 1 .. (n + 1) - 1 \/ j = n + 1
    BY <1>1
  <2>3. Pool(h, (n + 1) + 1) = Pool(h, n + 1) \union Copied(h.queue[n + 1].cmds)
    BY <2>2 DEF Pool
  <2> QED BY <1>1, <2>1, <2>3
<1> QED BY <1>3, <1>4 DEF Sound, Resting, Faultless

LEMMA SignalSound ==
    ASSUME NEW g, Device(g), NEW any \in BOOLEAN, Sound(g, any)
    PROVE  Sound(Signal(g), any) /\ Known(Signal(g)) = Known(g)
<1> DEFINE e == [slot |-> Frames, cmds |-> << >>, signal |-> g.counter + 1]
           h == Signal(g)
<1>1. /\ e \in Entries /\ h.queue = Append(g.queue, e)
      /\ h.states = g.states /\ h.uploaded = g.uploaded /\ h.faults = g.faults
  BY SignalGives
<1>2. e.cmds = << >>
  OBVIOUS
<1> HIDE DEF e, h
<1>3. << >> \in Seq(Commands) /\ Uses(<< >>, DOMAIN g.states) /\ Fed(Avail(any, Known(g)), << >>) /\ Copied(<< >>) = {}
  BY DEF Uses, Fed, Copied
<1>4. Leads(Rest, << >>, Rest)
  BY LeadsNothing, RestMaps
<1>5. EntryOK(e.cmds, DOMAIN g.states, Avail(any, Known(g)))
  BY <1>2, <1>3, <1>4 DEF EntryOK
<1>6. Sound(h, any) /\ Known(h) = Known(g) \union Copied(e.cmds)
  BY <1>1, <1>5, QueueGrows
<1>7. Known(h) = Known(g)
  BY <1>2, <1>3, <1>6
<1> QED BY <1>6, <1>7 DEF h

(* The frame's list becomes an entry, the back buffer presentable.         *)
LEMMA EndFrameSound ==
    ASSUME NEW g, NEW any \in BOOLEAN, Sound(g, any), NEW D, NEW K,
           Open(g, Colored(Rest, BackBuffer(g.back), "target"), D, Avail(any, Known(g)), K),
           D \subseteq DOMAIN g.states, BackBuffer(g.back) \in D
    PROVE  LET h == EndFrame(g)
           IN Sound(h, any) /\ Known(h) = Known(g) \union Copied(g.lists[g.slot].cmds)
<1> DEFINE s == g.lists[g.slot].cmds
           b == BackBuffer(g.back)
           c == Barrier(b, "target", "present")
           e == [slot |-> g.slot, signal |-> g.counter + 1, cmds |-> Append(s, c)]
           h == EndFrame(g)
           a == Colored(Rest, b, "target")
           U == Avail(any, Known(g))
<1>1. /\ Device(g) /\ e \in Entries /\ h.queue = Append(g.queue, e)
      /\ h.states = g.states /\ h.uploaded = g.uploaded /\ h.faults = g.faults
  BY EndFrameGives DEF Open
<1>2. b \in Resources /\ b \in SwapChain("window", 0) /\ Rest[b] = "present"
  BY <1>1, BackBufferOK DEF Device, Rest, BackBuffer
<1>3. ListOK(s, a, D, U, K) /\ s \in Seq(Commands)
  BY DEF Open, ListOK
<1>4. c \in Commands /\ c.res = b /\ c.from = "target" /\ c.to = "present" /\ c.mesh = 0 /\ c.copy = FALSE
  BY <1>2 DEF Barrier, Commands, States
<1>5. e.cmds = Append(s, c)
  OBVIOUS
<1> HIDE DEF h, e, s, U
<1>6. a \in Maps /\ a[b] = "target" /\ Puts(a, c) = Rest
  <2>1. Rest \in Maps
    BY RestMaps
  <2> HIDE DEF c, b
  <2> QED BY <1>2, <1>4, <2>1 DEF Colored, Maps, Puts, States
<1> HIDE DEF a, c, b
<1>7. Leads(a, << c >>, Rest)
  BY <1>4, <1>6, LeadsOne
<1>8. Append(s, c) = s \o << c >> /\ << c >> \in Seq(Commands) /\ Len(<< c >>) = 1 /\ << c >>[1] = c
  BY <1>3, <1>4
<1> DEFINE q == << c >>
<1>9. Renders(q, D, K \union {0})
  BY <1>4, <1>8 DEF Renders, b
<1> HIDE DEF q
<1>10. ListOK(s \o q, Rest, D, U, K)
  BY <1>3, <1>7, <1>9, RestMaps, ListRenders DEF q
<1>11. Copied(q) = {}
  BY <1>4, <1>8 DEF Copied, q
<1>12. Copied(s \o q) = Copied(s)
  <2>1. q \in Seq(Commands)
    BY <1>8 DEF q
  <2>2. Copied(s \o q) = Copied(s) \union Copied(q)
    BY <1>3, <2>1, CopiedOn
  <2> QED BY <1>11, <2>2
<1>13. EntryOK(e.cmds, DOMAIN g.states, U)
  BY <1>5, <1>8, <1>10 DEF EntryOK, ListOK, Uses, q
<1>14. EntryOK(e.cmds, DOMAIN g.states, Avail(any, Known(g)))
  BY <1>13 DEF U
<1>15. Sound(h, any) /\ Known(h) = Known(g) \union Copied(e.cmds)
  BY <1>1, <1>14, QueueGrows
<1>16. Copied(e.cmds) = Copied(s)
  BY <1>5, <1>8, <1>12 DEF q
<1>17. Known(h) = Known(g) \union Copied(s)
  BY <1>15, <1>16
<1> QED BY <1>15, <1>17 DEF h, s
------------------------------------------------------------------------------
(* Fences.  The queue's entries signal the values after done, in order; a  *)
(* slot's fence covers every entry with its list; and only the list of the *)
(* frame under way is open, once the fence of its slot has passed.         *)
Signals(g) ==
    /\ g.counter = g.done + Len(g.queue)
    /\ \A k \in 1 .. Len(g.queue) : g.queue[k].signal = g.done + k
Fenced(g) ==
    /\ \A k \in 1 .. Len(g.queue) : g.queue[k].slot \in Slots => g.queue[k].signal <= g.fences[g.queue[k].slot]
    /\ \A s \in Slots : g.fences[s] <= g.counter
Recorded(g, recording) ==
    /\ \A s \in Slots : g.lists[s].open => recording /\ s = g.slot
    /\ recording => g.lists[g.slot].open /\ g.fences[g.slot] <= g.done
Paced(g, recording) == Signals(g) /\ Fenced(g) /\ Recorded(g, recording)

LEMMA PacedKept ==
    ASSUME NEW g, NEW h, NEW rec, Paced(g, rec), Kept(g, h), Device(g) PROVE Paced(h, rec)
BY DEF Paced, Signals, Fenced, Recorded, Kept, Device

LEMMA PacedEntry ==
    ASSUME NEW g, NEW rec, Device(g), Paced(g, rec), NEW k \in 1 .. Len(g.queue)
    PROVE  /\ g.queue[k] \in Entries /\ g.queue[k].signal > g.done /\ g.queue[k].signal <= g.counter
           /\ rec => g.queue[k].slot # g.slot
           /\ g.queue[k].slot \in Slots => g.fences[g.queue[k].slot] > g.done
<1>1. g.queue[k] \in Entries /\ Len(g.queue) \in Nat /\ g.done \in Nat /\ g.fences \in [Slots -> Nat] /\ g.slot \in Slots
  BY ElementOfSeq, LenProperties DEF Device
<1>2. g.queue[k].signal = g.done + k /\ g.counter = g.done + Len(g.queue)
  BY DEF Paced, Signals
<1>3. g.queue[k].signal > g.done /\ g.queue[k].signal <= g.counter
  BY <1>1, <1>2
<1>4. g.queue[k].slot \in Slots => g.fences[g.queue[k].slot] > g.done
  BY <1>1, <1>3 DEF Paced, Fenced, Entries
<1>5. rec => g.queue[k].slot # g.slot
  BY <1>1, <1>4 DEF Paced, Recorded
<1> QED BY <1>1, <1>3, <1>4, <1>5

(* A list is not recorded over while the GPU may still read it.            *)
LEMMA PacedLists ==
    ASSUME NEW g, NEW rec, Device(g), Paced(g, rec), NEW k \in DOMAIN g.queue, g.queue[k].slot \in Slots
    PROVE  ~g.lists[g.queue[k].slot].open
<1>1. k \in 1 .. Len(g.queue)
  BY DEF Device
<1>2. rec => g.queue[k].slot # g.slot
  BY <1>1, PacedEntry
<1> QED BY <1>2 DEF Paced, Recorded

LEMMA SignalPaced ==
    ASSUME NEW g, NEW rec, Device(g), Paced(g, rec) PROVE Paced(Signal(g), rec)
<1> DEFINE e == [slot |-> Frames, cmds |-> << >>, signal |-> g.counter + 1]
           h == Signal(g)
           n == Len(g.queue)
<1>1. /\ e \in Entries /\ h.queue = Append(g.queue, e) /\ h.counter = g.counter + 1
      /\ h.slot = g.slot /\ h.done = g.done /\ h.fences = g.fences /\ h.lists = g.lists
  BY SignalGives
<1>2. e.slot \notin Slots /\ e.signal = g.counter + 1
  BY DeviceAssumption DEF Slots
<1> HIDE DEF e, h
<1>3. /\ n \in Nat /\ Len(h.queue) = n + 1 /\ h.queue[n + 1] = e
      /\ \A k \in 1 .. n : h.queue[k] = g.queue[k]
  BY <1>1, Appended DEF Device
<1>4. g.counter = g.done + n /\ g.done \in Nat /\ g.fences \in [Slots -> Nat]
  BY DEF Paced, Signals, Device
<1>5. \A k \in 1 .. n : g.queue[k].signal = g.done + k
  BY DEF Paced, Signals
<1>6. \A k \in 1 .. n : g.queue[k].slot \in Slots => g.queue[k].signal <= g.fences[g.queue[k].slot]
  BY DEF Paced, Fenced
<1> HIDE DEF n
<1>7. \A k \in 1 .. n + 1 : k \in 1 .. n \/ k = n + 1
  BY <1>3
<1>8. Signals(h)
  <2>0. \A k \in 1 .. n : h.queue[k].signal = h.done + k
    BY <1>1, <1>3, <1>5
  <2>n. h.queue[n + 1].signal = h.done + (n + 1)
    BY <1>1, <1>2, <1>3, <1>4
  <2>1. \A k \in 1 .. n + 1 : h.queue[k].signal = h.done + k
    BY <1>7, <2>0, <2>n
  <2>2. h.counter = h.done + (n + 1)
    <3>1. h.counter = g.counter + 1 /\ h.done = g.done
      BY <1>1
    <3>2. h.counter = (g.done + n) + 1
      BY <1>4, <3>1
    <3>3. n \in Nat /\ g.done \in Nat
      BY <1>3, <1>4
    <3>4. (g.done + n) + 1 = g.done + (n + 1)
      BY <3>3
    <3> QED BY <3>1, <3>2, <3>4
  <2> QED BY <1>3, <2>1, <2>2 DEF Signals
<1>9. Fenced(h)
  <2>1. \A k \in 1 .. n + 1 : h.queue[k].slot \in Slots => h.queue[k].signal <= h.fences[h.queue[k].slot]
    BY <1>1, <1>2, <1>3, <1>6, <1>7
  <2>2. \A s \in Slots : h.fences[s] <= h.counter
    <3>1. \A s \in Slots : g.fences[s] <= g.counter /\ g.fences[s] \in Nat /\ g.counter \in Nat
      BY <1>4 DEF Paced, Fenced, Device
    <3> QED BY <1>1, <3>1
  <2> QED BY <1>3, <2>1, <2>2 DEF Fenced
<1>10. Recorded(h, rec)
  BY <1>1 DEF Paced, Recorded
<1> QED BY <1>8, <1>9, <1>10 DEF Paced, h

LEMMA EndFramePaced ==
    ASSUME NEW g, Device(g), Paced(g, TRUE) PROVE Paced(EndFrame(g), FALSE)
<1> DEFINE e == [slot |-> g.slot, signal |-> g.counter + 1,
                 cmds |-> Append(g.lists[g.slot].cmds, Barrier(BackBuffer(g.back), "target", "present"))]
           h == EndFrame(g)
           n == Len(g.queue)
<1>1. /\ e \in Entries /\ h.queue = Append(g.queue, e) /\ h.counter = g.counter + 1
      /\ h.slot = g.slot /\ h.done = g.done /\ h.fences = [g.fences EXCEPT ![g.slot] = g.counter + 1]
      /\ ~h.lists[g.slot].open /\ \A t \in Slots : t # g.slot => h.lists[t] = g.lists[t]
  BY EndFrameGives
<1>2. e.slot = g.slot /\ e.signal = g.counter + 1
  OBVIOUS
<1> HIDE DEF e, h
<1>3. /\ n \in Nat /\ Len(h.queue) = n + 1 /\ h.queue[n + 1] = e
      /\ \A k \in 1 .. n : h.queue[k] = g.queue[k]
  BY <1>1, Appended DEF Device
<1>4. /\ g.counter = g.done + n /\ g.done \in Nat /\ g.fences \in [Slots -> Nat] /\ g.counter \in Nat
      /\ g.slot \in Slots
  BY DEF Paced, Signals, Device
<1>5. \A k \in 1 .. n : g.queue[k].signal = g.done + k
  BY DEF Paced, Signals
<1>6. \A k \in 1 .. n : g.queue[k].slot \in Slots => g.queue[k].signal <= g.fences[g.queue[k].slot]
  BY DEF Paced, Fenced
<1> HIDE DEF n
<1>7. \A k \in 1 .. n + 1 : k \in 1 .. n \/ k = n + 1
  BY <1>3
<1>8. Signals(h)
  <2>0. \A k \in 1 .. n : h.queue[k].signal = h.done + k
    BY <1>1, <1>3, <1>5
  <2>n. h.queue[n + 1].signal = h.done + (n + 1)
    BY <1>1, <1>2, <1>3, <1>4
  <2>1. \A k \in 1 .. n + 1 : h.queue[k].signal = h.done + k
    BY <1>7, <2>0, <2>n
  <2>2. h.counter = h.done + (n + 1)
    <3>1. h.counter = g.counter + 1 /\ h.done = g.done
      BY <1>1
    <3>2. h.counter = (g.done + n) + 1
      BY <1>4, <3>1
    <3>3. n \in Nat /\ g.done \in Nat
      BY <1>3, <1>4
    <3>4. (g.done + n) + 1 = g.done + (n + 1)
      BY <3>3
    <3> QED BY <3>1, <3>2, <3>4
  <2> QED BY <1>3, <2>1, <2>2 DEF Signals
<1>9. Fenced(h)
  <2>0. \A s \in Slots : g.fences[s] <= g.counter /\ g.fences[s] \in Nat
    BY <1>4 DEF Paced, Fenced
  <2>1. \A s \in Slots : h.fences[s] = IF s = g.slot THEN g.counter + 1 ELSE g.fences[s]
    BY <1>1, <1>4
  <2>2. ASSUME NEW k \in 1 .. n, g.queue[k].slot \in Slots PROVE h.queue[k].signal <= h.fences[h.queue[k].slot]
    <3>1. g.queue[k].signal <= g.fences[g.queue[k].slot] /\ h.queue[k] = g.queue[k]
      BY <1>3, <1>6, <2>2
    <3>2. k \in Nat /\ g.queue[k].signal = g.done + k /\ g.done + k \in Nat /\ g.done + k <= g.counter
      BY <1>3, <1>4, <1>5
    <3> DEFINE t == g.queue[k].slot
               v == g.queue[k].signal
    <3>3. v <= g.fences[t] /\ v \in Nat /\ v <= g.counter /\ t \in Slots
      BY <2>2, <3>1, <3>2
    <3> HIDE DEF t, v
    <3>4. v <= h.fences[t]
      BY <1>4, <2>1, <3>3
    <3> QED BY <3>1, <3>4 DEF t, v
  <2>3. h.queue[n + 1].signal <= h.fences[h.queue[n + 1].slot]
    BY <1>2, <1>3, <1>4, <2>1
  <2>4. \A k \in 1 .. n + 1 : h.queue[k].slot \in Slots => h.queue[k].signal <= h.fences[h.queue[k].slot]
    BY <1>3, <1>7, <2>2, <2>3
  <2>5. \A s \in Slots : h.fences[s] <= h.counter
    BY <1>1, <1>4, <2>0, <2>1
  <2> QED BY <1>3, <2>4, <2>5 DEF Fenced
<1>10. Recorded(h, FALSE)
  BY <1>1 DEF Paced, Recorded
<1> QED BY <1>8, <1>9, <1>10 DEF Paced, h

LEMMA BeginFramePaced ==
    ASSUME NEW g, Device(g), Paced(g, FALSE), FrameIsFree(g) PROVE Paced(BeginFrame(g), TRUE)
<1> DEFINE h == BeginFrame(g)
<1>1. /\ h.slot = NextSlot(g) /\ NextSlot(g) \in Slots /\ h.lists[h.slot].open
      /\ \A t \in Slots : t # h.slot => h.lists[t] = g.lists[t]
      /\ h.counter = g.counter /\ h.queue = g.queue /\ h.done = g.done /\ h.fences = g.fences
  BY BeginFrameGives
<1> HIDE DEF h
<1>2. g.done >= g.fences[NextSlot(g)] /\ g.done \in Nat /\ g.fences[NextSlot(g)] \in Nat
  BY <1>1 DEF FrameIsFree, Device
<1>3. Recorded(h, TRUE)
  BY <1>1, <1>2 DEF Paced, Recorded
<1>4. Signals(h) /\ Fenced(h)
  BY <1>1 DEF Paced, Signals, Fenced
<1> QED BY <1>3, <1>4 DEF Paced, h

LEMMA ResizedPaced ==
    ASSUME NEW g, NEW rec, NEW size, Device(g), Paced(g, rec) PROVE Paced(Resized(g, size), rec)
<1> DEFINE h == Resized(g, size)
<1>1. /\ h.counter = g.counter /\ h.queue = g.queue /\ h.slot = g.slot /\ h.done = g.done
      /\ h.fences = g.fences /\ h.lists = g.lists
  BY ResizedGives
<1> HIDE DEF h
<1> QED BY <1>1 DEF Paced, Signals, Fenced, Recorded, h

LEMMA ExecutedPaced ==
    ASSUME NEW g, NEW rec, Device(g), Paced(g, rec), g.queue # << >> PROVE Paced(Executed(g), rec)
<1> DEFINE h == Executed(g)
           n == Len(g.queue)
<1>1. /\ h.queue = Tail(g.queue) /\ h.done = g.queue[1].signal
      /\ h.slot = g.slot /\ h.counter = g.counter /\ h.fences = g.fences /\ h.lists = g.lists
  BY ExecutedGives
<1> HIDE DEF h
<1>2. /\ n \in Nat \ {0} /\ Len(Tail(g.queue)) = n - 1
      /\ \A k \in 1 .. n - 1 : Tail(g.queue)[k] = g.queue[k + 1]
  BY Behind DEF Device
<1>3. /\ g.counter = g.done + n /\ g.done \in Nat /\ g.fences \in [Slots -> Nat] /\ g.slot \in Slots
      /\ \A k \in 1 .. n : g.queue[k].signal = g.done + k
  BY DEF Paced, Signals, Device
<1>4. \A k \in 1 .. n : g.queue[k].slot \in Slots => g.queue[k].signal <= g.fences[g.queue[k].slot]
  BY DEF Paced, Fenced
<1> HIDE DEF n
<1>5. /\ Len(h.queue) = n - 1 /\ h.done = g.done + 1
      /\ \A k \in 1 .. n - 1 : h.queue[k] = g.queue[k + 1] /\ k + 1 \in 1 .. n
  BY <1>1, <1>2, <1>3
<1>6. Signals(h)
  <2>1. ASSUME NEW k \in 1 .. n - 1 PROVE h.queue[k].signal = h.done + k
    <3>1. k + 1 \in 1 .. n /\ h.queue[k] = g.queue[k + 1]
      BY <1>5
    <3>2. h.queue[k].signal = g.done + (k + 1)
      BY <1>3, <3>1
    <3>k. k \in Nat /\ g.done \in Nat
      BY <1>2, <1>3
    <3>3. g.done + (k + 1) = (g.done + 1) + k
      BY <3>k
    <3> QED BY <1>5, <3>2, <3>3
  <2>2. h.counter = h.done + (n - 1)
    BY <1>1, <1>2, <1>3, <1>5, SMTT(30)
  <2> QED BY <1>5, <2>1, <2>2 DEF Signals
<1>7. Fenced(h)
  <2>1. \A k \in 1 .. n - 1 : h.queue[k].slot \in Slots => h.queue[k].signal <= h.fences[h.queue[k].slot]
    BY <1>1, <1>4, <1>5
  <2>2. \A s \in Slots : h.fences[s] <= h.counter
    BY <1>1 DEF Paced, Fenced
  <2> QED BY <1>5, <2>1, <2>2 DEF Fenced
<1>8. Recorded(h, rec)
  <2>1. rec => g.fences[g.slot] <= h.done
    BY <1>3, <1>5 DEF Paced, Recorded
  <2> QED BY <1>1, <2>1 DEF Paced, Recorded
<1> QED BY <1>6, <1>7, <1>8 DEF Paced, h

(* An idle queue is empty.                                                 *)
LEMMA IdleEmpty ==
    ASSUME NEW g, NEW rec, Device(g), Paced(g, rec), Idle(g) PROVE Len(g.queue) = 0
<1>1. Len(g.queue) \in Nat /\ g.done \in Nat
  BY LenProperties DEF Device
<1> QED BY <1>1 DEF Idle, Paced, Signals
------------------------------------------------------------------------------
(* The queue while resources come and go.                                  *)
LEMMA SoundKept ==
    ASSUME NEW g, NEW h, NEW any, Sound(g, any), Kept(g, h), h.states = g.states
    PROVE  Sound(h, any) /\ Known(h) = Known(g)
<1>1. h.queue = g.queue /\ h.uploaded = g.uploaded /\ h.faults = g.faults
  BY DEF Kept
<1>2. \A k : Pool(h, k) = Pool(g, k)
  BY <1>1 DEF Pool
<1> QED BY <1>1, <1>2 DEF Sound, Resting, Faultless, QueueOK, Known

LEMMA UsesMore ==
    ASSUME NEW D, NEW E, D \subseteq E, NEW cmds, Uses(cmds, D) PROVE Uses(cmds, E)
BY DEF Uses

LEMMA SoundGiven ==
    ASSUME NEW g, Device(g), NEW any, Sound(g, any), NEW new \in SUBSET Resources
    PROVE  LET h == Given(g, new)
           IN  /\ Sound(h, any) /\ Known(h) = Known(g)
               /\ DOMAIN h.states = DOMAIN g.states \union new
<1> DEFINE h == Given(g, new)
<1>1. /\ Kept(g, h)
      /\ h.states = [r \in DOMAIN g.states \union new |-> IF r \in new THEN r[4] ELSE g.states[r]]
  BY GivenGives
<1> HIDE DEF h
<1>2. h.queue = g.queue /\ h.uploaded = g.uploaded /\ h.faults = g.faults
  BY <1>1 DEF Kept
<1>3. \A k : Pool(h, k) = Pool(g, k)
  BY <1>2 DEF Pool
<1>4. DOMAIN h.states = DOMAIN g.states \union new
  BY <1>1
<1>5. Resting(h)
  BY <1>1, <1>4 DEF Sound, Resting, AtRest
<1>6. QueueOK(h, any)
  BY <1>2, <1>3, <1>4, UsesMore DEF Sound, QueueOK, EntryOK
<1> QED BY <1>2, <1>3, <1>4, <1>5, <1>6 DEF Sound, Faultless, Known, h

LEMMA SoundReleased ==
    ASSUME NEW g, Device(g), NEW any, Sound(g, any), NEW gone,
           \A k \in 1 .. Len(g.queue) : Uses(g.queue[k].cmds, DOMAIN g.states \ gone)
    PROVE  LET h == Released(g, gone)
           IN  /\ Sound(h, any) /\ Known(h) = Known(g)
               /\ DOMAIN h.states = DOMAIN g.states \ gone
<1> DEFINE h == Released(g, gone)
<1>1. Kept(g, h) /\ h.states = [r \in DOMAIN g.states \ gone |-> g.states[r]]
  BY ReleasedGives
<1> HIDE DEF h
<1>2. h.queue = g.queue /\ h.uploaded = g.uploaded /\ h.faults = g.faults
  BY <1>1 DEF Kept
<1>3. \A k : Pool(h, k) = Pool(g, k)
  BY <1>2 DEF Pool
<1>4. DOMAIN h.states = DOMAIN g.states \ gone
  BY <1>1
<1>5. Resting(h)
  BY <1>1, <1>4 DEF Sound, Resting, AtRest
<1>6. QueueOK(h, any)
  BY <1>2, <1>3, <1>4 DEF Sound, QueueOK, EntryOK
<1> QED BY <1>2, <1>3, <1>4, <1>5, <1>6 DEF Sound, Faultless, Known, h

LEMMA SoundResized ==
    ASSUME NEW g, Device(g), NEW any, Sound(g, any), NEW size
    PROVE  LET h == Resized(g, size)
           IN Sound(h, any) /\ Known(h) = Known(g) /\ h.states = g.states
<1> DEFINE h == Resized(g, size)
<1>1. /\ h.queue = g.queue /\ h.uploaded = g.uploaded /\ h.faults = g.faults
      /\ h.states = [r \in DOMAIN g.states |-> IF r \in SwapChain("window", 0) THEN r[4] ELSE g.states[r]]
  BY ResizedGives
<1> HIDE DEF h
<1>2. h.states = g.states
  BY <1>1 DEF Sound, Resting, AtRest
<1>3. \A k : Pool(h, k) = Pool(g, k)
  BY <1>1 DEF Pool
<1> QED BY <1>1, <1>2, <1>3 DEF Sound, Resting, Faultless, QueueOK, Known, h

LEMMA SoundSame ==
    ASSUME NEW g, NEW h, NEW any, Sound(g, any), h.queue = g.queue, h.states = g.states,
           h.uploaded = g.uploaded, h.faults = g.faults
    PROVE  Sound(h, any) /\ Known(h) = Known(g)
<1>1. \A k : Pool(h, k) = Pool(g, k)
  BY DEF Pool
<1> QED BY <1>1 DEF Sound, Resting, Faultless, QueueOK, Known

(* The open list, while the device changes around it.                      *)
LEMMA OpenStays ==
    ASSUME NEW g, NEW h, NEW a, NEW D, NEW U, NEW K, Open(g, a, D, U, K),
           Device(h), h.lists = g.lists, h.slot = g.slot
    PROVE  Open(h, a, D, U, K)
BY DEF Open

LEMMA OpenMore ==
    ASSUME NEW g, NEW a, NEW D, NEW U, NEW K, Open(g, a, D, U, K), NEW E, D \subseteq E, NEW L, L \subseteq K
    PROVE  Open(g, a, E, U, L)
BY UsesMore DEF Open, ListOK

(* A copy goes to the list of the frame, or nowhere.                       *)
LEMMA CopyTyped ==
    ASSUME NEW m \in Nat PROVE << Copy(m) >> \in Seq(Commands)
<1>1. Depth \in Resources
  BY DEF Depth, Resources
<1>2. Copy(m) \in Commands
  BY <1>1 DEF Copy, Commands, States
<1> QED BY <1>2

LEMMA CopyOpen ==
    ASSUME NEW g, NEW a, NEW D, NEW U, NEW K, Open(g, a, D, U, K), Depth \in D, a[Depth] = "depth", NEW m \in Nat
    PROVE  LET h == Record(g, g.slot, << Copy(m) >>)
           IN  Open(h, a, D, U, K \union {m}) /\ Kept(g, h) /\ h.states = g.states /\ h.held = g.held
<1> DEFINE q == << Copy(m) >>
           s == g.slot
           h == Record(g, s, q)
<1>1. Device(g) /\ s \in Slots /\ g.lists[s].open /\ ListOK(g.lists[s].cmds, a, D, U, K)
  BY DEF Open, Device
<1>2. q \in Seq(Commands) /\ ListOK(g.lists[s].cmds \o q, a, D, U, K \union {m})
  BY <1>1, ListCopies
<1> HIDE DEF q, s, h
<1>3. /\ Kept(g, h) /\ h.states = g.states /\ h.held = g.held
      /\ h.lists[s].cmds = g.lists[s].cmds \o q
  BY <1>1, <1>2, RecordGives DEF h
<1>4. Device(h) /\ h.slot = s /\ h.lists[s].open
  BY <1>1, <1>3, KeptDevice DEF Kept, s
<1>5. Open(h, a, D, U, K \union {m})
  BY <1>2, <1>3, <1>4 DEF Open
<1> QED BY <1>3, <1>5 DEF h, s, q
------------------------------------------------------------------------------
(* A pass over a target, which then goes to the state the next user needs. *)
LEMMA ColoredMap ==
    ASSUME NEW a \in Maps, NEW r, NEW s \in States
    PROVE  /\ Colored(a, r, s) \in Maps
           /\ r \in Resources => Colored(a, r, s)[r] = s
           /\ \A q \in Resources : q # r => Colored(a, r, s)[q] = a[q]
           /\ \A t : Colored(Colored(a, r, s), r, t) = Colored(a, r, t)
BY DEF Colored, Maps

(* A command by itself.                                                    *)
LEMMA RecordOne ==
    ASSUME NEW g, NEW a, NEW D, NEW U, NEW K, Open(g, a, D, U, K),
           NEW c \in Commands, c.res \in D, a[c.res] = c.from, c.copy = FALSE, c.mesh \in K \union {0}
    PROVE  Opened(g, Record(g, g.slot, << c >>), Colored(a, c.res, c.to), D, U, K)
<1> DEFINE q == << c >>
           b == Colored(a, c.res, c.to)
           h == Record(g, g.slot, q)
<1>1. a \in Maps
  BY DEF Open, ListOK
<1>2. b \in Maps /\ b = Puts(a, c) /\ Leads(a, q, b)
  BY <1>1, LeadsOne DEF Puts, Colored
<1>3. q \in Seq(Commands) /\ Len(q) = 1 /\ q[1] = c
  OBVIOUS
<1> HIDE DEF q, b
<1>4. Renders(q, D, K \union {0})
  BY <1>3 DEF Renders
<1>5. Open(h, b, D, U, K) /\ Kept(g, h) /\ h.states = g.states /\ h.held = g.held
  BY <1>2, <1>4, RecordOpen
<1> QED BY <1>5 DEF h, q, b, Opened

LEMMA RenderOnto ==
    ASSUME NEW g, NEW a, NEW D, NEW U, NEW K \in SUBSET Nat, Open(g, a, D, U, K),
           NEW color, Target(color, a, D), NEW graph, GraphFor(graph, color, a[color], K), NEW to \in States
    PROVE  Opened(g, Record(Execute(g, graph), g.slot, << Barrier(color, "target", to) >>),
                  Colored(a, color, to), D, U, K)
<1> DEFINE x == Execute(g, graph)
           b == Colored(a, color, "target")
           c == Barrier(color, "target", to)
           h == Record(x, g.slot, << c >>)
<1>1. color \in D /\ color \in Resources /\ a \in Maps
  BY DEF Target, Pairs
<1> HIDE DEF x
<1>3. Open(x, b, D, U, K) /\ Kept(g, x) /\ x.states = g.states /\ x.held = g.held
  BY ExecuteOpen DEF x, Opened
<1>4. b \in Maps /\ b[color] = "target" /\ Colored(b, color, to) = Colored(a, color, to)
  BY <1>1, ColoredMap DEF States
<1>5. c \in Commands /\ c.res = color /\ c.from = "target" /\ c.to = to /\ c.mesh = 0 /\ c.copy = FALSE
  BY <1>1 DEF Barrier, Commands, States
<1> HIDE DEF b, c
<1>6. x.slot = g.slot
  BY <1>3 DEF Kept
<1> DEFINE y == Record(x, x.slot, << c >>)
<1>7. Open(y, Colored(b, c.res, c.to), D, U, K) /\ Kept(x, y) /\ y.states = x.states /\ y.held = x.held
  <2>1. c.res \in D /\ b[c.res] = c.from /\ c.mesh \in K \union {0}
    BY <1>1, <1>4, <1>5
  <2> QED BY <1>3, <1>5, <2>1, RecordOne DEF Opened
<1> HIDE DEF y
<1>8. h = y
  BY <1>6 DEF y
<1>9. Kept(g, y)
  BY <1>3, <1>7, KeptOnwards
<1>10. Open(y, Colored(a, color, to), D, U, K)
  BY <1>4, <1>5, <1>7
<1>11. h.states = g.states /\ h.held = g.held
  BY <1>3, <1>7, <1>8
<1> HIDE DEF h
<1>12. Open(h, Colored(a, color, to), D, U, K) /\ Kept(g, h)
  BY <1>8, <1>9, <1>10
<1> QED BY <1>11, <1>12 DEF h, x, c, Opened

(* The graphs of the three renders.                                        *)
LEMMA OntoOK ==
    ASSUME NEW color, NEW now, NEW M PROVE GraphOn(Onto(color, now), color, DepthOf(color), now, M)
<1> DEFINE d == DepthOf(color)
<1>1. Onto(color, now) = ImportDepthBuffer(ImportBackBuffer(EmptyGraph, color, now), d)
  BY DEF Onto
<1> HIDE DEF d
<1> QED BY <1>1, Imported2 DEF d

LEMMA ClearedOK ==
    ASSUME NEW color \in Resources, NEW now, NEW K \in SUBSET Nat, NEW cmds, Draws(cmds, color, K \union {0})
    PROVE  LET graph == WithMeshes(Cleared(Onto(color, now), color), cmds)
           IN  GraphFor(graph, color, now, K)
<1> DEFINE M == K \union {0}
           d == DepthOf(color)
           o == Onto(color, now)
           c == Cleared(o, color)
           s == << Draw(color, 0) >>
<1>1. M \in SUBSET Nat /\ 0 \in M
  OBVIOUS
<1>2. GraphOn(o, color, d, now, M)
  BY OntoOK
<1>3. Draws(s, color, M)
  BY <1>1, OneDrawn
<1>4. BothNeeds \in {ColorNeeds, BothNeeds} /\ c = AddPass(o, BothNeeds, s)
  BY DEF Cleared, BothNeeds
<1> HIDE DEF M, d, o, c, s
<1>5. GraphOn(c, color, d, now, M) /\ c.passes # << >>
  BY <1>2, <1>3, <1>4, PassAdded
<1>6. Draws(cmds, color, M)
  BY DEF M
<1>7. GraphOn(WithMeshes(c, cmds), color, d, now, M) /\ WithMeshes(c, cmds).passes # << >>
  BY <1>5, <1>6, MeshesAdded
<1> QED BY <1>7 DEF M, d, o, c, GraphFor

LEMMA PreviewOK ==
    ASSUME NEW color \in Resources, NEW now, NEW K \in SUBSET Nat, NEW m \in K \union {0}
    PROVE  LET graph == AddPass(Onto(color, now), << [h |-> 1, to |-> "target"], [h |-> 2, to |-> "depth"] >>,
                                << Draw(color, m) >>)
           IN  GraphFor(graph, color, now, K)
<1> DEFINE M == K \union {0}
           d == DepthOf(color)
           o == Onto(color, now)
           s == << Draw(color, m) >>
           c == AddPass(o, BothNeeds, s)
<1>1. M \in SUBSET Nat /\ m \in M
  OBVIOUS
<1>2. GraphOn(o, color, d, now, M)
  BY OntoOK
<1>3. Draws(s, color, M)
  BY <1>1, OneDrawn
<1>4. BothNeeds \in {ColorNeeds, BothNeeds}
  OBVIOUS
<1> HIDE DEF M, d, o, s
<1>5. GraphOn(c, color, d, now, M) /\ c.passes # << >>
  BY <1>2, <1>3, <1>4, PassAdded
<1> QED BY <1>5 DEF M, d, o, s, c, BothNeeds, GraphFor

(* The names of the resources.                                             *)
LEMMA ViewNames ==
    ASSUME NEW v \in Nat
    PROVE  /\ View(v) \in Offscreen("view", v) /\ DepthOf(View(v)) \in Offscreen("view", v)
           /\ View(v) \in Resources /\ DepthOf(View(v)) \in Resources /\ View(v) # DepthOf(View(v))
           /\ View(v)[4] = "target" /\ DepthOf(View(v))[4] = "depth" /\ View(v)[1] = "view"
           /\ DepthOf(View(v))[1] = "view" /\ Offscreen("view", v) \subseteq Resources
<1>1. DepthOf(View(v)) = << "view", v, 0, "depth" >>
  BY DEF DepthOf, View
<1> QED BY <1>1 DEF View, Offscreen, Resources

LEMMA PreviewNames ==
    /\ Preview \in Offscreen("preview", 0) /\ DepthOf(Preview) \in Offscreen("preview", 0)
    /\ Preview \in Resources /\ DepthOf(Preview) \in Resources /\ Preview # DepthOf(Preview)
    /\ Preview[4] = "target" /\ DepthOf(Preview)[4] = "depth" /\ Preview[1] = "preview"
    /\ DepthOf(Preview)[1] = "preview" /\ Offscreen("preview", 0) \subseteq Resources
<1>1. DepthOf(Preview) = << "preview", 0, 0, "depth" >>
  BY DEF DepthOf, Preview
<1> QED BY <1>1 DEF Preview, Offscreen, Resources

LEMMA PieNames ==
    ASSUME NEW n \in Nat, NEW i \in 0 .. BackBuffers - 1
    PROVE  /\ Pie(n, i) \in SwapChain("pie", n) /\ DepthOf(Pie(n, i)) \in SwapChain("pie", n)
           /\ Pie(n, i) \in Resources /\ DepthOf(Pie(n, i)) \in Resources /\ Pie(n, i) # DepthOf(Pie(n, i))
           /\ Pie(n, i)[4] = "present" /\ DepthOf(Pie(n, i))[4] = "depth" /\ Pie(n, i)[1] = "pie"
           /\ DepthOf(Pie(n, i))[1] = "pie"
<1>1. DepthOf(Pie(n, i)) = << "pie", n, 0, "depth" >> /\ i \in Nat
  BY DeviceAssumption DEF DepthOf, Pie
<1> QED BY <1>1 DEF Pie, SwapChain, Resources

LEMMA ChainNames ==
    ASSUME NEW owner \in {"window", "pie"}, NEW n \in Nat
    PROVE  /\ SwapChain(owner, n) \subseteq Resources
           /\ \A r \in SwapChain(owner, n) : r[1] = owner /\ r[4] \in {"present", "depth"}
<1>1. \A i \in 0 .. BackBuffers - 1 : i \in Nat
  BY DeviceAssumption
<1> QED BY <1>1 DEF SwapChain, Resources

LEMMA DepthNames ==
    /\ Depth \in Resources /\ Depth \in SwapChain("window", 0) /\ Depth[4] = "depth" /\ Depth[1] = "window"
    /\ \A i : Depth # BackBuffer(i) /\ BackBuffer(i)[1] = "window" /\ BackBuffer(i)[4] = "present"
BY DEF Depth, Resources, SwapChain, BackBuffer
------------------------------------------------------------------------------
(* The invariant.  First who is where, and what the meshes are.            *)
Recording(p) == p \in {"update", "ticks", "hook", "ui", "uigone", "render"}
Common == {"poll", "flush", "stopped", "begin", "drain", "slot", "update"}
PcOK ==
    /\ host \in {"game", "demo", "editor"}
    /\ host = "game" => pc \in Common \union {"pump", "ticks", "hook"}
    /\ host = "demo" => pc \in Common \union {"uploaded"}
    /\ host = "editor" =>
         pc \in Common \union {"pre", "piegone", "pietick", "view", "viewdrain", "ui", "uigone", "render"}

Named == Paths \union {None, "game", "demo"}
MeshesOK(m, h) ==
    /\ DOMAIN m = {"list", "paths"} /\ m.list \in 0 .. Frames /\ m.paths \in Seq(Named)
    /\ h \in [Ents -> 0 .. Len(m.paths)] /\ (m.list = Frames => m.paths = << >>)

(* The game: only the start scene is wired to the registry.                *)
Entities == [Ents -> [alive : BOOLEAN, life : Nat]]
Scenes == [name : {"start", "other"}, wired : BOOLEAN, active : BOOLEAN, camera : BOOLEAN, ents : Entities]
Wired(ss) == \E k \in 1 .. Len(ss) : ss[k].wired
GameOK ==
    /\ scenes \in Seq(Scenes) /\ loads \in Seq(Ents)
    /\ \A k \in 1 .. Len(scenes) : scenes[k].wired => scenes[k].name = "start"
    /\ Wired(scenes) \/ (handles = NoHandles /\ loads = << >>)

DemoOK == mm = NoMeshManager \/ Len(mm.paths) > 0

(* The editor: play and its window, the loads that wait, and the registry. *)
Showing == [Ents -> Paths \union {None}]
EdFields == {"ents", "registered", "held", "view", "viewSize", "panel", "pie", "shown", "preview"}
PieFields == {"open", "wantsClose", "back", "n", "snap"}
PieBuffers == {r \in Resources : r[1] = "pie"}
EdTyped ==
    /\ DOMAIN ed = EdFields /\ DOMAIN ed.pie = PieFields
    /\ ed.ents \in Showing /\ ed.registered \in Showing /\ ed.held \subseteq PieBuffers /\ ed.view \in Nat
    /\ ed.pie.n \in Nat /\ ed.pie.back \in 0 .. BackBuffers - 1 /\ ed.pie.open \in BOOLEAN
    /\ ed.pie.snap \in Showing \union {<< >>}
EdPlays ==
    IF pc \in {"piegone", "uigone"} THEN ed.pie.open /\ ed.pie.snap = << >>
    ELSE ed.pie.open <=> ed.pie.snap # << >>
EdLoads ==
    /\ ed.pie.open \/ pc = "ui" => loads = << >>
    /\ loads \in Seq([i : Ents, path : Paths])
    /\ \A k \in 1 .. Len(loads) : loads[k].path = ed.ents[loads[k].i]
EdMeshes ==
    /\ ed.preview \in 0 .. Len(mm.paths)
    /\ \A i \in Ents : handles[i] # 0 => mm.paths[handles[i]] = ed.registered[i]
    /\ pc = "ui" => mm.list = gpu.slot /\ \A i \in Ents : handles[i] # 0 => ed.registered[i] = ed.ents[i]
EdOK == EdTyped /\ EdPlays /\ EdLoads /\ EdMeshes

Core ==
    /\ PcOK /\ lines \in 0 .. MaxLines /\ Device(gpu) /\ Paced(gpu, Recording(pc)) /\ MeshesOK(mm, handles)
    /\ host = "game" => GameOK
    /\ host = "demo" => DemoOK
    /\ host = "editor" => EdOK

(* Then the device: what a list under way has done to the resources it may *)
(* use, and which meshes it may draw.                                      *)
Anyhow == host = "game"
Begun == Colored(Rest, BackBuffer(gpu.back), "target")
Sampled == Colored(Colored(Begun, View(ed.view), "sampled"), Preview, "sampled")
Stage == IF pc \in {"ui", "uigone", "render"} THEN Sampled ELSE Begun
Screens ==
    SwapChain("window", 0)
      \union IF host = "editor" THEN Offscreen("view", ed.view) \union Offscreen("preview", 0) ELSE {}
HeldPie == ed.held \intersect SwapChain("pie", ed.pie.n)
Bound ==
    Screens \union IF host = "editor" /\ (pc \in {"uigone", "render"} \/ (pc = "ui" /\ ed.pie.open)) THEN HeldPie ELSE {}
Drawable == IF host = "game" THEN Nat ELSE 1 .. Len(mm.paths)
Feed == Avail(Anyhow, Known(gpu))

(* No list that waits refers to a play window that is gone, the one before *)
(* the last frame's apart.                                                 *)
Fresh(cmds, n) == Uses(cmds, (Resources \ PieBuffers) \union SwapChain("pie", n))
Submits ==
    \A k \in 1 .. Len(gpu.queue) :
      /\ gpu.queue[k].slot \in Slots \/ gpu.queue[k].cmds = << >>
      /\ \/ Fresh(gpu.queue[k].cmds, ed.pie.n)
         \/ gpu.queue[k].slot \in Slots \ {gpu.slot} /\ pc \notin {"update", "ui"}

Alive ==
    /\ Screens \subseteq DOMAIN gpu.states
    /\ host = "editor" =>
         /\ ed.pie.open => SwapChain("pie", ed.pie.n) \subseteq DOMAIN gpu.states
         /\ HeldPie \subseteq DOMAIN gpu.states
Backed ==
    /\ Sound(gpu, Anyhow) /\ Alive
    /\ IF Recording(pc) THEN Open(gpu, Stage, Bound, Feed, Drawable) ELSE Drawable \subseteq Feed
    /\ host = "editor" => Submits

Inv == Core /\ Backed
------------------------------------------------------------------------------
(* Loading meshes.                                                         *)
LEMMA MeshAdded ==
    ASSUME NEW m, NEW h, MeshesOK(m, h), m.list # Frames, NEW path \in Named, NEW i
    PROVE  LET n == WithMesh(m, path)
           IN  /\ MeshesOK(n, [h EXCEPT ![i] = Len(m.paths) + 1]) /\ MeshesOK(n, h)
               /\ n.list = m.list /\ Len(m.paths) \in Nat /\ Len(n.paths) = Len(m.paths) + 1
               /\ \A k \in 1 .. Len(m.paths) : n.paths[k] = m.paths[k]
               /\ n.paths[Len(m.paths) + 1] = path
<1> DEFINE n == WithMesh(m, path)
           l == Len(m.paths)
<1>1. DOMAIN n = {"list", "paths"} /\ n.list = m.list /\ n.paths = Append(m.paths, path)
  BY DEF WithMesh, MeshesOK
<1> HIDE DEF n
<1>2. /\ n.paths \in Seq(Named) /\ l \in Nat /\ Len(n.paths) = l + 1
      /\ \A k \in 1 .. l : n.paths[k] = m.paths[k]
      /\ n.paths[l + 1] = path
  BY <1>1, Appended DEF MeshesOK
<1> HIDE DEF l
<1>3. h \in [Ents -> 0 .. l]
  BY DEF MeshesOK, l
<1>4. h \in [Ents -> 0 .. l + 1] /\ [h EXCEPT ![i] = l + 1] \in [Ents -> 0 .. l + 1]
  <2>1. 0 .. l \subseteq 0 .. l + 1 /\ l + 1 \in 0 .. l + 1
    BY <1>2
  <2> DEFINE R == 0 .. l + 1
             e == l + 1
  <2> HIDE DEF R, e
  <2>2. h \in [Ents -> R] /\ e \in R
    BY <1>3, <2>1 DEF R, e
  <2>3. [h EXCEPT ![i] = e] \in [Ents -> R]
    BY <2>2
  <2> QED BY <2>2, <2>3 DEF R, e
<1> QED BY <1>1, <1>2, <1>4 DEF MeshesOK, n, l

LEMMA OwnCopy ==
    ASSUME NEW g, NEW a, NEW D, NEW U, NEW K, Open(g, a, D, U, K), Depth \in D, a[Depth] = "depth",
           NEW m, m.list = g.slot, Len(m.paths) \in Nat
    PROVE  Opened(g, UploadStatic(g, m), a, D, U, K \union {Len(m.paths) + 1})
<1> DEFINE n == Len(m.paths) + 1
<1>1. n \in Nat
  OBVIOUS
<1>2. UploadStatic(g, m) = Record(g, g.slot, << Copy(n) >>)
  BY DEF UploadStatic
<1> HIDE DEF n
<1>3. Opened(g, Record(g, g.slot, << Copy(n) >>), a, D, U, K \union {n})
  BY <1>1, CopyOpen DEF Opened
<1> QED BY <1>2, <1>3 DEF n

(* A mesh's textures go to the list of the frame.                          *)
LEMMA TextureCopied ==
    ASSUME NEW g, NEW a, NEW D, NEW U, NEW K, Open(g, a, D, U, K), Depth \in D, a[Depth] = "depth", NEW m \in Nat
    PROVE  Opened(g, UploadTexture(g, m), a, D, U, K)
<1> DEFINE c == TextureCopy(m)
           x == Record(g, g.slot, << c >>)
           t == x.textures \union {m}
           h == [x EXCEPT !.textures = t]
           b == Colored(a, Depth, "depth")
<1>0. Depth \in Resources
  BY DEF Depth, Resources
<1>1. /\ c \in Commands /\ c.res = Depth /\ c.from = "depth" /\ c.to = "depth"
      /\ c.copy = FALSE /\ c.mesh \in K \union {0}
  BY <1>0 DEF TextureCopy, Commands, States
<1>2. UploadTexture(g, m) = h
  BY DEF UploadTexture
<1>3. a \in Maps
  BY DEF Open, ListOK
<1>4. b = a
  BY <1>0, <1>3 DEF Colored, Maps
<1> HIDE DEF c, b, t
<1>5. Opened(g, x, a, D, U, K)
  <2>1. Opened(g, Record(g, g.slot, << c >>), Colored(a, c.res, c.to), D, U, K)
    BY <1>1, RecordOne
  <2>2. Colored(a, c.res, c.to) = b
    BY <1>1 DEF b
  <2> QED BY <1>4, <2>1, <2>2
<1> HIDE DEF x
<1>6. Open(x, a, D, U, K) /\ Kept(g, x) /\ x.states = g.states /\ x.held = g.held /\ Device(x)
  BY <1>5 DEF Opened, Open
<1>7. Kept(x, h) /\ h.lists = x.lists /\ h.states = x.states /\ h.held = x.held
  BY <1>6, TexturesGive
<1> HIDE DEF h
<1>8. Device(h) /\ h.slot = x.slot
  BY <1>6, <1>7, KeptDevice DEF Kept
<1>9. Open(h, a, D, U, K)
  BY <1>6, <1>7, <1>8, OpenStays
<1>10. Kept(g, h)
  BY <1>6, <1>7, KeptOnwards
<1> QED BY <1>2, <1>6, <1>7, <1>9, <1>10 DEF Opened

LEMMA OpenedOn ==
    ASSUME NEW g, NEW x, NEW y, NEW a, NEW D, NEW U, NEW K, NEW L, Opened(g, x, a, D, U, K), Opened(x, y, a, D, U, L)
    PROVE  Opened(g, y, a, D, U, L)
BY KeptOnwards DEF Opened

(* The game copies to whichever list its manager was made with.            *)
LEMMA AnyCopy ==
    ASSUME NEW g, NEW a, NEW D, Open(g, a, D, Nat, Nat), Depth \in D, a[Depth] = "depth",
           NEW m, Len(m.paths) \in Nat
    PROVE  Opened(g, UploadStatic(g, m), a, D, Nat, Nat)
<1>1. CASE m.list = g.slot
  <2>1. Opened(g, UploadStatic(g, m), a, D, Nat, Nat \union {Len(m.paths) + 1})
    BY <1>1, OwnCopy
  <2>2. Nat \union {Len(m.paths) + 1} = Nat
    OBVIOUS
  <2> QED BY <2>1, <2>2
<1>2. CASE m.list # g.slot
  <2> DEFINE q == << Copy(Len(m.paths) + 1) >>
             s == m.list
             h == Record(g, s, q)
  <2>1. Device(g) /\ g.slot \in Slots /\ q \in Seq(Commands) /\ h = UploadStatic(g, m)
    BY CopyTyped DEF Open, Device, UploadStatic
  <2>s. s # g.slot
    BY <1>2
  <2> HIDE DEF q, s
  <2>2. Kept(g, h) /\ h.states = g.states /\ h.held = g.held /\ \A t \in Slots : t # s => h.lists[t] = g.lists[t]
    BY <2>1, RecordGives
  <2> HIDE DEF h
  <2>3. Device(h) /\ h.slot = g.slot
    BY <2>1, <2>2, KeptDevice DEF Kept
  <2>4. h.lists[g.slot] = g.lists[g.slot]
    BY <2>1, <2>2, <2>s
  <2>5. Open(h, a, D, Nat, Nat)
    BY <2>3, <2>4 DEF Open
  <2> QED BY <2>1, <2>2, <2>5 DEF Opened
<1> QED BY <1>1, <1>2
(* One load of the game.                                                   *)
Loading(acc, a, D) ==
    /\ Kept(gpu, acc.gpu) /\ acc.gpu.states = gpu.states /\ Open(acc.gpu, a, D, Nat, Nat)
    /\ MeshesOK(acc.mm, acc.handles) /\ acc.mm.list # Frames

LEMMA UploadOneGives ==
    ASSUME NEW acc, NEW a, NEW D, Loading(acc, a, D), Depth \in D, a[Depth] = "depth", NEW ok, NEW i
    PROVE  Loading(UploadOne(ok, acc, i), a, D)
<1>2. CASE i \in ok
  <2> DEFINE g == acc.gpu
             m == acc.mm
             h == acc.handles
             x0 == UploadStatic(g, m)
             x == Textured(x0, Len(m.paths) + 1)
             y == WithMesh(m, "game")
             z == [h EXCEPT ![i] = Len(m.paths) + 1]
  <2>1. UploadOne(ok, acc, i) = [gpu |-> x, mm |-> y, handles |-> z]
    BY <1>2 DEF UploadOne
  <2>2. /\ Kept(gpu, g) /\ g.states = gpu.states /\ Open(g, a, D, Nat, Nat) /\ MeshesOK(m, h)
        /\ m.list # Frames
    BY DEF Loading
  <2> HIDE DEF g, m, h
  <2>3. "game" \in Named
    BY DEF Named
  <2>4. MeshesOK(y, z) /\ Len(m.paths) \in Nat /\ y.list = m.list
    BY <2>2, <2>3, MeshAdded
  <2>5. Opened(g, x, a, D, Nat, Nat)
    <3>1. Opened(g, x0, a, D, Nat, Nat)
      BY <2>2, <2>4, AnyCopy
    <3> DEFINE n == Len(m.paths) + 1
    <3>2. x = x0 \/ x = UploadTexture(x0, n)
      BY DEF Textured
    <3>3. n \in Nat
      BY <2>4
    <3> HIDE DEF x0, x, n
    <3>4. Open(x0, a, D, Nat, Nat)
      BY <3>1 DEF Opened
    <3>5. Opened(x0, UploadTexture(x0, n), a, D, Nat, Nat)
      BY <3>3, <3>4, TextureCopied
    <3>6. Opened(g, UploadTexture(x0, n), a, D, Nat, Nat)
      BY <3>1, <3>5, OpenedOn
    <3> QED BY <3>1, <3>2, <3>6
  <2> HIDE DEF x, y, z
  <2>6. Kept(gpu, x) /\ x.states = gpu.states /\ Open(x, a, D, Nat, Nat)
    BY <2>2, <2>5, KeptOnwards DEF Opened
  <2> QED BY <2>1, <2>2, <2>4, <2>6 DEF Loading
<1>3. CASE i \notin ok
  BY <1>3 DEF UploadOne
<1> QED BY <1>2, <1>3

LEMMA UploadsGive ==
    ASSUME NEW a, NEW D, Device(gpu), Open(gpu, a, D, Nat, Nat), Depth \in D, a[Depth] = "depth",
           MeshesOK(mm, handles), Len(loads) \in Nat, NEW ok
    PROVE  Loading(Uploads(ok), a, D) /\ (loads = << >> => Uploads(ok).handles = handles)
<1>1. PICK f : /\ Uploads(ok) = f[Len(loads)] /\ f[0] = UploadsStart
               /\ \A k \in 1 .. Len(loads) : f[k] = UploadOne(ok, f[k - 1], loads[k])
  BY UploadsRun
<1>2. Loading(UploadsStart, a, D)
  <2> DEFINE x == [gpu EXCEPT !.held = FALSE]
             m == IF mm.list = Frames THEN MeshManager(gpu) ELSE mm
  <2>1. UploadsStart = [gpu |-> x, handles |-> handles, mm |-> m]
    BY DEF UploadsStart
  <2>2. Kept(gpu, x) /\ x.states = gpu.states /\ x.lists = gpu.lists
    BY HeldGives
  <2> HIDE DEF x
  <2>3. Device(x) /\ x.slot = gpu.slot
    BY <2>2, KeptDevice DEF Kept
  <2>4. Open(x, a, D, Nat, Nat)
    BY <2>2, <2>3, OpenStays
  <2>5. MeshesOK(m, handles) /\ m.list # Frames
    <3>1. CASE mm.list = Frames
      <4>1. m = [list |-> gpu.slot, paths |-> << >>] /\ mm.paths = << >>
        BY <3>1 DEF MeshManager, NoMeshManager, MeshesOK
      <4>2. gpu.slot \in 0 .. Frames /\ gpu.slot # Frames
        BY DeviceAssumption DEF Device, Slots
      <4>3. DOMAIN m = {"list", "paths"} /\ m.list = gpu.slot /\ m.paths = << >> /\ m.paths = mm.paths
        BY <4>1
      <4> HIDE DEF m
      <4> QED BY <4>2, <4>3 DEF MeshesOK
    <3>2. CASE mm.list # Frames
      BY <3>2
    <3> QED BY <3>1, <3>2
  <2> HIDE DEF m
  <2> QED BY <2>1, <2>2, <2>4, <2>5 DEF Loading
<1> DEFINE S == {k \in Nat : k <= Len(loads) => Loading(f[k], a, D)}
<1>3. 0 \in S
  BY <1>1, <1>2
<1>4. ASSUME NEW k \in Nat, k \in S PROVE k + 1 \in S
  <2> SUFFICES ASSUME k + 1 <= Len(loads) PROVE Loading(f[k + 1], a, D)
    OBVIOUS
  <2>1. k + 1 \in 1 .. Len(loads) /\ (k + 1) - 1 = k /\ k <= Len(loads)
    OBVIOUS
  <2>2. Loading(f[k], a, D) /\ f[k + 1] = UploadOne(ok, f[k], loads[k + 1])
    BY <1>1, <1>4, <2>1
  <2> QED BY <2>2, UploadOneGives
<1>5. Loading(f[Len(loads)], a, D)
  <2> HIDE DEF S
  <2>1. Len(loads) \in S
    BY <1>3, <1>4, SetInduction
  <2> QED BY <2>1 DEF S
<1>6. ASSUME loads = << >> PROVE Uploads(ok).handles = handles
  <2>1. Len(loads) = 0
    BY <1>6
  <2> QED BY <1>1, <2>1 DEF UploadsStart
<1> QED BY <1>1, <1>5, <1>6
------------------------------------------------------------------------------
(* The editor's scan and drain.                                            *)
Wanting(w) == {l \in [i : Ents, path : Paths] : l.path = w[l.i]}

LEMMA AskingGives ==
    ASSUME NEW w \in Showing, NEW T, \A i \in T : w[i] # None
    PROVE  Asking(w, Those(T)) \in Seq(Wanting(w))
<1> DEFINE s == Those(T)
           a == Asking(w, s)
<1>1. s \in Seq(T \intersect Ents)
  BY ThoseGives
<1>2. a = [k \in 1 .. Len(s) |-> [i |-> s[k], path |-> w[s[k]]]]
  BY DEF Asking
<1> HIDE DEF s, a
<1>3. Len(s) \in Nat /\ \A k \in 1 .. Len(s) : s[k] \in T /\ s[k] \in Ents
  BY <1>1, LenProperties, ElementOfSeq
<1>4. \A k \in 1 .. Len(s) : [i |-> s[k], path |-> w[s[k]]] \in Wanting(w)
  <2> SUFFICES ASSUME NEW k \in 1 .. Len(s) PROVE [i |-> s[k], path |-> w[s[k]]] \in Wanting(w)
    OBVIOUS
  <2>1. s[k] \in Ents /\ w[s[k]] \in Paths
    BY <1>3 DEF Showing
  <2> QED BY <2>1 DEF Wanting
<1>5. a \in [1 .. Len(s) -> Wanting(w)]
  BY <1>2, <1>4
<1> QED BY <1>3, <1>5 DEF a, s

Asks(w, l) == l \in Seq([i : Ents, path : Paths]) /\ \A k \in 1 .. Len(l) : l[k].path = w[l[k].i]

LEMMA WantingLoads ==
    ASSUME NEW w, NEW l, l \in Seq(Wanting(w)) PROVE Asks(w, l)
<1> DEFINE R == [i : Ents, path : Paths]
           W == Wanting(w)
<1>0. W = {x \in R : x.path = w[x.i]}
  BY DEF Wanting
<1>1. Len(l) \in Nat /\ l \in [1 .. Len(l) -> W]
  BY LenProperties
<1> HIDE DEF R, W
<1>2. l \in [1 .. Len(l) -> R] /\ \A k \in 1 .. Len(l) : l[k] \in W
  BY <1>0, <1>1
<1>3. l \in Seq(R)
  BY <1>1, <1>2
<1> QED BY <1>0, <1>2, <1>3 DEF R, Asks

LEMMA LoadsWanting ==
    ASSUME NEW w, NEW l, l \in Seq([i : Ents, path : Paths]), \A k \in 1 .. Len(l) : l[k].path = w[l[k].i]
    PROVE  l \in Seq(Wanting(w))
<1> DEFINE R == [i : Ents, path : Paths]
           W == Wanting(w)
<1>0. W = {x \in R : x.path = w[x.i]}
  BY DEF Wanting
<1>1. Len(l) \in Nat /\ l \in [1 .. Len(l) -> R]
  BY LenProperties
<1> HIDE DEF R, W
<1>2. \A k \in 1 .. Len(l) : l[k] \in W
  BY <1>0, <1>1
<1>3. l \in [1 .. Len(l) -> W]
  BY <1>1, <1>2
<1>4. l \in Seq(W)
  BY <1>1, <1>3
<1> QED BY <1>4 DEF W

(* Handles that belong to what the entities show.                          *)
Registry(m, h, r) == \A i \in Ents : h[i] # 0 => m.paths[h[i]] = r[i] /\ r[i] = ed.ents[i]

LEMMA ScannedGives ==
    ASSUME EdOK, MeshesOK(mm, handles)
    PROVE  /\ MeshesOK(mm, Scanned.handles) /\ Scanned.registered \in Showing
           /\ Registry(mm, Scanned.handles, Scanned.registered)
           /\ Scanned.loads \in Seq(Wanting(ed.ents))
<1> DEFINE h == Scanned.handles
           r == Scanned.registered
           more == Asking(ed.ents, Those({i \in Ents : ed.ents[i] # None /\ Stale(i) /\ ~Queued(i)}))
<1>1. /\ h = [i \in Ents |-> IF Evicted(i) THEN 0 ELSE handles[i]]
      /\ r = [i \in Ents |-> IF Evicted(i) /\ handles[i] # 0 THEN None ELSE ed.registered[i]]
      /\ Scanned.loads = loads \o more
  BY DEF Scanned
<1>2. more \in Seq(Wanting(ed.ents))
  BY AskingGives DEF EdOK, EdTyped
<1>3. loads \in Seq(Wanting(ed.ents))
  BY LoadsWanting DEF EdOK, EdLoads
<1> HIDE DEF h, r, more
<1>4. loads \o more \in Seq(Wanting(ed.ents))
  BY <1>2, <1>3, ConcatProperties
<1>5. MeshesOK(mm, h)
  <2> DEFINE R == 0 .. Len(mm.paths)
  <2>1. Len(mm.paths) \in Nat
    BY LenProperties DEF MeshesOK
  <2>2. 0 \in R
    BY <2>1
  <2>3. handles \in [Ents -> R]
    BY DEF MeshesOK
  <2> HIDE DEF R
  <2>4. h \in [Ents -> R]
    BY <1>1, <2>2, <2>3
  <2> QED BY <2>4 DEF MeshesOK, R
<1>6. r \in Showing
  BY <1>1 DEF EdOK, EdTyped, Showing
<1>7. Registry(mm, h, r)
  <2> SUFFICES ASSUME NEW i \in Ents, h[i] # 0 PROVE mm.paths[h[i]] = r[i] /\ r[i] = ed.ents[i]
    BY DEF Registry
  <2>1. ~Evicted(i) /\ h[i] = handles[i] /\ r[i] = ed.registered[i]
    BY <1>1
  <2>2. mm.paths[handles[i]] = ed.registered[i]
    BY <2>1 DEF EdOK, EdMeshes
  <2> QED BY <2>1, <2>2 DEF Evicted, Stale
<1> QED BY <1>1, <1>4, <1>5, <1>6, <1>7 DEF h, r

LEMMA RegistryGrows ==
    ASSUME NEW m, NEW h, NEW r \in Showing, MeshesOK(m, h), m.list # Frames, Registry(m, h, r),
           NEW i \in Ents, NEW p \in Named, p = ed.ents[i], p \in Paths
    PROVE  /\ Registry(WithMesh(m, p), [h EXCEPT ![i] = Len(m.paths) + 1], [r EXCEPT ![i] = p])
           /\ [r EXCEPT ![i] = p] \in Showing
<1> DEFINE n == WithMesh(m, p)
           l == Len(m.paths)
<1>1. /\ l \in Nat
      /\ \A k \in 1 .. l : n.paths[k] = m.paths[k]
      /\ n.paths[l + 1] = p
  BY MeshAdded
<1>2. h \in [Ents -> 0 .. l]
  BY DEF MeshesOK
<1> HIDE DEF n, l
<1> DEFINE x == [h EXCEPT ![i] = l + 1]
           y == [r EXCEPT ![i] = p]
<1>3. \A j \in Ents : x[j] = (IF j = i THEN l + 1 ELSE h[j]) /\ y[j] = (IF j = i THEN p ELSE r[j])
  BY <1>2 DEF Showing
<1>4. y \in Showing
  BY DEF Showing
<1> HIDE DEF x, y
<1>5. ASSUME NEW j \in Ents, x[j] # 0 PROVE n.paths[x[j]] = y[j] /\ y[j] = ed.ents[j]
  <2>1. CASE j = i
    BY <1>1, <1>3, <2>1
  <2>2. CASE j # i
    <3>1. x[j] = h[j] /\ y[j] = r[j] /\ h[j] \in 1 .. l
      BY <1>1, <1>2, <1>3, <1>5, <2>2
    <3>2. m.paths[h[j]] = r[j] /\ r[j] = ed.ents[j]
      BY <1>5, <3>1 DEF Registry
    <3> QED BY <1>1, <3>1, <3>2
  <2> QED BY <2>1, <2>2
<1>6. Registry(n, x, y)
  BY <1>5 DEF Registry
<1> QED BY <1>4, <1>6 DEF n, l, x, y

(* One load of the editor.                                                 *)
Draining(acc, a, D, U) ==
    /\ Opened(gpu, acc.gpu, a, D, U, 1 .. Len(acc.mm.paths)) /\ acc.mm.list = gpu.slot
    /\ MeshesOK(acc.mm, acc.handles) /\ acc.registered \in Showing
    /\ Registry(acc.mm, acc.handles, acc.registered)
    /\ Len(acc.mm.paths) >= Len(mm.paths)

LEMMA DrainOneGives ==
    ASSUME NEW acc, NEW a, NEW D, NEW U, Draining(acc, a, D, U), Depth \in D, a[Depth] = "depth",
           NEW good, NEW l \in Wanting(ed.ents), Device(gpu), Len(mm.paths) \in Nat
    PROVE  Draining(DrainOne(good, acc, l), a, D, U)
<1>1. CASE l.path \in good
  <2> DEFINE g == acc.gpu
             m == acc.mm
             h == acc.handles
             r == acc.registered
             n == Len(m.paths)
             x0 == UploadStatic(g, m)
             x == UploadTexture(x0, n + 1)
             y == WithMesh(m, l.path)
             z == [h EXCEPT ![l.i] = n + 1]
             t == [r EXCEPT ![l.i] = l.path]
  <2>1. DrainOne(good, acc, l) = [gpu |-> x, mm |-> y, handles |-> z, registered |-> t]
    BY <1>1 DEF DrainOne
  <2>2. /\ Opened(gpu, g, a, D, U, 1 .. n) /\ m.list = gpu.slot /\ MeshesOK(m, h) /\ r \in Showing
        /\ Registry(m, h, r) /\ n >= Len(mm.paths)
    BY DEF Draining
  <2>3. m.list # Frames
    BY <2>2, DeviceAssumption DEF Device, Slots
  <2>4. l.path \in Named /\ l.path \in Paths /\ l.i \in Ents /\ l.path = ed.ents[l.i]
    BY DEF Wanting, Named
  <2> HIDE DEF g, m, h, r
  <2>5. MeshesOK(y, z) /\ n \in Nat /\ Len(y.paths) = n + 1 /\ y.list = m.list
    BY <2>2, <2>3, <2>4, MeshAdded
  <2>6. Registry(y, z, t) /\ t \in Showing
    BY <2>2, <2>3, <2>4, RegistryGrows
  <2>7. Opened(gpu, x, a, D, U, 1 .. Len(y.paths))
    <3>1. g.slot = gpu.slot /\ Open(g, a, D, U, 1 .. n)
      BY <2>2 DEF Opened, Kept
    <3> DEFINE K == 1 .. n
    <3>2. Open(g, a, D, U, K) /\ m.list = g.slot /\ Len(m.paths) \in Nat
      BY <2>2, <2>5, <3>1
    <3> DEFINE J == K \union {Len(m.paths) + 1}
    <3>n. n + 1 \in Nat
      BY <2>5
    <3> HIDE DEF K, x, n
    <3>c. Opened(g, x0, a, D, U, J)
      BY <3>2, OwnCopy DEF x0
    <3> HIDE DEF x0, J
    <3>d. Open(x0, a, D, U, J)
      BY <3>c DEF Opened
    <3>e. Opened(x0, x, a, D, U, J)
      BY <3>n, <3>d, TextureCopied DEF x
    <3>3. Opened(g, x, a, D, U, K \union {Len(m.paths) + 1})
      BY <3>c, <3>e, OpenedOn DEF J
    <3>4. K \union {Len(m.paths) + 1} = 1 .. Len(y.paths)
      BY <2>5 DEF K, n
    <3> DEFINE L == 1 .. Len(y.paths)
    <3>5. Opened(g, x, a, D, U, L)
      BY <3>3, <3>4
    <3> HIDE DEF L
    <3>6. Opened(gpu, g, a, D, U, K)
      BY <2>2 DEF K
    <3>7. Kept(gpu, x) /\ x.states = gpu.states /\ x.held = gpu.held /\ Open(x, a, D, U, L)
      BY <3>5, <3>6, KeptOnwards DEF Opened
    <3>8. Opened(gpu, x, a, D, U, L)
      BY <3>7 DEF Opened
    <3> QED BY <3>8 DEF L
  <2>8. Len(y.paths) >= Len(mm.paths)
    BY <2>2, <2>5
  <2> HIDE DEF x, y, z, t
  <2>9. y.list = gpu.slot
    BY <2>2, <2>5
  <2> QED BY <2>1, <2>5, <2>6, <2>7, <2>8, <2>9 DEF Draining
<1>2. CASE l.path \notin good
  BY <1>2 DEF DrainOne
<1> QED BY <1>1, <1>2

LEMMA DrainGives ==
    ASSUME EdOK, MeshesOK(mm, handles), Device(gpu), NEW a, NEW D, NEW U,
           Open(gpu, a, D, U, 1 .. Len(mm.paths)), Depth \in D, a[Depth] = "depth", NEW good
    PROVE  Draining(Drain(Scanned, SyncCommandList(gpu, mm), good), a, D, U)
<1> DEFINE sc == Scanned
           m == SyncCommandList(gpu, mm)
           start == DrainStart(sc, m)
           s == sc.loads
<1>1. /\ MeshesOK(mm, sc.handles) /\ sc.registered \in Showing
      /\ Registry(mm, sc.handles, sc.registered) /\ s \in Seq(Wanting(ed.ents))
  BY ScannedGives
<1>2. Len(s) \in Nat /\ \A k \in 1 .. Len(s) : s[k] \in Wanting(ed.ents)
  BY <1>1, LenProperties, ElementOfSeq
<1>3. Len(mm.paths) \in Nat
  BY LenProperties DEF MeshesOK
<1>4. Draining(start, a, D, U)
  <2>1. start = [gpu |-> gpu, mm |-> m, handles |-> sc.handles, registered |-> sc.registered]
    BY DEF DrainStart
  <2>2. DOMAIN m = {"list", "paths"} /\ m.list = gpu.slot /\ m.paths = mm.paths
    BY DEF SyncCommandList, MeshesOK
  <2>3. gpu.slot \in 0 .. Frames /\ gpu.slot # Frames
    BY DeviceAssumption DEF Device, Slots
  <2> HIDE DEF m, sc
  <2>4. MeshesOK(m, sc.handles) /\ Registry(m, sc.handles, sc.registered)
    BY <1>1, <2>2, <2>3 DEF MeshesOK, Registry
  <2>5. Opened(gpu, gpu, a, D, U, 1 .. Len(m.paths))
    BY <2>2, KeptSame DEF Opened
  <2>6. Len(m.paths) >= Len(mm.paths)
    BY <1>3, <2>2
  <2> HIDE DEF start
  <2> QED BY <1>1, <2>1, <2>2, <2>4, <2>5, <2>6 DEF Draining
<1> HIDE DEF sc, m
<1>5. PICK f : /\ Drain(sc, m, good) = f[Len(s)] /\ f[0] = start
               /\ \A k \in 1 .. Len(s) : f[k] = DrainOne(good, f[k - 1], s[k])
  BY <1>2, DrainRun
<1> HIDE DEF start, s
<1> DEFINE S == {k \in Nat : k <= Len(s) => Draining(f[k], a, D, U)}
<1>6. 0 \in S
  BY <1>4, <1>5
<1>7. ASSUME NEW k \in Nat, k \in S PROVE k + 1 \in S
  <2> SUFFICES ASSUME k + 1 <= Len(s) PROVE Draining(f[k + 1], a, D, U)
    OBVIOUS
  <2>1. k + 1 \in 1 .. Len(s) /\ (k + 1) - 1 = k /\ k <= Len(s)
    BY <1>2
  <2>2. Draining(f[k], a, D, U) /\ f[k + 1] = DrainOne(good, f[k], s[k + 1]) /\ s[k + 1] \in Wanting(ed.ents)
    BY <1>2, <1>5, <1>7, <2>1
  <2> QED BY <1>3, <2>2, DrainOneGives
<1>8. Draining(f[Len(s)], a, D, U)
  <2> HIDE DEF S
  <2>1. Len(s) \in S
    BY <1>2, <1>6, <1>7, SetInduction
  <2> QED BY <1>2, <2>1 DEF S
<1> QED BY <1>5, <1>8 DEF sc, m
------------------------------------------------------------------------------
(* The frame's list between beginFrame and endFrame.                       *)
LEMMA BegunOK ==
    ASSUME Device(gpu), NEW D, SwapChain("window", 0) \subseteq D
    PROVE  /\ Begun \in Maps /\ Begun[Depth] = "depth" /\ Depth \in D /\ BackBuffer(gpu.back) \in D
           /\ Target(BackBuffer(gpu.back), Begun, D) /\ Begun[BackBuffer(gpu.back)] = "target"
           /\ Colored(Begun, BackBuffer(gpu.back), "target") = Begun
           /\ \A r \in Resources : r # BackBuffer(gpu.back) => Begun[r] = r[4]
<1> DEFINE b == BackBuffer(gpu.back)
<1>1. b \in Resources /\ b \in D /\ Depth \in Resources /\ Depth \in D /\ Depth # b /\ Depth[4] = "depth"
  BY BackBufferOK, DepthNames DEF Device
<1>2. DepthOf(b) = Depth
  BY DEF DepthOf, BackBuffer, Depth
<1>3. Rest \in Maps /\ \A r \in Resources : Rest[r] = r[4]
  BY RestMaps DEF Rest
<1>4. Begun = Colored(Rest, b, "target") /\ "target" \in States
  BY DEF Begun, States
<1> HIDE DEF b
<1>5. Begun \in Maps /\ Begun[b] = "target" /\ \A r \in Resources : r # b => Begun[r] = r[4]
  BY <1>1, <1>3, <1>4, ColoredMap
<1>6. Colored(Begun, b, "target") = Begun
  BY <1>3, <1>4, ColoredMap
<1>7. Begun[Depth] = "depth"
  BY <1>1, <1>5
<1>8. Target(b, Begun, D)
  BY <1>1, <1>2, <1>5, <1>7 DEF Target, Pairs
<1> QED BY <1>1, <1>5, <1>6, <1>7, <1>8 DEF b

(* endFrame hands the list to the queue.                                   *)
Ended(g, y, D, K) ==
    /\ Device(y) /\ Paced(y, FALSE) /\ Sound(y, Anyhow) /\ y.states = g.states /\ y.slot = g.slot
    /\ K \subseteq Avail(Anyhow, Known(y))
    /\ \E e \in Entries : y.queue = Append(g.queue, e) /\ e.slot = g.slot /\ Uses(e.cmds, D)

LEMMA FrameEnds ==
    ASSUME Device(gpu), Paced(gpu, TRUE), Sound(gpu, Anyhow), NEW D, SwapChain("window", 0) \subseteq D,
           D \subseteq DOMAIN gpu.states, NEW x, NEW K \in SUBSET Nat, Opened(gpu, x, Begun, D, Feed, K)
    PROVE  Ended(gpu, EndFrame(x), D, K)
<1> DEFINE y == EndFrame(x)
           c == Barrier(BackBuffer(x.back), "target", "present")
           s == x.lists[x.slot].cmds
           e == [slot |-> x.slot, signal |-> x.counter + 1, cmds |-> Append(s, c)]
<1>1. /\ Kept(gpu, x) /\ x.states = gpu.states /\ Device(x) /\ Paced(x, TRUE)
      /\ x.slot = gpu.slot /\ x.back = gpu.back /\ x.queue = gpu.queue
      /\ Open(x, Begun, D, Feed, K)
  BY KeptDevice, PacedKept DEF Opened, Kept
<1>2. Sound(x, Anyhow) /\ Known(x) = Known(gpu)
  BY <1>1, SoundKept
<1>b. Anyhow \in BOOLEAN
  BY DEF Anyhow
<1>3. /\ Device(y) /\ e \in Entries /\ y.queue = Append(x.queue, e)
      /\ y.slot = x.slot /\ y.states = x.states
  BY <1>1, EndFrameGives
<1>4. Paced(y, FALSE)
  BY <1>1, EndFramePaced
<1>5. Sound(y, Anyhow) /\ Known(y) = Known(x) \union Copied(s)
  <2> DEFINE U == Avail(Anyhow, Known(x))
             a == Colored(Rest, BackBuffer(x.back), "target")
  <2>1. Open(x, a, D, U, K) /\ D \subseteq DOMAIN x.states /\ BackBuffer(x.back) \in D
    BY <1>1, <1>2, BegunOK DEF Begun, Feed
  <2> HIDE DEF y, s
  <2> QED BY <1>b, <1>2, <2>1, EndFrameSound DEF y, s
<1>6. ListOK(s, Begun, D, Feed, K)
  BY <1>1 DEF Open
<1>7. K \subseteq Avail(Anyhow, Known(y))
  BY <1>2, <1>5, <1>6 DEF ListOK, Feed, Avail
<1>8. e.slot = gpu.slot /\ e.cmds = Append(s, c)
  BY <1>1
<1>9. Uses(Append(s, c), D)
  <2>1. c \in Commands /\ c.res \in D /\ s \in Seq(Commands) /\ Uses(s, D)
    <3>1. BackBuffer(x.back) \in D /\ x.back \in 0 .. BackBuffers - 1
      BY <1>1, BegunOK DEF Device
    <3>2. c \in Commands
      BY <3>1, BackBufferOK DEF States
    <3> QED BY <1>6, <3>1, <3>2 DEF ListOK, Barrier
  <2> HIDE DEF c, s
  <2>2. \A k \in 1 .. Len(Append(s, c)) : k \in 1 .. Len(s) \/ k = Len(s) + 1
    BY <2>1, Appended
  <2>3. Append(s, c)[Len(s) + 1] = c /\ \A k \in 1 .. Len(s) : Append(s, c)[k] = s[k]
    BY <2>1, Appended
  <2> QED BY <2>1, <2>2, <2>3 DEF Uses
<1> HIDE DEF y, e, s, c
<1>10. Ended(gpu, y, D, K)
  BY <1>1, <1>3, <1>4, <1>5, <1>7, <1>8, <1>9 DEF Ended
<1> QED BY <1>10 DEF y

(* The mark that a frame graph holds the back buffer changes nothing else. *)
LEMMA EndedHeld ==
    ASSUME NEW y, NEW D, NEW K, Ended(gpu, y, D, K), NEW b
    PROVE  Ended(gpu, [y EXCEPT !.held = b], D, K)
<1> DEFINE h == [y EXCEPT !.held = b]
<1>1. Kept(y, h) /\ h.states = y.states
  BY HeldGives DEF Ended
<1> HIDE DEF h
<1>2. Device(h) /\ Paced(h, FALSE) /\ h.slot = y.slot /\ h.queue = y.queue
  BY <1>1, KeptDevice, PacedKept DEF Ended, Kept
<1>3. Sound(h, Anyhow) /\ Known(h) = Known(y)
  BY <1>1, SoundKept DEF Ended
<1>4. Ended(gpu, h, D, K)
  BY <1>1, <1>2, <1>3 DEF Ended
<1> QED BY <1>4 DEF h

(* The screen's graph, for the game and the demo.                          *)
LEMMA ScreenOK ==
    ASSUME Device(gpu), NEW M
    PROVE  LET b == BackBuffer(gpu.back) IN GraphOn(Screen(gpu), b, DepthOf(b), "target", M)
<1> DEFINE b == BackBuffer(gpu.back)
           d == Depth
           t == "target"
<1>1. DepthOf(b) = d
  BY DEF DepthOf, BackBuffer, Depth
<1>2. Screen(gpu) = ImportDepthBuffer(ImportBackBuffer(EmptyGraph, b, t), d)
  BY DEF Screen
<1> HIDE DEF b, d, t
<1>3. GraphOn(Screen(gpu), b, d, t, M)
  BY <1>2, Imported2
<1> QED BY <1>1, <1>3 DEF b, t

LEMMA GameDraws ==
    ASSUME Device(gpu), MeshesOK(mm, handles), NEW D, SwapChain("window", 0) \subseteq D,
           NEW U, Open(gpu, Begun, D, U, Nat), NEW s
    PROVE  Opened(gpu, Execute(gpu, DebugLines(WithMeshes(Screen(gpu), Drawn(Meshes(s), BackBuffer(gpu.back))), gpu)),
                  Begun, D, U, Nat)
<1> DEFINE b == BackBuffer(gpu.back)
           M == Nat \union {0}
           d == DepthOf(b)
           t == "target"
           cmds == Drawn(Meshes(s), b)
           g1 == WithMeshes(Screen(gpu), cmds)
           g2 == DebugLines(g1, gpu)
           more == IF lines = 0 THEN << >> ELSE << Draw(b, 0) >>
<1>1. b \in Resources /\ M \in SUBSET Nat /\ 0 \in M /\ Nat \subseteq M
  BY BackBufferOK DEF Device
<1>2. GraphOn(Screen(gpu), b, d, t, M)
  BY ScreenOK
<1>3. g2 = AddPass(g1, ColorNeeds, more)
  BY DEF DebugLines, ColorNeeds
<1>4. Draws(cmds, b, M)
  <2>1. Meshes(s) \in Seq({i \in Ents : s.ents[i].alive /\ handles[i] # 0} \intersect Ents)
    BY ThoseGives DEF Meshes
  <2>2. Meshes(s) \in Seq(Ents)
    <3> DEFINE T == {i \in Ents : s.ents[i].alive /\ handles[i] # 0} \intersect Ents
               q == Meshes(s)
    <3>1. T \subseteq Ents /\ q \in Seq(T)
      BY <2>1
    <3> HIDE DEF T, q
    <3>2. q \in Seq(Ents)
      BY <3>1
    <3> QED BY <3>2 DEF q
  <2>3. \A i \in Ents : handles[i] \in M
    <3>1. Len(mm.paths) \in Nat /\ handles \in [Ents -> 0 .. Len(mm.paths)]
      BY LenProperties DEF MeshesOK
    <3> QED BY <1>1, <3>1
  <2> DEFINE q == Meshes(s)
  <2>4. cmds = [k \in 1 .. Len(q) |-> DrawScene(gpu, b, handles[q[k]])] /\ q \in Seq(Ents)
    BY <2>2 DEF Drawn
  <2> HIDE DEF q, cmds, b, M
  <2> QED BY <1>1, <2>3, <2>4, EachDrawn
<1>5. Draws(more, b, M)
  <2>1. Draws(<< Draw(b, 0) >>, b, M)
    BY <1>1, OneDrawn
  <2> QED BY <2>1, NoneDrawn
<1>6. ColorNeeds \in {ColorNeeds, BothNeeds}
  OBVIOUS
<1> HIDE DEF cmds, more, g1, g2, d, t
<1>7. GraphOn(g1, b, d, t, M)
  <2> HIDE DEF M, b
  <2> QED BY <1>2, <1>4, MeshesAdded DEF g1
<1>8. GraphOn(g2, b, d, t, M) /\ g2.passes # << >>
  <2> HIDE DEF M, b
  <2> QED BY <1>3, <1>5, <1>6, <1>7, PassAdded
<1>9. Target(b, Begun, D) /\ Begun[b] = t /\ Colored(Begun, b, "target") = Begun
  BY BegunOK DEF t
<1>10. GraphFor(g2, b, Begun[b], Nat)
  BY <1>8, <1>9 DEF GraphFor, d
<1> HIDE DEF b
<1>11. Opened(gpu, Execute(gpu, g2), Colored(Begun, b, "target"), D, U, Nat)
  BY <1>9, <1>10, ExecuteOpen
<1>12. Opened(gpu, Execute(gpu, g2), Begun, D, U, Nat)
  BY <1>9, <1>11
<1> QED BY <1>12 DEF g2, g1, cmds, b

LEMMA DemoDraws ==
    ASSUME Device(gpu), NEW D, SwapChain("window", 0) \subseteq D, NEW K \in SUBSET Nat, 1 \in K,
           NEW U, Open(gpu, Begun, D, U, K)
    PROVE  Opened(gpu, Execute(gpu, WithMeshes(Screen(gpu), << Draw(BackBuffer(gpu.back), 1) >>)), Begun, D, U, K)
<1> DEFINE b == BackBuffer(gpu.back)
           M == K \union {0}
           d == DepthOf(b)
           t == "target"
           cmds == << Draw(b, 1) >>
           g1 == WithMeshes(Screen(gpu), cmds)
<1>1. b \in Resources /\ M \in SUBSET Nat /\ 1 \in M
  BY BackBufferOK DEF Device
<1>2. GraphOn(Screen(gpu), b, d, t, M)
  BY ScreenOK
<1>3. Draws(cmds, b, M)
  BY <1>1, OneDrawn
<1>4. cmds # << >>
  OBVIOUS
<1> HIDE DEF cmds, d, t
<1>5. GraphOn(g1, b, d, t, M) /\ g1.passes # << >>
  <2> HIDE DEF M, b
  <2> QED BY <1>2, <1>3, <1>4, MeshesAdded
<1> HIDE DEF g1
<1>6. Target(b, Begun, D) /\ Begun[b] = t /\ Colored(Begun, b, "target") = Begun
  BY BegunOK DEF t
<1>7. GraphFor(g1, b, Begun[b], K)
  BY <1>5, <1>6 DEF GraphFor, d
<1> HIDE DEF b
<1>8. Opened(gpu, Execute(gpu, g1), Colored(Begun, b, "target"), D, U, K)
  BY <1>6, <1>7, ExecuteOpen
<1>9. Opened(gpu, Execute(gpu, g1), Begun, D, U, K)
  BY <1>6, <1>8
<1> QED BY <1>9 DEF g1, cmds, b
------------------------------------------------------------------------------
(* The editor's three renders.                                             *)
LEMMA EdDrawnOK ==
    ASSUME NEW g, NEW m, NEW h, MeshesOK(m, h), NEW r \in Resources
    PROVE  Draws(EdDrawn(g, h, r), r, (1 .. Len(m.paths)) \union {0})
<1> DEFINE T == {i \in Ents : ed.ents[i] # None /\ h[i] # 0}
           s == Those(T)
           K == 1 .. Len(m.paths)
           M == K \union {0}
           E == T \intersect Ents
<1>1. Len(m.paths) \in Nat /\ h \in [Ents -> 0 .. Len(m.paths)]
  BY LenProperties DEF MeshesOK
<1>2. M \in SUBSET Nat /\ \A i \in Ents : h[i] \in M
  BY <1>1
<1>3. s \in Seq(E) /\ E \subseteq Ents
  BY ThoseGives
<1>4. EdDrawn(g, h, r) = [k \in 1 .. Len(s) |-> DrawScene(g, r, h[s[k]])]
  BY DEF EdDrawn
<1> HIDE DEF T, s, M, E
<1>5. s \in Seq(Ents)
  BY <1>3
<1>6. Draws([k \in 1 .. Len(s) |-> DrawScene(g, r, h[s[k]])], r, M)
  BY <1>2, <1>5, EachDrawn
<1> QED BY <1>4, <1>6 DEF M

(* Where a target stands in the maps of a frame.                           *)
LEMMA TargetOK ==
    ASSUME NEW a \in Maps, NEW D, NEW color \in Resources, DepthOf(color) \in Resources, color # DepthOf(color),
           color \in D, DepthOf(color) \in D, a[DepthOf(color)] = "depth"
    PROVE  Target(color, a, D)
BY DEF Target, Pairs

Viewed == Colored(Begun, View(ed.view), "sampled")

LEMMA ViewedOK ==
    ASSUME Device(gpu), ed.view \in Nat
    PROVE  /\ Begun \in Maps /\ Viewed \in Maps /\ Sampled \in Maps
           /\ Begun[View(ed.view)] = "target" /\ Begun[DepthOf(View(ed.view))] = "depth"
           /\ Viewed[Preview] = "target" /\ Viewed[DepthOf(Preview)] = "depth"
           /\ \A r \in PieBuffers : Viewed[r] = r[4]
           /\ Colored(Viewed, Preview, "sampled") = Sampled
<1> DEFINE b == BackBuffer(gpu.back)
           v == View(ed.view)
<1>1. Begun \in Maps /\ \A r \in Resources : r # b => Begun[r] = r[4]
  BY BegunOK
<1>2. b[1] = "window"
  BY DepthNames
<1>3. /\ v \in Resources /\ DepthOf(v) \in Resources /\ v[1] = "view" /\ DepthOf(v)[1] = "view"
      /\ v[4] = "target" /\ DepthOf(v)[4] = "depth"
  BY ViewNames
<1>4. /\ Preview \in Resources /\ DepthOf(Preview) \in Resources /\ Preview[1] = "preview"
      /\ DepthOf(Preview)[1] = "preview" /\ Preview[4] = "target" /\ DepthOf(Preview)[4] = "depth"
  BY PreviewNames
<1>5. \A r \in PieBuffers : r \in Resources /\ r[1] = "pie"
  BY DEF PieBuffers
<1>6. Viewed = Colored(Begun, v, "sampled") /\ "sampled" \in States
  BY DEF Viewed, States
<1> HIDE DEF b, v
<1>7. Viewed \in Maps /\ \A r \in Resources : r # v => Viewed[r] = Begun[r]
  BY <1>1, <1>6, ColoredMap
<1>8. Begun[v] = "target" /\ Begun[DepthOf(v)] = "depth"
  BY <1>1, <1>2, <1>3
<1>9. Viewed[Preview] = "target" /\ Viewed[DepthOf(Preview)] = "depth"
  BY <1>1, <1>2, <1>3, <1>4, <1>7
<1>10. \A r \in PieBuffers : Viewed[r] = r[4]
  BY <1>1, <1>2, <1>3, <1>5, <1>7
<1>11. Colored(Viewed, Preview, "sampled") = Sampled
  BY DEF Sampled, Viewed
<1>12. Sampled \in Maps
  BY <1>6, <1>7, <1>11, ColoredMap
<1> QED BY <1>1, <1>7, <1>8, <1>9, <1>10, <1>11, <1>12 DEF v

LEMMA ViewRenders ==
    ASSUME NEW g, NEW D, NEW U, NEW m, NEW h, MeshesOK(m, h), Device(gpu), ed.view \in Nat,
           Offscreen("view", ed.view) \subseteq D, Open(g, Begun, D, U, 1 .. Len(m.paths))
    PROVE  Opened(g, RenderView(g, h), Viewed, D, U, 1 .. Len(m.paths))
<1> DEFINE v == View(ed.view)
           K == 1 .. Len(m.paths)
           graph == WithMeshes(Cleared(Onto(v, "target"), v), EdDrawn(g, h, v))
           st == "target"
           to == "sampled"
<1>1. RenderView(g, h) = Record(Execute(g, graph), g.slot, << Barrier(v, "target", to) >>)
  BY DEF RenderView
<1>2. /\ v \in Resources /\ DepthOf(v) \in Resources /\ v # DepthOf(v) /\ v \in D /\ DepthOf(v) \in D
      /\ Begun \in Maps /\ Begun[v] = st /\ Begun[DepthOf(v)] = "depth"
  BY ViewNames, ViewedOK
<1>3. K \in SUBSET Nat /\ to \in States
  BY DEF States
<1>4. Draws(EdDrawn(g, h, v), v, K \union {0})
  BY <1>2, EdDrawnOK
<1>d. graph = WithMeshes(Cleared(Onto(v, st), v), EdDrawn(g, h, v))
  OBVIOUS
<1> HIDE DEF v, K, graph, st, to
<1>5. GraphFor(graph, v, st, K)
  BY <1>2, <1>3, <1>4, <1>d, ClearedOK
<1>6. Target(v, Begun, D)
  BY <1>2, TargetOK
<1>7. Open(g, Begun, D, U, K)
  BY DEF K
<1>8. GraphFor(graph, v, Begun[v], K)
  BY <1>2, <1>5
<1>9. Opened(g, Record(Execute(g, graph), g.slot, << Barrier(v, "target", to) >>), Colored(Begun, v, to), D, U, K)
  BY <1>3, <1>6, <1>7, <1>8, RenderOnto
<1> QED BY <1>1, <1>9 DEF Viewed, v, K, to

LEMMA PreviewRenders ==
    ASSUME NEW g, NEW D, NEW U, NEW n \in Nat, Device(gpu), ed.view \in Nat, ed.preview \in 0 .. n,
           Offscreen("preview", 0) \subseteq D, Open(g, Viewed, D, U, 1 .. n)
    PROVE  Opened(g, RenderPreview(g), Sampled, D, U, 1 .. n)
<1> DEFINE v == Preview
           K == 1 .. n
           needs == << [h |-> 1, to |-> "target"], [h |-> 2, to |-> "depth"] >>
           graph == AddPass(Onto(v, "target"), needs, << Draw(v, ed.preview) >>)
           st == "target"
           to == "sampled"
           p == ed.preview
<1>1. RenderPreview(g) = Record(Execute(g, graph), g.slot, << Barrier(v, "target", to) >>)
  BY DEF RenderPreview
<1>2. /\ v \in Resources /\ DepthOf(v) \in Resources /\ v # DepthOf(v) /\ v \in D /\ DepthOf(v) \in D
      /\ Viewed \in Maps /\ Viewed[v] = st /\ Viewed[DepthOf(v)] = "depth" /\ Colored(Viewed, v, to) = Sampled
  BY PreviewNames, ViewedOK
<1>3. K \in SUBSET Nat /\ to \in States /\ p \in K \union {0}
  BY DEF States
<1>4. GraphFor(AddPass(Onto(v, st), needs, << Draw(v, p) >>), v, st, K)
  <2> HIDE DEF v, K, st, p
  <2> QED BY <1>2, <1>3, PreviewOK
<1>5. GraphFor(graph, v, st, K)
  BY <1>4
<1> HIDE DEF v, K, graph, st, to, p
<1>6. Target(v, Viewed, D)
  BY <1>2, TargetOK
<1>7. Open(g, Viewed, D, U, K)
  BY DEF K
<1>8. GraphFor(graph, v, Viewed[v], K)
  BY <1>2, <1>5
<1>9. Opened(g, Record(Execute(g, graph), g.slot, << Barrier(v, "target", to) >>), Colored(Viewed, v, to), D, U, K)
  BY <1>3, <1>6, <1>7, <1>8, RenderOnto
<1> QED BY <1>1, <1>2, <1>9 DEF K

LEMMA PieRenders ==
    ASSUME NEW g, NEW D, NEW U, NEW m, NEW h, MeshesOK(m, h), Device(gpu), ed.view \in Nat,
           ed.pie.n \in Nat, ed.pie.back \in 0 .. BackBuffers - 1,
           Imported(Pie(ed.pie.n, ed.pie.back)) \subseteq D,
           Open(g, Viewed, D, U, 1 .. Len(m.paths))
    PROVE  LET r == Released(g, ed.held \ SwapChain("pie", ed.pie.n))
           IN  Open(r, Viewed, D, U, 1 .. Len(m.paths)) /\ Kept(g, r)
               /\ Opened(r, RenderPie(g, h), Viewed, D, U, 1 .. Len(m.paths))
<1> DEFINE b == Pie(ed.pie.n, ed.pie.back)
           K == 1 .. Len(m.paths)
           r == Released(g, ed.held \ SwapChain("pie", ed.pie.n))
           graph == WithMeshes(Cleared(Onto(b, "present"), b), EdDrawn(g, h, b))
           st == "present"
           to == "present"
<1>1. RenderPie(g, h) = Record(Execute(r, graph), g.slot, << Barrier(b, "target", to) >>)
  BY DEF RenderPie
<1>2. /\ b \in Resources /\ DepthOf(b) \in Resources /\ b # DepthOf(b) /\ b \in D /\ DepthOf(b) \in D
      /\ Viewed \in Maps /\ Viewed[b] = st /\ Viewed[DepthOf(b)] = "depth"
  <2>1. /\ b \in Resources /\ DepthOf(b) \in Resources /\ b # DepthOf(b) /\ b[4] = st /\ DepthOf(b)[4] = "depth"
        /\ b[1] = "pie" /\ DepthOf(b)[1] = "pie"
    BY PieNames
  <2>2. b \in PieBuffers /\ DepthOf(b) \in PieBuffers /\ b \in D /\ DepthOf(b) \in D
    BY <2>1 DEF PieBuffers, Imported
  <2> HIDE DEF b
  <2> QED BY <2>1, <2>2, ViewedOK
<1>3. K \in SUBSET Nat /\ to \in States
  BY DEF States
<1>4. Draws(EdDrawn(g, h, b), b, K \union {0})
  BY <1>2, EdDrawnOK
<1>d. graph = WithMeshes(Cleared(Onto(b, st), b), EdDrawn(g, h, b))
  OBVIOUS
<1>r. Kept(g, r) /\ r.lists = g.lists /\ Device(g)
  BY ReleasedGives DEF Open
<1>s. st = to
  OBVIOUS
<1> HIDE DEF b, K, graph, st, to, r
<1>5. GraphFor(graph, b, st, K)
  BY <1>2, <1>3, <1>4, <1>d, ClearedOK
<1>6. Target(b, Viewed, D)
  BY <1>2, TargetOK
<1>7. Open(g, Viewed, D, U, K)
  BY DEF K
<1>8. Device(r) /\ r.slot = g.slot
  BY <1>r, KeptDevice DEF Kept
<1>9. Open(r, Viewed, D, U, K)
  BY <1>7, <1>8, <1>r, OpenStays
<1>10. GraphFor(graph, b, Viewed[b], K)
  BY <1>2, <1>5
<1>11. Opened(r, Record(Execute(r, graph), r.slot, << Barrier(b, "target", to) >>), Colored(Viewed, b, to), D, U, K)
  BY <1>3, <1>6, <1>9, <1>10, RenderOnto
<1>12. Colored(Viewed, b, to) = Viewed
  BY <1>2, <1>s DEF Colored, Maps
<1>13. Opened(r, RenderPie(g, h), Viewed, D, U, K)
  BY <1>1, <1>8, <1>11, <1>12
<1> QED BY <1>9, <1>13, <1>r DEF r, K
(* The whole of an editor's frame up to its panels.                        *)
PieGone == ed.held \ SwapChain("pie", ed.pie.n)
Frame(cam) == Screens \union IF cam THEN Imported(Pie(ed.pie.n, ed.pie.back)) ELSE {}

Updated3(d, z, cam) ==
    /\ MeshesOK(d.mm, d.handles) /\ d.mm.list = gpu.slot /\ d.registered \in Showing
    /\ Registry(d.mm, d.handles, d.registered) /\ ed.preview \in 0 .. Len(d.mm.paths)
    /\ Kept(gpu, z) /\ Open(z, Sampled, Frame(cam), Feed, 1 .. Len(d.mm.paths))
    /\ Sound(z, Anyhow) /\ Known(z) = Known(gpu)
    /\ DOMAIN z.states = DOMAIN gpu.states \ (IF cam THEN PieGone ELSE {})

LEMMA SubmitsFresh ==
    ASSUME Inv, host = "editor", pc \in {"update", "ui"}
    PROVE  \A k \in 1 .. Len(gpu.queue) : Uses(gpu.queue[k].cmds, DOMAIN gpu.states \ PieGone)
<1> SUFFICES ASSUME NEW k \in 1 .. Len(gpu.queue)
             PROVE  Uses(gpu.queue[k].cmds, DOMAIN gpu.states \ PieGone)
  OBVIOUS
<1>1. Fresh(gpu.queue[k].cmds, ed.pie.n)
  BY DEF Inv, Backed, Submits
<1>2. Uses(gpu.queue[k].cmds, DOMAIN gpu.states)
  BY DEF Inv, Backed, Sound, QueueOK, EntryOK
<1>3. ed.held \subseteq PieBuffers
  BY DEF Inv, Core, EdOK, EdTyped
<1> QED BY <1>1, <1>2, <1>3 DEF Fresh, Uses, PieGone

LEMMA EditorUpdates ==
    ASSUME Inv, host = "editor", pc = "update", NEW good, NEW cam \in BOOLEAN
    PROVE  LET d == Drain(Scanned, SyncCommandList(gpu, mm), good)
               v == RenderView(d.gpu, d.handles)
           IN  Updated3(d, RenderPreview(IF cam THEN RenderPie(v, d.handles) ELSE v), cam)
<1> DEFINE d == Drain(Scanned, SyncCommandList(gpu, mm), good)
           v == RenderView(d.gpu, d.handles)
           w == IF cam THEN RenderPie(v, d.handles) ELSE v
           z == RenderPreview(w)
           K == 1 .. Len(d.mm.paths)
           D == Frame(cam)
           n == Len(d.mm.paths)
<1>1. /\ EdOK /\ MeshesOK(mm, handles) /\ Device(gpu) /\ Len(mm.paths) \in Nat
      /\ ed.view \in Nat /\ ed.pie.n \in Nat /\ ed.pie.back \in 0 .. BackBuffers - 1
      /\ ed.preview \in 0 .. Len(mm.paths)
  BY LenProperties DEF Inv, Core, MeshesOK, EdOK, EdTyped, EdMeshes
<1>2. Open(gpu, Begun, Screens, Feed, 1 .. Len(mm.paths)) /\ Sound(gpu, Anyhow)
  <2>1. Stage = Begun /\ Bound = Screens /\ Drawable = 1 .. Len(mm.paths)
    BY DEF Stage, Bound, Drawable
  <2> QED BY <2>1 DEF Inv, Backed, Recording
<1>3. /\ SwapChain("window", 0) \subseteq Screens /\ Offscreen("view", ed.view) \subseteq Screens
      /\ Offscreen("preview", 0) \subseteq Screens /\ Screens \subseteq D
  BY DEF Screens, Frame
<1>4. Draining(d, Begun, Screens, Feed)
  BY <1>1, <1>2, <1>3, BegunOK, DrainGives
<1> HIDE DEF d
<1>5. /\ Opened(gpu, d.gpu, Begun, Screens, Feed, K) /\ MeshesOK(d.mm, d.handles) /\ d.mm.list = gpu.slot
      /\ d.registered \in Showing /\ Registry(d.mm, d.handles, d.registered)
      /\ n \in Nat /\ ed.preview \in 0 .. n
  <2>1. n >= Len(mm.paths) /\ MeshesOK(d.mm, d.handles)
    BY <1>4 DEF Draining
  <2>2. n \in Nat
    BY <2>1, LenProperties DEF MeshesOK
  <2> QED BY <1>1, <1>4, <2>1, <2>2 DEF Draining
<1>6. Open(d.gpu, Begun, D, Feed, K)
  <2>1. Open(d.gpu, Begun, Screens, Feed, K)
    BY <1>5 DEF Opened
  <2> HIDE DEF K, D
  <2> QED BY <1>3, <2>1, OpenMore
<1>7. Opened(d.gpu, v, Viewed, D, Feed, K)
  <2> DEFINE m == d.mm
             h == d.handles
             g == d.gpu
  <2>1. MeshesOK(m, h) /\ Open(g, Begun, D, Feed, 1 .. Len(m.paths)) /\ Offscreen("view", ed.view) \subseteq D
    BY <1>3, <1>5, <1>6
  <2> HIDE DEF m, h, g, D
  <2>2. Opened(g, RenderView(g, h), Viewed, D, Feed, 1 .. Len(m.paths))
    BY <1>1, <2>1, ViewRenders
  <2> QED BY <2>2 DEF m, h, g
<1> HIDE DEF v
<1>8. Kept(gpu, v) /\ v.states = gpu.states /\ Device(v)
  <2>1. Kept(gpu, d.gpu) /\ Kept(d.gpu, v) /\ v.states = gpu.states
    BY <1>5, <1>7 DEF Opened
  <2>2. Kept(gpu, v)
    BY <2>1, KeptOnwards
  <2> QED BY <1>1, <2>1, <2>2, KeptDevice
<1>9. Sound(v, Anyhow) /\ Known(v) = Known(gpu)
  BY <1>2, <1>8, SoundKept
<1>10. /\ Open(w, Viewed, D, Feed, K) /\ Kept(gpu, w) /\ Sound(w, Anyhow) /\ Known(w) = Known(gpu)
       /\ DOMAIN w.states = DOMAIN gpu.states \ (IF cam THEN PieGone ELSE {})
  <2>1. CASE ~cam
    <3>1. w = v
      BY <2>1
    <3> HIDE DEF w
    <3> QED BY <1>7, <1>8, <1>9, <2>1, <3>1 DEF Opened
  <2>2. CASE cam
    <3> DEFINE r == Released(v, PieGone)
               h == d.handles
               m == d.mm
    <3>1. w = RenderPie(v, h)
      BY <2>2
    <3>2. Imported(Pie(ed.pie.n, ed.pie.back)) \subseteq D
      BY <2>2 DEF Frame
    <3>3. Open(v, Viewed, D, Feed, 1 .. Len(m.paths)) /\ MeshesOK(m, h)
      BY <1>5, <1>7 DEF Opened
    <3>4. r = Released(v, ed.held \ SwapChain("pie", ed.pie.n))
      BY DEF PieGone
    <3> HIDE DEF w, m, h, D
    <3>5. Kept(v, r) /\ Opened(r, w, Viewed, D, Feed, 1 .. Len(m.paths))
      <4>1. LET q == Released(v, ed.held \ SwapChain("pie", ed.pie.n))
            IN  Open(q, Viewed, D, Feed, 1 .. Len(m.paths)) /\ Kept(v, q)
                /\ Opened(q, RenderPie(v, h), Viewed, D, Feed, 1 .. Len(m.paths))
        <5> HIDE DEF r
        <5> QED BY <1>1, <3>2, <3>3, PieRenders
      <4> QED BY <3>1, <3>4, <4>1
    <3>6. \A k \in 1 .. Len(v.queue) : Uses(v.queue[k].cmds, DOMAIN v.states \ PieGone)
      <4>1. v.queue = gpu.queue
        BY <1>8 DEF Kept
      <4> QED BY <1>8, <4>1, SubmitsFresh
    <3> DEFINE gone == PieGone
    <3>7. Sound(r, Anyhow) /\ Known(r) = Known(v) /\ DOMAIN r.states = DOMAIN v.states \ gone
      <4> HIDE DEF gone
      <4>1. \A k \in 1 .. Len(v.queue) : Uses(v.queue[k].cmds, DOMAIN v.states \ gone)
        BY <3>6 DEF gone
      <4> QED BY <1>8, <1>9, <4>1, SoundReleased DEF gone
    <3> HIDE DEF r
    <3>8. Kept(r, w) /\ w.states = r.states /\ Open(w, Viewed, D, Feed, 1 .. Len(m.paths))
      BY <3>5 DEF Opened
    <3>9. Sound(w, Anyhow) /\ Known(w) = Known(r)
      BY <3>7, <3>8, SoundKept
    <3>10. Kept(gpu, w)
      <4>1. Kept(gpu, r)
        BY <1>8, <3>5, KeptOnwards
      <4> QED BY <3>8, <4>1, KeptOnwards
    <3> QED BY <1>8, <1>9, <2>2, <3>7, <3>8, <3>9, <3>10 DEF m
  <2> QED BY <2>1, <2>2
<1> HIDE DEF w
<1>11. Opened(w, z, Sampled, D, Feed, K)
  <2>1. Open(w, Viewed, D, Feed, 1 .. n) /\ Offscreen("preview", 0) \subseteq D
    BY <1>3, <1>10
  <2> HIDE DEF D, z, n
  <2>2. Opened(w, RenderPreview(w), Sampled, D, Feed, 1 .. n)
    BY <1>1, <1>5, <2>1, PreviewRenders
  <2> QED BY <2>2 DEF z, n
<1> HIDE DEF z
<1>12. Kept(w, z) /\ z.states = w.states /\ Open(z, Sampled, D, Feed, K)
  BY <1>11 DEF Opened
<1>13. Kept(gpu, z) /\ Sound(z, Anyhow) /\ Known(z) = Known(gpu)
  <2>1. Kept(gpu, z)
    BY <1>10, <1>12, KeptOnwards
  <2>2. Sound(z, Anyhow) /\ Known(z) = Known(w)
    BY <1>10, <1>12, SoundKept
  <2> QED BY <1>10, <2>1, <2>2
<1>14. Updated3(d, z, cam)
  BY <1>5, <1>10, <1>12, <1>13 DEF Updated3
<1> QED BY <1>14 DEF d, v, w, z
------------------------------------------------------------------------------
(* Steps that leave the list under way alone: the queue gets a signal, an  *)
(* entry is executed, or nothing happens to the device.                    *)
Following(g, h) ==
    \A k \in 1 .. Len(h.queue) :
      h.queue[k].cmds = << >> \/ \E j \in 1 .. Len(g.queue) : h.queue[k] = g.queue[j]

Follows(g, h, rec) ==
    /\ Device(h) /\ Paced(h, rec) /\ Sound(h, Anyhow) /\ Known(h) = Known(g)
    /\ DOMAIN h.states = DOMAIN g.states /\ h.lists = g.lists /\ h.slot = g.slot
    /\ (rec => h.back = g.back) /\ Following(g, h)

LEMMA FollowsSame ==
    ASSUME NEW g, NEW rec, Device(g), Paced(g, rec), Sound(g, Anyhow) PROVE Follows(g, g, rec)
BY DEF Follows, Following

LEMMA FollowsCleared ==
    ASSUME NEW g, NEW rec, Device(g), Paced(g, rec), Sound(g, Anyhow) PROVE Follows(g, ClearTextures(g), rec)
<1> DEFINE h == ClearTextures(g)
<1>1. Kept(g, h) /\ h.lists = g.lists /\ h.states = g.states
  BY TexturesGive DEF ClearTextures
<1> HIDE DEF h
<1>2. Device(h) /\ Paced(h, rec)
  BY <1>1, KeptDevice, PacedKept
<1>3. Sound(h, Anyhow) /\ Known(h) = Known(g)
  BY <1>1, SoundKept
<1>4. h.queue = g.queue /\ h.slot = g.slot /\ h.back = g.back
  BY <1>1 DEF Kept
<1> QED BY <1>1, <1>2, <1>3, <1>4 DEF h, Follows, Following

LEMMA FollowsSignal ==
    ASSUME NEW g, NEW rec, Device(g), Paced(g, rec), Sound(g, Anyhow) PROVE Follows(g, Signal(g), rec)
<1> DEFINE e == [slot |-> Frames, cmds |-> << >>, signal |-> g.counter + 1]
           h == Signal(g)
           n == Len(g.queue)
<1>1. /\ Device(h) /\ e \in Entries /\ h.queue = Append(g.queue, e)
      /\ h.slot = g.slot /\ h.back = g.back /\ h.lists = g.lists /\ h.states = g.states
  BY SignalGives
<1>2. e.cmds = << >>
  OBVIOUS
<1>3. Paced(h, rec)
  BY SignalPaced
<1>4. Sound(h, Anyhow) /\ Known(h) = Known(g)
  BY SignalSound DEF Anyhow
<1> HIDE DEF e, h
<1>5. /\ n \in Nat /\ Len(h.queue) = n + 1 /\ h.queue[n + 1] = e
      /\ \A k \in 1 .. n : h.queue[k] = g.queue[k]
  BY <1>1, Appended DEF Device
<1>6. \A k \in 1 .. n + 1 : k \in 1 .. n \/ k = n + 1
  BY <1>5
<1>7. Following(g, h)
  BY <1>2, <1>5, <1>6 DEF Following
<1> QED BY <1>1, <1>3, <1>4, <1>7 DEF Follows, h

LEMMA FollowsExecuted ==
    ASSUME NEW g, NEW rec, Device(g), Paced(g, rec), Sound(g, Anyhow), g.queue # << >>
    PROVE  Follows(g, Executed(g), rec)
<1> DEFINE h == Executed(g)
           n == Len(g.queue)
<1>1. /\ Device(h) /\ h.queue = Tail(g.queue) /\ h.slot = g.slot /\ h.back = g.back /\ h.lists = g.lists
  BY ExecutedGives
<1>2. Paced(h, rec)
  BY ExecutedPaced
<1>3. Sound(h, Anyhow) /\ Known(h) = Known(g) /\ DOMAIN h.states = DOMAIN g.states
  BY GpuSound DEF Anyhow
<1> HIDE DEF h
<1>4. /\ n \in Nat \ {0} /\ Len(h.queue) = n - 1
      /\ \A k \in 1 .. n - 1 : h.queue[k] = g.queue[k + 1]
  BY <1>1, Behind DEF Device
<1>5. \A k \in 1 .. n - 1 : k + 1 \in 1 .. n
  BY <1>4
<1>6. Following(g, h)
  BY <1>4, <1>5 DEF Following
<1> QED BY <1>1, <1>2, <1>3, <1>6 DEF Follows, h

LEMMA FollowsResized ==
    ASSUME NEW g, Device(g), Paced(g, FALSE), Sound(g, Anyhow), NEW size
    PROVE  Follows(g, Resized(g, size), FALSE)
<1> DEFINE h == Resized(g, size)
<1>1. Device(h) /\ h.queue = g.queue /\ h.slot = g.slot /\ h.lists = g.lists
  BY ResizedGives
<1>2. Sound(h, Anyhow) /\ Known(h) = Known(g) /\ h.states = g.states
  BY SoundResized
<1>3. Paced(h, FALSE)
  BY ResizedPaced
<1> HIDE DEF h
<1> QED BY <1>1, <1>2, <1>3 DEF Follows, Following, h

(* What the editor's part of the device's state rests on.                  *)
EdSteady ==
    /\ ed'.view = ed.view /\ ed'.held = ed.held /\ ed'.pie.n = ed.pie.n
    /\ ed'.pie.open => ed.pie.open
    /\ pc' \in {"ui", "uigone", "render"} <=> pc \in {"ui", "uigone", "render"}
    /\ pc' \in {"update", "ui"} => pc \in {"update", "ui"}
    /\ pc \in {"uigone", "render"} => pc' \in {"uigone", "render"}
    /\ pc = "ui" /\ ed.pie.open => pc' \in {"uigone", "render"} \/ (pc' = "ui" /\ ed'.pie.open)

LEMMA SubmitsFollow ==
    ASSUME host = "editor", Submits, EdSteady, Follows(gpu, gpu', Recording(pc))
    PROVE  Submits'
<1> DEFINE n == ed.pie.n
<1>1. ed'.pie.n = n /\ gpu'.slot = gpu.slot /\ (pc' \in {"update", "ui"} => pc \in {"update", "ui"})
  BY DEF EdSteady, Follows
<1>2. ASSUME NEW k \in 1 .. Len(gpu'.queue)
      PROVE  /\ gpu'.queue[k].slot \in Slots \/ gpu'.queue[k].cmds = << >>
             /\ \/ Fresh(gpu'.queue[k].cmds, n)
                \/ gpu'.queue[k].slot \in Slots \ {gpu.slot} /\ pc' \notin {"update", "ui"}
  <2>1. CASE gpu'.queue[k].cmds = << >>
    BY <2>1 DEF Fresh, Uses
  <2>2. CASE \E j \in 1 .. Len(gpu.queue) : gpu'.queue[k] = gpu.queue[j]
    BY <1>1, <2>2 DEF Submits
  <2> QED BY <2>1, <2>2 DEF Follows, Following
<1> QED BY <1>1, <1>2 DEF Submits

LEMMA FollowsBacked ==
    ASSUME Inv, PcOK', host' = host, mm' = mm, Recording(pc') <=> Recording(pc),
           Follows(gpu, gpu', Recording(pc)), host = "editor" => EdSteady
    PROVE  Backed'
<1> DEFINE any == Anyhow
           D == Bound
           S == Screens
<1>1. /\ Device(gpu') /\ Sound(gpu', Anyhow) /\ Known(gpu') = Known(gpu) /\ gpu'.lists = gpu.lists
      /\ gpu'.slot = gpu.slot /\ DOMAIN gpu'.states = DOMAIN gpu.states
      /\ (Recording(pc) => gpu'.back = gpu.back)
  BY DEF Follows
<1>2. Anyhow' = Anyhow /\ Drawable' = Drawable /\ Feed' = Feed
  BY <1>1 DEF Anyhow, Drawable, Feed
<1>3. Screens' = Screens
  BY DEF Screens, EdSteady
<1>4. host = "editor" => HeldPie' = HeldPie
  BY DEF HeldPie, EdSteady
<1>5. Alive'
  BY <1>1, <1>3, <1>4 DEF Alive, EdSteady, Inv, Backed
<1>6. Sound(gpu', Anyhow')
  BY <1>1, <1>2
<1>7. CASE Recording(pc)
  <2>1. Open(gpu, Stage, Bound, Feed, Drawable)
    BY <1>7 DEF Inv, Backed
  <2>2. Begun' = Begun
    BY <1>1, <1>7 DEF Begun
  <2>3. Stage' = Stage
    <3>1. CASE host = "editor"
      <4>1. Sampled' = Sampled
        BY <2>2, <3>1 DEF Sampled, EdSteady
      <4> QED BY <2>2, <3>1, <4>1 DEF Stage, EdSteady
    <3>2. CASE host # "editor"
      BY <2>2, <3>2 DEF Stage, PcOK, Common, Inv, Core
    <3> QED BY <3>1, <3>2
  <2>4. Bound \subseteq Bound'
    BY <1>3, <1>4 DEF Bound, EdSteady
  <2> DEFINE a == Stage
             U == Feed
             K == Drawable
             E == Bound'
             h == gpu'
  <2>5. Open(gpu, a, D, U, K) /\ Device(h) /\ h.lists = gpu.lists /\ h.slot = gpu.slot /\ D \subseteq E
    BY <1>1, <2>1, <2>4
  <2> HIDE DEF a, D, U, K, E, h
  <2>6. Open(h, a, D, U, K)
    BY <2>5, OpenStays
  <2>7. Open(h, a, E, U, K)
    BY <2>5, <2>6, OpenMore
  <2>8. Open(gpu', Stage', Bound', Feed', Drawable')
    BY <1>2, <2>3, <2>7 DEF a, U, K, E, h
  <2>9. IF Recording(pc') THEN Open(gpu', Stage', Bound', Feed', Drawable') ELSE Drawable' \subseteq Feed'
    BY <1>7, <2>8
  <2>10. host = "editor" => Submits'
    BY SubmitsFollow DEF Inv, Backed
  <2> QED BY <1>5, <1>6, <2>9, <2>10 DEF Backed
<1>8. CASE ~Recording(pc)
  <2>1. Drawable \subseteq Feed
    BY <1>8 DEF Inv, Backed
  <2>9. IF Recording(pc') THEN Open(gpu', Stage', Bound', Feed', Drawable') ELSE Drawable' \subseteq Feed'
    BY <1>2, <1>8, <2>1
  <2>10. host = "editor" => Submits'
    BY SubmitsFollow DEF Inv, Backed
  <2> QED BY <1>5, <1>6, <2>9, <2>10 DEF Backed
<1> QED BY <1>7, <1>8
------------------------------------------------------------------------------
(* Steps that leave the world alone.                                       *)
EdCalm ==
    /\ EdSteady /\ (pc' \in {"piegone", "uigone"} <=> pc \in {"piegone", "uigone"}) /\ (pc' = "ui" => pc = "ui")

LEMMA WorldKept ==
    ASSUME Inv, UNCHANGED world, host' = host, PcOK', Recording(pc') <=> Recording(pc),
           Follows(gpu, gpu', Recording(pc)), host = "editor" => EdCalm
    PROVE  Inv'
<1>1. Backed'
  BY FollowsBacked DEF world, EdCalm
<1>2. Device(gpu') /\ Paced(gpu', Recording(pc')) /\ gpu'.slot = gpu.slot
  BY DEF Follows, Recording
<1>3. lines' \in 0 .. MaxLines /\ MeshesOK(mm', handles')
  BY DEF Inv, Core, world
<1>4. host = "game" => GameOK'
  BY DEF Inv, Core, GameOK, Wired, world
<1>5. host = "demo" => DemoOK'
  BY DEF Inv, Core, DemoOK, world
<1>6. ASSUME host = "editor" PROVE EdOK'
  <2>1. EdOK /\ EdCalm /\ ed' = ed /\ mm' = mm /\ handles' = handles /\ loads' = loads
    BY <1>6 DEF Inv, Core, world
  <2>2. EdTyped'
    BY <2>1 DEF EdOK, EdTyped
  <2>3. EdPlays'
    BY <2>1 DEF EdOK, EdPlays, EdCalm
  <2>4. EdLoads'
    BY <2>1 DEF EdOK, EdLoads, EdCalm
  <2>5. EdMeshes'
    BY <1>2, <2>1 DEF EdOK, EdMeshes, EdCalm
  <2> QED BY <2>2, <2>3, <2>4, <2>5 DEF EdOK
<1> QED BY <1>1, <1>2, <1>3, <1>4, <1>5, <1>6 DEF Inv, Core

LEMMA DeviceKnown ==
    ASSUME Inv
    PROVE  /\ Device(gpu) /\ Paced(gpu, Recording(pc)) /\ Sound(gpu, Anyhow) /\ PcOK
           /\ Follows(gpu, gpu, Recording(pc)) /\ Follows(gpu, Signal(gpu), Recording(pc))
           /\ Follows(gpu, ClearTextures(gpu), Recording(pc))
<1>1. Device(gpu) /\ Paced(gpu, Recording(pc)) /\ Sound(gpu, Anyhow) /\ PcOK
  BY DEF Inv, Core, Backed
<1> QED BY <1>1, FollowsSame, FollowsSignal, FollowsCleared

LEMMA LoopKeeps ==
    ASSUME Inv, Poll \/ Pump \/ Quit \/ Begin \/ HookDone \/ DemoUploaded PROVE Inv'
<1>1. /\ Device(gpu) /\ Paced(gpu, Recording(pc)) /\ PcOK
      /\ Follows(gpu, gpu, Recording(pc)) /\ Follows(gpu, Signal(gpu), Recording(pc))
  BY DeviceKnown
<1>2. UNCHANGED world /\ host' = host
  BY DEF Poll, Pump, Quit, Begin, HookDone, DemoUploaded
<1>3. Follows(gpu, gpu', Recording(pc))
  BY <1>1 DEF Poll, Pump, Quit, Begin, HookDone, DemoUploaded
<1>4. PcOK' /\ (Recording(pc') <=> Recording(pc)) /\ (host = "editor" => EdCalm)
  <2>1. CASE Poll
    BY <1>1, <1>2, <2>1 DEF Poll, Goes, PcOK, Common, Recording, EdCalm, EdSteady, world
  <2>2. CASE Pump
    BY <1>1, <1>2, <2>2 DEF Pump, Goes, PcOK, Common, Recording, EdCalm, EdSteady, world
  <2>3. CASE Quit
    BY <1>1, <1>2, <2>3 DEF Quit, Goes, PcOK, Common, Recording, EdCalm, EdSteady, world
  <2>4. CASE Begin
    BY <1>1, <1>2, <2>4 DEF Begin, Goes, PcOK, Common, Recording, EdCalm, EdSteady, world
  <2>5. CASE HookDone
    BY <1>1, <1>2, <2>5 DEF HookDone, Goes, PcOK, Common, Recording, EdCalm, EdSteady, world
  <2>6. CASE DemoUploaded
    BY <1>1, <1>2, <2>6 DEF DemoUploaded, Goes, PcOK, Common, Recording, EdCalm, EdSteady, world
  <2> QED BY <2>1, <2>2, <2>3, <2>4, <2>5, <2>6
<1> QED BY <1>2, <1>3, <1>4, WorldKept

LEMMA DrainedKeeps ==
    ASSUME Inv, Drained PROVE Inv'
<1>1. /\ Device(gpu) /\ Paced(gpu, Recording(pc)) /\ PcOK /\ Sound(gpu, Anyhow)
  BY DeviceKnown
<1>2. UNCHANGED world /\ host' = host /\ pc = "drain" /\ pc' = "slot" /\ gpu' = Resized(gpu, win.size)
  BY DEF Drained, Goes
<1>3. Recording(pc) = FALSE
  BY <1>2 DEF Recording
<1>4. Follows(gpu, gpu', Recording(pc))
  BY <1>1, <1>2, <1>3, FollowsResized
<1>5. PcOK' /\ (Recording(pc') <=> Recording(pc)) /\ (host = "editor" => EdCalm)
  BY <1>1, <1>2 DEF PcOK, Common, Recording, EdCalm, EdSteady, world
<1> QED BY <1>2, <1>4, <1>5, WorldKept

LEMMA EnvironmentKeeps ==
    ASSUME Inv, Environment \/ Stopped PROVE Inv'
<1>1. /\ Device(gpu) /\ Paced(gpu, Recording(pc)) /\ PcOK /\ Sound(gpu, Anyhow)
      /\ Follows(gpu, gpu, Recording(pc))
  BY DeviceKnown
<1>2. UNCHANGED world /\ host' = host /\ pc' = pc /\ (gpu' = gpu \/ (gpu.queue # << >> /\ gpu' = Executed(gpu)))
  BY DEF Environment, GpuStep, Post, Stopped, vars, world
<1>3. Follows(gpu, gpu', Recording(pc))
  BY <1>1, <1>2, FollowsExecuted
<1>4. PcOK' /\ (Recording(pc') <=> Recording(pc)) /\ (host = "editor" => EdCalm)
  BY <1>1, <1>2 DEF PcOK, Recording, EdCalm, EdSteady, world
<1> QED BY <1>2, <1>3, <1>4, WorldKept
------------------------------------------------------------------------------
(* The scenes of the game.                                                 *)
Wiring(ss) == ss \in Seq(Scenes) /\ \A k \in 1 .. Len(ss) : ss[k].wired => ss[k].name = "start"

LEMMA GameKept ==
    ASSUME Inv, host = "game", host' = host, mm' = mm, PcOK', Recording(pc') <=> Recording(pc),
           Follows(gpu, gpu', Recording(pc)), MeshesOK(mm', handles'), lines' \in 0 .. MaxLines, GameOK'
    PROVE  Inv'
<1>1. Backed'
  BY FollowsBacked
<1>2. Device(gpu') /\ Paced(gpu', Recording(pc'))
  BY DEF Follows, Recording
<1> QED BY <1>1, <1>2 DEF Inv, Core

LEMMA OneChanged ==
    ASSUME NEW ss, Wiring(ss), NEW e \in 1 .. Len(ss), NEW s \in Scenes,
           s.name = ss[e].name, s.wired = ss[e].wired
    PROVE  Wiring([ss EXCEPT ![e] = s]) /\ (Wired(ss) => Wired([ss EXCEPT ![e] = s]))
<1> DEFINE t == [ss EXCEPT ![e] = s]
<1>1. Len(ss) \in Nat /\ ss \in [1 .. Len(ss) -> Scenes]
  BY LenProperties DEF Wiring
<1>2. t \in [1 .. Len(ss) -> Scenes] /\ Len(t) = Len(ss)
  BY <1>1
<1>3. \A k \in 1 .. Len(ss) : t[k].name = ss[k].name /\ t[k].wired = ss[k].wired
  BY <1>1
<1>4. t \in Seq(Scenes)
  BY <1>1, <1>2
<1> HIDE DEF t
<1> QED BY <1>2, <1>3, <1>4 DEF Wiring, Wired, t

LEMMA EntryOf ==
    ASSUME GameOK, NEW n, Loaded(n)
    PROVE  Entry(n) \in 1 .. Len(scenes) /\ scenes[Entry(n)].name = n /\ scenes[Entry(n)] \in Scenes
<1>1. DOMAIN scenes = 1 .. Len(scenes)
  BY DEF GameOK
<1>2. Entry(n) \in 1 .. Len(scenes) /\ scenes[Entry(n)].name = n
  BY <1>1 DEF Loaded, Entry
<1> QED BY <1>2, ElementOfSeq DEF GameOK

LEMMA OpsAre ==
    ASSUME Inv, host = "game", OpOnly, gpu' \in {gpu, ClearTextures(gpu)}, lines' \in 0 .. MaxLines,
           MeshesOK(mm, handles'), GameOK'
    PROVE  Inv'
<1>1. Follows(gpu, gpu', Recording(pc)) /\ PcOK
  BY DeviceKnown
<1>2. host' = host /\ pc' = pc /\ mm' = mm
  BY DEF OpOnly
<1>3. PcOK'
  BY <1>1, <1>2 DEF PcOK
<1> QED BY <1>1, <1>2, <1>3, GameKept

LEMMA OpIsGames ==
    ASSUME Inv, pc \in {"hook", "ticks"} PROVE host = "game" /\ GameOK /\ Wiring(scenes)
<1>1. host = "game"
  BY DEF Inv, Core, PcOK, Common
<1> QED BY <1>1 DEF Inv, Core, GameOK, Wiring

LEMMA MeshesKnown ==
    ASSUME Inv PROVE MeshesOK(mm, handles) /\ MeshesOK(mm, NoHandles) /\ lines \in 0 .. MaxLines
<1>1. MeshesOK(mm, handles) /\ lines \in 0 .. MaxLines
  BY DEF Inv, Core
<1>2. Len(mm.paths) \in Nat
  BY <1>1, LenProperties DEF MeshesOK
<1> DEFINE R == 0 .. Len(mm.paths)
<1>3. 0 \in R
  BY <1>2
<1> HIDE DEF R
<1>4. NoHandles \in [Ents -> R]
  BY <1>3 DEF NoHandles
<1> QED BY <1>1, <1>4 DEF MeshesOK, R

LEMMA LoadSceneKeeps ==
    ASSUME Inv, NEW n \in {"start", "other"}, LoadScene(n) PROVE Inv'
<1> DEFINE s == NewScene(n)
<1>1. /\ OpOnly /\ gpu' = gpu /\ pc = "hook" /\ scenes' = Append(scenes, s)
      /\ handles' = handles /\ loads' = loads /\ lines' = lines
  BY DEF LoadScene, Op
<1>2. host = "game" /\ GameOK
  BY <1>1, OpIsGames
<1>3. s \in Scenes /\ ~s.wired
  BY DEF NewScene, Scenes, Entities
<1> HIDE DEF s
<1>4. /\ scenes' \in Seq(Scenes) /\ Len(scenes') = Len(scenes) + 1 /\ scenes'[Len(scenes) + 1] = s
      /\ Len(scenes) \in Nat /\ \A k \in 1 .. Len(scenes) : scenes'[k] = scenes[k]
  BY <1>1, <1>2, <1>3, Appended DEF GameOK
<1>5. \A k \in 1 .. Len(scenes') : k \in 1 .. Len(scenes) \/ k = Len(scenes) + 1
  BY <1>4
<1>6. \A k \in 1 .. Len(scenes) : k \in 1 .. Len(scenes')
  BY <1>4
<1>7. Wired(scenes) => Wired(scenes')
  BY <1>4, <1>6 DEF Wired
<1>8. GameOK'
  BY <1>1, <1>2, <1>3, <1>4, <1>5, <1>7 DEF GameOK
<1> QED BY <1>1, <1>2, <1>8, MeshesKnown, OpsAre

LEMMA Removed ==
    ASSUME NEW ss, Wiring(ss), NEW e \in 1 .. Len(ss)
    PROVE  /\ Wiring(RemoveAt(ss, e))
           /\ Wired(ss) /\ ~ss[e].wired => Wired(RemoveAt(ss, e))
<1> DEFINE t == RemoveAt(ss, e)
           l == Len(ss)
           a == SubSeq(ss, 1, e - 1)
           b == SubSeq(ss, e + 1, l)
<1>1. l \in Nat /\ ss \in Seq(Scenes) /\ e \in 1 .. l
  BY LenProperties DEF Wiring
<1>2. a \in Seq(Scenes) /\ Len(a) = e - 1 /\ \A k \in 1 .. e - 1 : a[k] = ss[k]
  BY <1>1, SubSeqProperties
<1>3. b \in Seq(Scenes) /\ Len(b) = l - e /\ \A k \in 1 .. l - e : b[k] = ss[e + k]
  <2>1. b \in Seq(Scenes) /\ Len(b) = (IF e + 1 <= l THEN l - (e + 1) + 1 ELSE 0)
        /\ \A k \in 1 .. l - (e + 1) + 1 : b[k] = ss[(e + 1) + k - 1]
    BY <1>1, SubSeqProperties
  <2>2. Len(b) = l - e /\ l - (e + 1) + 1 = l - e
    BY <1>1, <2>1
  <2>3. \A k \in 1 .. l - e : (e + 1) + k - 1 = e + k
    BY <1>1
  <2> QED BY <2>1, <2>2, <2>3
<1>4. t = a \o b
  BY DEF RemoveAt
<1> HIDE DEF a, b, t, l
<1>5. /\ t \in Seq(Scenes) /\ Len(t) = l - 1
      /\ \A k \in 1 .. e - 1 : t[k] = a[k]
      /\ \A k \in 1 .. l - 1 : k > e - 1 => t[k] = b[k - (e - 1)]
  <2>1. /\ t \in Seq(Scenes) /\ Len(t) = Len(a) + Len(b)
        /\ \A k \in 1 .. Len(a) : t[k] = a[k]
        /\ \A k \in 1 .. Len(a) + Len(b) : k > Len(a) => t[k] = b[k - Len(a)]
    BY <1>2, <1>3, <1>4, ConcatProperties, SMTT(30)
  <2>2. Len(a) + Len(b) = l - 1
    BY <1>1, <1>2, <1>3
  <2> QED BY <1>2, <2>1, <2>2
<1>6. ASSUME NEW k \in 1 .. l - 1 PROVE \E j \in 1 .. l : t[k] = ss[j]
  <2>1. CASE k <= e - 1
    <3>1. k \in 1 .. e - 1 /\ k \in 1 .. l
      BY <1>1, <2>1
    <3> QED BY <1>2, <1>5, <3>1
  <2>2. CASE k > e - 1
    <3>1. k - (e - 1) \in 1 .. l - e /\ e + (k - (e - 1)) \in 1 .. l
      BY <1>1, <2>2
    <3> QED BY <1>3, <1>5, <2>2, <3>1
  <2> QED BY <1>1, <2>1, <2>2
<1>7. ASSUME NEW j \in 1 .. l, j # e PROVE \E k \in 1 .. l - 1 : t[k] = ss[j]
  <2>1. CASE j < e
    <3>1. j \in 1 .. e - 1 /\ j \in 1 .. l - 1
      BY <1>1, <2>1
    <3> QED BY <1>2, <1>5, <3>1
  <2>2. CASE j > e
    <3> DEFINE k == j - 1
    <3>1. k \in 1 .. l - 1 /\ k > e - 1 /\ k - (e - 1) \in 1 .. l - e /\ e + (k - (e - 1)) = j
      BY <1>1, <2>2
    <3> HIDE DEF k
    <3>2. t[k] = b[k - (e - 1)] /\ b[k - (e - 1)] = ss[j]
      BY <1>3, <1>5, <3>1
    <3> QED BY <3>1, <3>2
  <2> QED BY <1>1, <1>7, <2>1, <2>2
<1>8. Wiring(t)
  <2> SUFFICES ASSUME NEW k \in 1 .. Len(t), t[k].wired PROVE t[k].name = "start"
    BY <1>5 DEF Wiring
  <2>1. PICK j \in 1 .. l : t[k] = ss[j]
    BY <1>5, <1>6
  <2> QED BY <2>1 DEF Wiring, l
<1>9. ASSUME Wired(ss), ~ss[e].wired PROVE Wired(t)
  <2>1. PICK j \in 1 .. l : ss[j].wired
    BY <1>9 DEF Wired, l
  <2>2. PICK k \in 1 .. l - 1 : t[k] = ss[j]
    BY <1>7, <1>9, <2>1
  <2> QED BY <1>5, <2>1, <2>2 DEF Wired
<1> QED BY <1>8, <1>9 DEF t

LEMMA UnloadSceneKeeps ==
    ASSUME Inv, NEW n \in {"start", "other"}, UnloadScene(n) PROVE Inv'
<1> DEFINE e == Entry(n)
<1>1. /\ OpOnly /\ pc = "hook" /\ Loaded(n) /\ scenes' = RemoveAt(scenes, e) /\ lines' = lines
      /\ IF scenes[e].wired THEN handles' = NoHandles /\ loads' = << >> ELSE handles' = handles /\ loads' = loads
      /\ gpu' \in {gpu, ClearTextures(gpu)}
  BY DEF UnloadScene, Op, Unloaded
<1>2. host = "game" /\ GameOK /\ Wiring(scenes)
  BY <1>1, OpIsGames
<1>3. e \in 1 .. Len(scenes)
  BY <1>1, <1>2, EntryOf
<1> HIDE DEF e
<1>4. Wiring(scenes') /\ (Wired(scenes) /\ ~scenes[e].wired => Wired(scenes'))
  BY <1>1, <1>2, <1>3, Removed
<1>5. GameOK'
  <2>1. loads' \in Seq(Ents)
    <3>1. loads \in Seq(Ents) /\ << >> \in Seq(Ents) /\ (loads' = loads \/ loads' = << >>)
      BY <1>1, <1>2 DEF GameOK
    <3> QED BY <3>1
  <2>2. Wired(scenes') \/ (handles' = NoHandles /\ loads' = << >>)
    BY <1>1, <1>2, <1>4 DEF GameOK
  <2> QED BY <1>4, <2>1, <2>2 DEF GameOK, Wiring
<1> QED BY <1>1, <1>2, <1>5, MeshesKnown, OpsAre

LEMMA AskedGives ==
    ASSUME NEW s PROVE Asked(s) \in Seq(Ents)
<1> DEFINE T == {i \in Ents : s.ents[i].alive}
           E == T \intersect Ents
<1>1. Asked(s) = IF s.wired THEN Those(T) ELSE << >>
  BY DEF Asked
<1>2. Those(T) \in Seq(E)
  BY ThoseGives
<1>3. E \subseteq Ents
  OBVIOUS
<1> HIDE DEF T, E
<1>4. Those(T) \in Seq(Ents)
  BY <1>2, <1>3
<1> QED BY <1>1, <1>4

LEMMA ActivateSceneKeeps ==
    ASSUME Inv, NEW n \in {"start", "other"}, ActivateScene(n) PROVE Inv'
<1> DEFINE e == Entry(n)
           s == [scenes[e] EXCEPT !.active = TRUE]
           more == Asked(scenes[e])
<1>1. /\ OpOnly /\ gpu' = gpu /\ pc = "hook" /\ Loaded(n) /\ scenes' = [scenes EXCEPT ![e] = s] /\ lines' = lines
      /\ handles' = handles /\ loads' = loads \o more
  BY DEF ActivateScene, Op
<1>2. host = "game" /\ GameOK /\ Wiring(scenes)
  BY <1>1, OpIsGames
<1>3. e \in 1 .. Len(scenes) /\ scenes[e] \in Scenes
  BY <1>1, <1>2, EntryOf
<1>4. more \in Seq(Ents) /\ (~scenes[e].wired => more = << >>)
  BY AskedGives DEF Asked
<1> HIDE DEF more, e
<1>5. s \in Scenes /\ s.name = scenes[e].name /\ s.wired = scenes[e].wired
  BY <1>3 DEF Scenes
<1> HIDE DEF s
<1>6. Wiring(scenes') /\ (Wired(scenes) => Wired(scenes'))
  BY <1>1, <1>2, <1>3, <1>5, OneChanged
<1>7. GameOK'
  <2>1. loads' \in Seq(Ents)
    BY <1>1, <1>2, <1>4, ConcatProperties DEF GameOK
  <2>2. Wired(scenes') \/ (handles' = NoHandles /\ loads' = << >>)
    <3>1. CASE Wired(scenes)
      BY <1>6, <3>1
    <3>2. CASE ~Wired(scenes)
      <4>1. ~scenes[e].wired /\ loads = << >> /\ handles = NoHandles
        BY <1>2, <1>3, <3>2 DEF Wired, GameOK
      <4>2. more = << >>
        BY <1>4, <4>1
      <4> QED BY <1>1, <4>1, <4>2
    <3> QED BY <3>1, <3>2
  <2> QED BY <1>6, <2>1, <2>2 DEF GameOK, Wiring
<1> QED BY <1>1, <1>2, <1>7, MeshesKnown, OpsAre

(* A scene that keeps its name and its wiring.                             *)
LEMMA SceneReplaced ==
    ASSUME Inv, pc = "hook", OpOnly, gpu' = gpu, NEW n, Loaded(n), NEW s \in Scenes, s.name = scenes[Entry(n)].name,
           s.wired = scenes[Entry(n)].wired, scenes' = [scenes EXCEPT ![Entry(n)] = s],
           handles' = handles, loads' = loads, lines' = lines
    PROVE  Inv'
<1> DEFINE e == Entry(n)
<1>2. host = "game" /\ GameOK /\ Wiring(scenes)
  BY OpIsGames
<1>3. e \in 1 .. Len(scenes)
  BY <1>2, EntryOf
<1>4. scenes' = [scenes EXCEPT ![e] = s] /\ s.name = scenes[e].name /\ s.wired = scenes[e].wired
  OBVIOUS
<1> HIDE DEF e
<1>5. Wiring([scenes EXCEPT ![e] = s]) /\ (Wired(scenes) => Wired([scenes EXCEPT ![e] = s]))
  BY <1>2, <1>3, <1>4, OneChanged
<1>6. Wiring(scenes') /\ (Wired(scenes) => Wired(scenes'))
  BY <1>4, <1>5
<1>7. GameOK'
  BY <1>2, <1>6 DEF GameOK, Wiring
<1> QED BY <1>2, <1>7, MeshesKnown, OpsAre

LEMMA DeactivateSceneKeeps ==
    ASSUME Inv, NEW n \in {"start", "other"}, DeactivateScene(n) PROVE Inv'
<1> DEFINE e == Entry(n)
           s == [scenes[e] EXCEPT !.active = FALSE]
<1>1. /\ OpOnly /\ gpu' = gpu /\ pc = "hook" /\ Loaded(n) /\ scenes' = [scenes EXCEPT ![e] = s] /\ lines' = lines
      /\ handles' = handles /\ loads' = loads
  BY DEF DeactivateScene, Op
<1>2. scenes[e] \in Scenes
  BY <1>1, OpIsGames, EntryOf
<1>3. s \in Scenes /\ s.name = scenes[e].name /\ s.wired = scenes[e].wired
  BY <1>2 DEF Scenes
<1> HIDE DEF s
<1> QED BY <1>1, <1>3, SceneReplaced

LEMMA SpawnEntityKeeps ==
    ASSUME Inv, NEW n \in {"start", "other"}, NEW i \in Ents, NEW life \in {0, 1}, SpawnEntity(n, i, life)
    PROVE  Inv'
<1> DEFINE e == Entry(n)
           x == [alive |-> TRUE, life |-> life]
           s == [scenes[e] EXCEPT !.ents[i] = x]
<1>1. /\ OpOnly /\ gpu' = gpu /\ pc = "hook" /\ Loaded(n) /\ scenes' = [scenes EXCEPT ![e] = s] /\ lines' = lines
      /\ handles' = handles /\ loads' = loads
  BY DEF SpawnEntity, Op
<1>2. scenes[e] \in Scenes
  BY <1>1, OpIsGames, EntryOf
<1>3. s \in Scenes /\ s.name = scenes[e].name /\ s.wired = scenes[e].wired
  <2>1. x \in [alive : BOOLEAN, life : Nat]
    OBVIOUS
  <2> DEFINE R == [alive : BOOLEAN, life : Nat]
             q == scenes[e]
  <2>2. q \in [name : {"start", "other"}, wired : BOOLEAN, active : BOOLEAN, camera : BOOLEAN, ents : [Ents -> R]]
        /\ x \in R
    BY <1>2, <2>1 DEF Scenes, Entities
  <2> HIDE DEF R, x, q
  <2>3. [q EXCEPT !.ents[i] = x] \in
          [name : {"start", "other"}, wired : BOOLEAN, active : BOOLEAN, camera : BOOLEAN, ents : [Ents -> R]]
        /\ [q EXCEPT !.ents[i] = x].name = q.name /\ [q EXCEPT !.ents[i] = x].wired = q.wired
    BY <2>2
  <2> QED BY <2>3 DEF R, q, Scenes, Entities
<1> HIDE DEF s
<1> QED BY <1>1, <1>3, SceneReplaced

LEMMA SpawnCameraKeeps ==
    ASSUME Inv, NEW n \in {"start", "other"}, SpawnCamera(n) PROVE Inv'
<1> DEFINE e == Entry(n)
           s == [scenes[e] EXCEPT !.camera = TRUE]
<1>1. /\ OpOnly /\ gpu' = gpu /\ pc = "hook" /\ Loaded(n) /\ scenes' = [scenes EXCEPT ![e] = s] /\ lines' = lines
      /\ handles' = handles /\ loads' = loads
  BY DEF SpawnCamera, Op
<1>2. scenes[e] \in Scenes
  BY <1>1, OpIsGames, EntryOf
<1>3. s \in Scenes /\ s.name = scenes[e].name /\ s.wired = scenes[e].wired
  BY <1>2 DEF Scenes
<1> HIDE DEF s
<1> QED BY <1>1, <1>3, SceneReplaced

LEMMA PushLineKeeps ==
    ASSUME Inv, PushLine PROVE Inv'
<1>1. /\ OpOnly /\ gpu' = gpu /\ pc = "hook" /\ scenes' = scenes /\ handles' = handles /\ loads' = loads
      /\ lines' = IF lines < MaxLines THEN lines + 1 ELSE lines
  BY DEF PushLine, Op
<1>2. host = "game" /\ GameOK
  BY <1>1, OpIsGames
<1>3. lines' \in 0 .. MaxLines
  BY <1>1, MeshesKnown, LoopAssumption
<1>4. GameOK'
  BY <1>1, <1>2 DEF GameOK
<1> QED BY <1>1, <1>2, <1>3, <1>4, MeshesKnown, OpsAre
------------------------------------------------------------------------------
(* The frames of the game and the demo.                                    *)
LEMMA TickKeeps ==
    ASSUME Inv, Tick PROVE Inv'
<1>1. /\ pc = "ticks" /\ pc' = "hook" /\ host' = host /\ gpu' = gpu /\ mm' = mm /\ handles' = handles
      /\ loads' = loads /\ lines' = lines /\ scenes' = [k \in DOMAIN scenes |-> Ticked(scenes[k])]
  BY DEF Tick, Goes
<1>2. host = "game" /\ GameOK
  BY <1>1, OpIsGames
<1>3. Follows(gpu, gpu, Recording(pc)) /\ PcOK
  BY DeviceKnown
<1>4. PcOK' /\ (Recording(pc') <=> Recording(pc))
  BY <1>1, <1>2, <1>3 DEF PcOK, Recording
<1>5. ASSUME NEW s \in Scenes PROVE Ticked(s) \in Scenes /\ Ticked(s).wired = s.wired /\ Ticked(s).name = s.name
  <2>1. s.ents \in [Ents -> [alive : BOOLEAN, life : Nat]]
    BY DEF Scenes, Entities
  <2>2. \A i \in Ents : Aged(s.ents[i]) \in [alive : BOOLEAN, life : Nat]
    <3> SUFFICES ASSUME NEW i \in Ents PROVE Aged(s.ents[i]) \in [alive : BOOLEAN, life : Nat]
      OBVIOUS
    <3> DEFINE x == s.ents[i]
    <3>1. x \in [alive : BOOLEAN, life : Nat]
      BY <2>1
    <3> HIDE DEF x
    <3>2. Aged(x) \in [alive : BOOLEAN, life : Nat]
      BY <3>1 DEF Aged
    <3> QED BY <3>2 DEF x
  <2> DEFINE q == [i \in Ents |-> Aged(s.ents[i])]
  <2>3. q \in Entities
    BY <2>2 DEF Entities
  <2>4. Ticked(s) = IF s.active THEN [s EXCEPT !.ents = q] ELSE s
    BY DEF Ticked
  <2> HIDE DEF q
  <2> QED BY <2>3, <2>4 DEF Scenes
<1>6. scenes \in [1 .. Len(scenes) -> Scenes] /\ Len(scenes) \in Nat /\ DOMAIN scenes = 1 .. Len(scenes)
  BY <1>2, LenProperties DEF GameOK
<1>7. \A k \in 1 .. Len(scenes) : scenes'[k] \in Scenes /\ scenes'[k].wired = scenes[k].wired
                                  /\ scenes'[k].name = scenes[k].name
  BY <1>1, <1>5, <1>6
<1>8. scenes' \in Seq(Scenes) /\ Len(scenes') = Len(scenes)
  <2>1. scenes' \in [1 .. Len(scenes) -> Scenes]
    BY <1>1, <1>5, <1>6
  <2> QED BY <1>6, <2>1
<1>9. GameOK'
  BY <1>1, <1>2, <1>7, <1>8 DEF GameOK, Wired
<1> QED BY <1>1, <1>2, <1>3, <1>4, <1>9, MeshesKnown, GameKept

(* Where there is no editor, only the window's buffers are used.           *)
LEMMA PlainNow ==
    ASSUME Inv, host # "editor"
    PROVE  /\ SwapChain("window", 0) \subseteq DOMAIN gpu.states
           /\ IF Recording(pc) THEN Open(gpu, Begun, SwapChain("window", 0), Feed, Drawable) ELSE Drawable \subseteq Feed
<1>1. Screens = SwapChain("window", 0)
  BY DEF Screens
<1>2. Stage = Begun /\ Bound = Screens
  BY DEF Stage, Bound, Inv, Core, PcOK, Common
<1> QED BY <1>1, <1>2 DEF Inv, Backed, Alive

LEMMA PlainThen ==
    ASSUME PcOK', host' # "editor", Sound(gpu', Anyhow'), SwapChain("window", 0) \subseteq DOMAIN gpu'.states,
           IF Recording(pc') THEN Open(gpu', Begun', SwapChain("window", 0), Feed', Drawable') ELSE Drawable' \subseteq Feed'
    PROVE  Backed'
<1>1. Screens' = SwapChain("window", 0)
  BY DEF Screens
<1>2. Stage' = Begun' /\ Bound' = Screens'
  BY DEF Stage, Bound, PcOK, Common
<1> QED BY <1>1, <1>2 DEF Backed, Alive

LEMMA FrameEnded ==
    ASSUME Inv, host # "editor", host' = host, PcOK', ~Recording(pc'), lines' \in 0 .. MaxLines,
           MeshesOK(mm', handles'), host = "game" => GameOK', host = "demo" => DemoOK',
           NEW D, Ended(gpu, gpu', D, Drawable')
    PROVE  Inv'
<1>1. Device(gpu') /\ Paced(gpu', FALSE) /\ Sound(gpu', Anyhow) /\ gpu'.states = gpu.states
      /\ Drawable' \subseteq Avail(Anyhow, Known(gpu'))
  BY DEF Ended
<1>2. Anyhow' = Anyhow /\ Feed' = Avail(Anyhow, Known(gpu'))
  BY DEF Anyhow, Feed
<1>3. Backed'
  BY <1>1, <1>2, PlainNow, PlainThen
<1>4. Recording(pc') = FALSE
  BY DEF Recording
<1> QED BY <1>1, <1>3, <1>4 DEF Inv, Core

LEMMA UpdateKeeps ==
    ASSUME Inv, NEW dt, NEW ok, Update(dt, ok) PROVE Inv'
<1> DEFINE u == Uploads(ok)
           S == SwapChain("window", 0)
<1>1. /\ pc = "update" /\ pc' = "ticks" /\ host = "game" /\ host' = host /\ gpu' = u.gpu /\ mm' = u.mm
      /\ handles' = u.handles /\ loads' = << >> /\ lines' = lines /\ scenes' = scenes
  BY DEF Update, Goes
<1>2. GameOK /\ Device(gpu) /\ Paced(gpu, Recording(pc)) /\ PcOK /\ Sound(gpu, Anyhow)
  BY <1>1, DeviceKnown DEF Inv, Core
<1>3. Open(gpu, Begun, S, Nat, Nat) /\ S \subseteq DOMAIN gpu.states
  <2>1. Feed = Nat /\ Drawable = Nat /\ Recording(pc)
    BY <1>1 DEF Feed, Anyhow, Avail, Drawable, Recording
  <2> QED BY <1>1, <2>1, PlainNow
<1>4. Depth \in S /\ Begun[Depth] = "depth"
  BY <1>2, BegunOK
<1>5. Len(loads) \in Nat
  BY <1>2, LenProperties DEF GameOK
<1>6. Loading(u, Begun, S) /\ (loads = << >> => u.handles = handles)
  BY <1>2, <1>3, <1>4, <1>5, MeshesKnown, UploadsGive
<1> HIDE DEF u
<1>7. /\ Kept(gpu, gpu') /\ gpu'.states = gpu.states /\ Open(gpu', Begun, S, Nat, Nat)
      /\ MeshesOK(mm', handles')
  BY <1>1, <1>6 DEF Loading
<1>8. Device(gpu') /\ Paced(gpu', Recording(pc)) /\ gpu'.back = gpu.back
  BY <1>2, <1>7, KeptDevice, PacedKept DEF Kept
<1>9. Sound(gpu', Anyhow)
  BY <1>2, <1>7, SoundKept
<1>10. Anyhow' = Anyhow /\ Feed' = Nat /\ Drawable' = Nat /\ Recording(pc') /\ Recording(pc) /\ Begun' = Begun
  BY <1>1, <1>8 DEF Feed, Anyhow, Avail, Drawable, Recording, Begun
<1>11. PcOK'
  BY <1>1 DEF PcOK
<1>12. Backed'
  BY <1>1, <1>3, <1>7, <1>9, <1>10, <1>11, PlainThen
<1>13. GameOK'
  BY <1>1, <1>2, <1>6 DEF GameOK
<1> QED BY <1>1, <1>7, <1>8, <1>10, <1>11, <1>12, <1>13, MeshesKnown DEF Inv, Core, Recording

LEMMA DrawGameKeeps ==
    ASSUME Inv, DrawGame PROVE Inv'
<1> DEFINE s == scenes[Entry(frameWorld)]
           S == SwapChain("window", 0)
           x == Execute(gpu, DebugLines(WithMeshes(Screen(gpu), Drawn(Meshes(s), BackBuffer(gpu.back))), gpu))
<1>1. /\ pc = "ticks" /\ pc' = "poll" /\ host' = host /\ mm' = mm /\ handles' = handles
      /\ scenes' = scenes /\ loads' = loads
      /\ (gpu' = [EndFrame(x) EXCEPT !.held = TRUE] /\ lines' = 0) \/ (gpu' = EndFrame(gpu) /\ lines' = lines)
  BY DEF DrawGame, Goes
<1>2. host = "game" /\ GameOK
  BY <1>1, OpIsGames
<1>3. Device(gpu) /\ Paced(gpu, Recording(pc)) /\ Sound(gpu, Anyhow) /\ Recording(pc) = TRUE
  BY <1>1, DeviceKnown DEF Recording
<1>4. Feed = Nat /\ Drawable = Nat /\ Drawable' = Nat
  BY <1>1, <1>2 DEF Feed, Anyhow, Avail, Drawable
<1>5. Open(gpu, Begun, S, Feed, Nat) /\ S \subseteq DOMAIN gpu.states
  BY <1>2, <1>3, <1>4, PlainNow
<1>6. Opened(gpu, x, Begun, S, Feed, Nat)
  BY <1>3, <1>5, MeshesKnown, GameDraws
<1> HIDE DEF x, S
<1>7. Opened(gpu, gpu, Begun, S, Feed, Nat)
  BY <1>3, <1>5, KeptSame DEF Opened
<1>8. Ended(gpu, EndFrame(x), S, Nat) /\ Ended(gpu, EndFrame(gpu), S, Nat)
  <2>1. S \subseteq DOMAIN gpu.states /\ SwapChain("window", 0) \subseteq S /\ Paced(gpu, TRUE)
    BY <1>3, <1>5 DEF S
  <2> QED BY <1>3, <1>6, <1>7, <2>1, FrameEnds
<1>9. Ended(gpu, gpu', S, Drawable')
  <2> DEFINE y == EndFrame(x)
  <2>1. Ended(gpu, y, S, Nat)
    BY <1>8
  <2> HIDE DEF y
  <2>2. Ended(gpu, [y EXCEPT !.held = TRUE], S, Nat)
    BY <2>1, EndedHeld
  <2> QED BY <1>1, <1>4, <1>8, <2>2 DEF y
<1>10. PcOK' /\ ~Recording(pc') /\ host # "editor" /\ host # "demo"
  BY <1>1, <1>2 DEF PcOK, Recording, Common
<1>11. lines' \in 0 .. MaxLines /\ MeshesOK(mm', handles')
  BY <1>1, MeshesKnown, LoopAssumption
<1>12. GameOK'
  BY <1>1, <1>2 DEF GameOK
<1> QED BY <1>1, <1>9, <1>10, <1>11, <1>12, FrameEnded

LEMMA DemoFrameKeeps ==
    ASSUME Inv, DemoFrame PROVE Inv'
<1> DEFINE S == SwapChain("window", 0)
           K == 1 .. Len(mm.paths)
           x == Execute(gpu, WithMeshes(Screen(gpu), << Draw(BackBuffer(gpu.back), 1) >>))
<1>1. /\ pc = "update" /\ pc' = "poll" /\ host = "demo" /\ host' = host /\ mm' = mm /\ handles' = handles
      /\ mm # NoMeshManager /\ gpu' = [EndFrame(x) EXCEPT !.held = TRUE] /\ lines' = lines
  BY DEF DemoFrame, Goes, world
<1>2. DemoOK
  BY <1>1 DEF Inv, Core
<1>3. Device(gpu) /\ Paced(gpu, TRUE) /\ Sound(gpu, Anyhow)
  BY <1>1, DeviceKnown DEF Recording
<1>4. Drawable = K /\ Drawable' = K /\ K \in SUBSET Nat /\ 1 \in K
  <2>1. Len(mm.paths) \in Nat /\ Len(mm.paths) > 0
    BY <1>1, <1>2, MeshesKnown, LenProperties DEF DemoOK, MeshesOK
  <2> QED BY <1>1, <2>1 DEF Drawable
<1>5. Open(gpu, Begun, S, Feed, K) /\ S \subseteq DOMAIN gpu.states /\ SwapChain("window", 0) \subseteq S
  BY <1>1, <1>4, PlainNow DEF Recording
<1> HIDE DEF K, S
<1>6. Opened(gpu, x, Begun, S, Feed, K)
  BY <1>3, <1>4, <1>5, DemoDraws
<1> HIDE DEF x
<1> DEFINE y == EndFrame(x)
<1>7. Ended(gpu, y, S, K)
  BY <1>3, <1>4, <1>5, <1>6, FrameEnds
<1> HIDE DEF y
<1>8. Ended(gpu, [y EXCEPT !.held = TRUE], S, K)
  BY <1>7, EndedHeld
<1>9. Ended(gpu, gpu', S, Drawable')
  BY <1>1, <1>4, <1>8 DEF y
<1>10. PcOK' /\ ~Recording(pc') /\ host # "editor" /\ host # "game"
  BY <1>1 DEF PcOK, Recording, Common
<1>11. DemoOK'
  BY <1>1, <1>2 DEF DemoOK
<1> QED BY <1>1, <1>9, <1>10, <1>11, MeshesKnown, FrameEnded

LEMMA DemoUploadKeeps ==
    ASSUME Inv, DemoUpload PROVE Inv'
<1> DEFINE S == SwapChain("window", 0)
           K == Drawable
           m == MeshManager(gpu)
           x == UploadStatic(gpu, m)
           L == 1 .. 1
<1>1. /\ pc = "update" /\ pc' = "uploaded" /\ host = "demo" /\ host' = host /\ mm' = WithMesh(m, "demo")
      /\ handles' = handles /\ mm = NoMeshManager /\ gpu' = Signal(EndFrame(x)) /\ lines' = lines
  BY DEF DemoUpload, Goes
<1>3. Device(gpu) /\ Paced(gpu, TRUE) /\ Sound(gpu, Anyhow)
  BY <1>1, DeviceKnown DEF Recording
<1>4. K \subseteq L
  <2>1. mm.paths = << >>
    BY <1>1 DEF NoMeshManager
  <2> QED BY <1>1, <2>1 DEF Drawable
<1>5. Open(gpu, Begun, S, Feed, K) /\ S \subseteq DOMAIN gpu.states /\ SwapChain("window", 0) \subseteq S
  BY <1>1, PlainNow DEF Recording
<1>6. DOMAIN m = {"list", "paths"} /\ m.list = gpu.slot /\ m.paths = << >> /\ Len(m.paths) = 0 /\ mm.paths = << >>
  BY <1>1 DEF MeshManager, NoMeshManager
<1>7. gpu.slot \in 0 .. Frames /\ gpu.slot # Frames
  BY <1>3, DeviceAssumption DEF Device, Slots
<1>8. Begun[Depth] = "depth" /\ Depth \in S
  BY <1>3, <1>5, BegunOK
<1> HIDE DEF K, S, m
<1>9. Opened(gpu, x, Begun, S, Feed, L)
  <2>1. Opened(gpu, x, Begun, S, Feed, K \union {Len(m.paths) + 1})
    <3> HIDE DEF x
    <3> QED BY <1>5, <1>6, <1>8, OwnCopy DEF x
  <2>2. K \union {Len(m.paths) + 1} = L
    <3>1. L = {1} /\ Len(m.paths) + 1 = 1
      BY <1>6
    <3> QED BY <1>4, <3>1
  <2> QED BY <2>1, <2>2
<1> HIDE DEF x
<1>10. L \in SUBSET Nat
  OBVIOUS
<1> DEFINE y == EndFrame(x)
<1>11. Ended(gpu, y, S, L)
  <2> HIDE DEF L
  <2> QED BY <1>3, <1>5, <1>9, <1>10, FrameEnds
<1> HIDE DEF y
<1>12. Follows(y, gpu', FALSE)
  <2>1. Device(y) /\ Paced(y, FALSE) /\ Sound(y, Anyhow)
    BY <1>11 DEF Ended
  <2> QED BY <1>1, <2>1, FollowsSignal DEF y
<1>13. MeshesOK(mm', handles') /\ Len(mm'.paths) = 1
  <2>1. MeshesOK(m, handles)
    BY <1>6, <1>7, MeshesKnown DEF MeshesOK
  <2>2. m.list # Frames /\ "demo" \in Named
    BY <1>6, <1>7 DEF Named
  <2>3. MeshesOK(WithMesh(m, "demo"), handles) /\ Len(WithMesh(m, "demo").paths) = Len(m.paths) + 1
    BY <2>1, <2>2, MeshAdded
  <2> QED BY <1>1, <1>6, <2>3
<1>14. Drawable' = L
  BY <1>1, <1>13 DEF Drawable
<1>15. PcOK' /\ ~Recording(pc')
  BY <1>1 DEF PcOK, Recording
<1>16. Anyhow' = Anyhow /\ Feed' = Avail(Anyhow, Known(y))
  BY <1>1, <1>12 DEF Anyhow, Feed, Follows
<1>17. SwapChain("window", 0) \subseteq DOMAIN gpu'.states /\ Sound(gpu', Anyhow')
       /\ Device(gpu') /\ Paced(gpu', FALSE)
  BY <1>5, <1>11, <1>12, <1>16 DEF Follows, Ended
<1>18. Backed'
  <2>1. Drawable' \subseteq Feed'
    BY <1>11, <1>14, <1>16 DEF Ended
  <2> QED BY <1>1, <1>15, <1>17, <2>1, PlainThen
<1>19. DemoOK'
  BY <1>13 DEF DemoOK
<1>20. Recording(pc') = FALSE
  BY <1>15 DEF Recording
<1> QED BY <1>1, <1>13, <1>15, <1>17, <1>18, <1>19, <1>20, MeshesKnown DEF Inv, Core
------------------------------------------------------------------------------
(* A frame begins.                                                         *)
LEMMA FirstOpen ==
    ASSUME NEW g, Device(g), NEW D, SwapChain("window", 0) \subseteq D, NEW U, NEW K, K \subseteq U
    PROVE  Open(BeginFrame(g), Colored(Rest, BackBuffer(g.back), "target"), D, U, K)
<1> DEFINE b == BackBuffer(g.back)
           c == Barrier(b, "present", "target")
           a == Colored(Rest, b, "target")
           q == << c >>
           h == BeginFrame(g)
<1>1. /\ Device(h) /\ h.slot = NextSlot(g) /\ h.lists[h.slot].open /\ h.lists[h.slot].cmds = q
  BY BeginFrameGives
<1>2. b \in Resources /\ b \in D /\ Rest[b] = "present" /\ c \in Commands
  <2>1. b \in Resources /\ b \in SwapChain("window", 0) /\ c \in Commands
    BY BackBufferOK DEF Device, States
  <2>2. b[4] = "present"
    BY DepthNames
  <2> QED BY <2>1, <2>2 DEF Rest
<1>3. c.res = b /\ c.from = "present" /\ c.to = "target" /\ c.mesh = 0 /\ c.copy = FALSE
  BY DEF Barrier
<1>4. q \in Seq(Commands) /\ Len(q) = 1 /\ q[1] = c
  BY <1>2
<1> HIDE DEF h, q, c, b
<1>5. a = Puts(Rest, c)
  BY <1>3 DEF Colored, Puts
<1>6. Leads(Rest, << c >>, Puts(Rest, c)) /\ Puts(Rest, c) \in Maps
  BY <1>2, <1>3, RestMaps, LeadsOne
<1>7. Leads(Rest, q, a) /\ a \in Maps
  BY <1>5, <1>6 DEF q
<1> HIDE DEF a
<1>8. Uses(q, D) /\ Fed(U, q)
  BY <1>2, <1>3, <1>4 DEF Uses, Fed
<1>9. ListOK(q, a, D, U, K)
  BY <1>4, <1>7, <1>8 DEF ListOK
<1>10. Open(h, a, D, U, K)
  BY <1>1, <1>9 DEF Open
<1> QED BY <1>10 DEF h, a, b

(* Two lists in flight: what the list before last uses is done with when   *)
(* its slot comes up again.                                                *)
LEMMA SubmitsBegin ==
    ASSUME host = "editor", Submits, Device(gpu), Paced(gpu, FALSE), FrameIsFree(gpu), pc = "slot",
           gpu' = BeginFrame(gpu), ed' = ed
    PROVE  Submits'
<1>1. gpu'.queue = gpu.queue /\ gpu'.slot = NextSlot(gpu) /\ NextSlot(gpu) \in Slots
  BY BeginFrameGives
<1>2. ASSUME NEW k \in 1 .. Len(gpu.queue)
      PROVE  /\ gpu.queue[k].slot \in Slots \/ gpu.queue[k].cmds = << >>
             /\ Fresh(gpu.queue[k].cmds, ed.pie.n)
  <2>1. gpu.queue[k].slot \in Slots => gpu.fences[gpu.queue[k].slot] > gpu.done
    BY PacedEntry
  <2>2. gpu.fences[NextSlot(gpu)] <= gpu.done /\ gpu.done \in Nat /\ gpu.fences \in [Slots -> Nat] /\ gpu.slot \in Slots
    BY <1>1 DEF FrameIsFree, Device
  <2>3. gpu.queue[k].slot \in Slots => gpu.queue[k].slot # NextSlot(gpu)
    BY <1>1, <2>1, <2>2
  <2>4. \A s \in Slots \ {gpu.slot} : s = NextSlot(gpu)
    <3>1. Frames = 1 \/ Frames = 2
      BY TwoInFlight, DeviceAssumption
    <3>2. CASE Frames = 1
      BY <2>2, <3>2 DEF Slots
    <3>3. CASE Frames = 2
      <4>1. gpu.slot = 0 \/ gpu.slot = 1
        BY <2>2, <3>3 DEF Slots
      <4>2. NextSlot(gpu) = IF gpu.slot = 0 THEN 1 ELSE 0
        BY <3>3, <4>1 DEF NextSlot
      <4> QED BY <3>3, <4>1, <4>2 DEF Slots
    <3> QED BY <3>1, <3>2, <3>3
  <2> QED BY <2>3, <2>4 DEF Submits
<1> QED BY <1>1, <1>2 DEF Submits

LEMMA SlotFreeKeeps ==
    ASSUME Inv, SlotFree PROVE Inv'
<1>1. /\ pc = "slot" /\ pc' = "update" /\ FrameIsFree(gpu) /\ gpu' = BeginFrame(gpu) /\ host' = host
      /\ UNCHANGED world
  BY DEF SlotFree, Goes
<1>2. Device(gpu) /\ Paced(gpu, FALSE) /\ Sound(gpu, Anyhow) /\ PcOK
  <2>1. Recording(pc) = FALSE
    BY <1>1 DEF Recording
  <2> QED BY <2>1, DeviceKnown
<1>3. /\ Device(gpu') /\ gpu'.back = gpu.back /\ gpu'.queue = gpu.queue /\ gpu'.states = gpu.states
      /\ gpu'.uploaded = gpu.uploaded /\ gpu'.faults = gpu.faults
  BY <1>1, <1>2, BeginFrameGives
<1>4. Paced(gpu', TRUE)
  BY <1>1, <1>2, BeginFramePaced
<1>5. Sound(gpu', Anyhow) /\ Known(gpu') = Known(gpu)
  BY <1>2, <1>3, SoundSame
<1>6. /\ Anyhow' = Anyhow /\ Drawable' = Drawable /\ Feed' = Feed /\ Begun' = Begun
      /\ Screens' = Screens /\ Stage' = Begun /\ Bound' = Screens
  BY <1>1, <1>3, <1>5 DEF Anyhow, Drawable, Feed, Begun, Screens, Stage, Bound, world
<1>7. Alive'
  <2>1. host = "editor" => HeldPie' = HeldPie /\ ed' = ed
    BY <1>1 DEF HeldPie, world
  <2> QED BY <1>1, <1>3, <1>6, <2>1 DEF Alive, Inv, Backed
<1>8. Open(gpu', Begun, Screens, Feed, Drawable)
  <2>1. Drawable \subseteq Feed
    BY <1>1 DEF Inv, Backed, Recording
  <2>2. SwapChain("window", 0) \subseteq Screens
    BY DEF Screens
  <2> DEFINE D == Screens
             U == Feed
             K == Drawable
  <2> HIDE DEF D, U, K
  <2>3. Open(BeginFrame(gpu), Colored(Rest, BackBuffer(gpu.back), "target"), D, U, K)
    BY <1>2, <2>1, <2>2, FirstOpen DEF D, U, K
  <2> QED BY <1>1, <2>3 DEF Begun, D, U, K
<1>9. Recording(pc') /\ Recording(pc') = TRUE
  BY <1>1 DEF Recording
<1>10. host = "editor" => Submits'
  BY <1>1, <1>2, SubmitsBegin DEF Inv, Backed, world
<1>11. Backed'
  BY <1>1, <1>5, <1>6, <1>7, <1>8, <1>9, <1>10 DEF Backed
<1>12. PcOK'
  BY <1>1, <1>2 DEF PcOK, Common
<1>13. MeshesOK(mm', handles') /\ lines' \in 0 .. MaxLines
  BY <1>1, MeshesKnown DEF world
<1>14. host = "game" => GameOK'
  BY <1>1 DEF Inv, Core, GameOK, Wired, world
<1>15. host = "demo" => DemoOK'
  BY <1>1 DEF Inv, Core, DemoOK, world
<1>16. ASSUME host = "editor" PROVE EdOK'
  <2>1. EdOK /\ ed' = ed /\ mm' = mm /\ handles' = handles /\ loads' = loads
    BY <1>1, <1>16 DEF Inv, Core, world
  <2> QED BY <1>1, <2>1 DEF EdOK, EdTyped, EdPlays, EdLoads, EdMeshes
<1> QED BY <1>1, <1>3, <1>4, <1>9, <1>11, <1>12, <1>13, <1>14, <1>15, <1>16 DEF Inv, Core
------------------------------------------------------------------------------
(* The editor between its renders.                                         *)
LEMMA EditorKept ==
    ASSUME Inv, host = "editor", EdFrame, PcOK', Recording(pc') <=> Recording(pc), mm' = mm,
           Follows(gpu, gpu', Recording(pc)), EdSteady, MeshesOK(mm', handles'), EdOK'
    PROVE  Inv'
<1>1. host' = host /\ lines' = lines
  BY DEF EdFrame
<1>2. Backed'
  BY <1>1, FollowsBacked
<1>3. Device(gpu') /\ Paced(gpu', Recording(pc'))
  BY DEF Follows, Recording
<1> QED BY <1>1, <1>2, <1>3, MeshesKnown DEF Inv, Core

LEMMA EditorsPc ==
    ASSUME Inv, pc \in {"pre", "piegone", "pietick", "view", "viewdrain", "ui", "uigone", "render"}
    PROVE  host = "editor" /\ EdOK /\ EdTyped /\ EdPlays /\ EdLoads /\ EdMeshes
<1>1. host = "editor"
  BY DEF Inv, Core, PcOK, Common
<1> QED BY <1>1 DEF Inv, Core, EdOK

LEMMA CalmKeeps ==
    ASSUME Inv, ResizeView \/ NoGesture \/ (PieClosed /\ ed' = ed /\ pc' = "pietick") PROVE Inv'
<1>1. /\ Follows(gpu, gpu, Recording(pc)) /\ Follows(gpu, Signal(gpu), Recording(pc))
  BY DeviceKnown
<1>2. /\ UNCHANGED world /\ host' = host /\ pc \in {"pre", "view", "ui"}
      /\ pc = "pre" => pc' = "pietick"
      /\ pc = "view" => pc' \in {"viewdrain", "begin"}
      /\ pc = "ui" => pc' = "render"
      /\ gpu' = gpu \/ gpu' = Signal(gpu)
  BY DEF ResizeView, NoGesture, PieClosed, Goes, EdFrame, world
<1>3. host = "editor"
  BY <1>2, EditorsPc
<1>4. PcOK' /\ (Recording(pc') <=> Recording(pc)) /\ EdCalm
  BY <1>2, <1>3 DEF PcOK, Common, Recording, EdCalm, EdSteady, world
<1> QED BY <1>1, <1>2, <1>3, <1>4, WorldKept

(* Play stops: the scene is put back.                                      *)
LEMMA StopsKeeps ==
    ASSUME Inv, EdFrame, Playing, ed' = StopPie(ed), gpu' = Signal(gpu), UNCHANGED << mm, handles, loads >>,
           (pc = "pre" /\ pc' = "piegone") \/ (pc = "ui" /\ pc' = "uigone")
    PROVE  Inv'
<1>1. host = "editor" /\ EdOK /\ EdTyped /\ EdPlays /\ EdLoads /\ EdMeshes
  BY EditorsPc
<1>2. ed.pie.open /\ ed.pie.snap # << >> /\ loads = << >> /\ ed.pie.snap \in Showing
  BY <1>1 DEF Playing, EdLoads, EdTyped
<1>3. /\ DOMAIN ed' = EdFields /\ DOMAIN ed'.pie = PieFields /\ ed'.ents = ed.pie.snap
      /\ ed'.registered = ed.registered /\ ed'.held = ed.held /\ ed'.view = ed.view /\ ed'.preview = ed.preview
      /\ ed'.pie.n = ed.pie.n /\ ed'.pie.back = ed.pie.back /\ ed'.pie.open = ed.pie.open /\ ed'.pie.snap = << >>
  BY <1>1 DEF StopPie, EdTyped, EdFields, PieFields
<1>4. EdTyped'
  BY <1>1, <1>2, <1>3 DEF EdTyped
<1>5. EdPlays'
  BY <1>2, <1>3 DEF EdPlays
<1>6. EdLoads'
  BY <1>1, <1>2, <1>3 DEF EdLoads
<1>7. EdMeshes'
  BY <1>1, <1>3 DEF EdMeshes
<1>8. EdSteady
  BY <1>3 DEF EdSteady
<1>9. PcOK' /\ (Recording(pc') <=> Recording(pc))
  BY <1>1 DEF PcOK, Common, Recording, EdFrame
<1>10. Follows(gpu, gpu', Recording(pc))
  BY DeviceKnown
<1> QED BY <1>1, <1>4, <1>5, <1>6, <1>7, <1>8, <1>9, <1>10, MeshesKnown, EditorKept DEF EdOK

LEMMA PieClosedKeeps ==
    ASSUME Inv, PieClosed PROVE Inv'
<1>1. CASE Playing /\ ed.pie.wantsClose
  BY <1>1, StopsKeeps DEF PieClosed, Goes
<1>2. CASE ~(Playing /\ ed.pie.wantsClose)
  BY <1>2, CalmKeeps DEF PieClosed, Goes
<1> QED BY <1>1, <1>2

LEMMA StopMenuKeeps ==
    ASSUME Inv, StopMenu PROVE Inv'
BY StopsKeeps DEF StopMenu, Gesture, Goes

(* What the entities show changes while no load waits.                     *)
LEMMA ShownKeeps ==
    ASSUME Inv, EdFrame, loads = << >>, NEW w \in Showing, ed' = [ed EXCEPT !.ents = w],
           UNCHANGED << gpu, mm, handles, loads >>,
           (pc = "pietick" /\ pc' = "view") \/ (pc = "ui" /\ pc' = "render")
    PROVE  Inv'
<1>1. host = "editor" /\ EdOK /\ EdTyped /\ EdPlays /\ EdLoads /\ EdMeshes
  BY EditorsPc
<1>3. /\ DOMAIN ed' = EdFields /\ ed'.ents = w
      /\ ed'.registered = ed.registered /\ ed'.held = ed.held /\ ed'.view = ed.view /\ ed'.preview = ed.preview
      /\ ed'.pie = ed.pie
  BY <1>1 DEF EdTyped, EdFields
<1>4. EdTyped'
  BY <1>1, <1>3 DEF EdTyped
<1>5. EdPlays'
  BY <1>1, <1>3 DEF EdPlays
<1>6. EdLoads'
  BY <1>1, <1>3 DEF EdLoads
<1>7. EdMeshes'
  BY <1>1, <1>3 DEF EdMeshes
<1>8. EdSteady
  BY <1>3 DEF EdSteady
<1>9. PcOK' /\ (Recording(pc') <=> Recording(pc))
  BY <1>1 DEF PcOK, Common, Recording, EdFrame
<1>10. Follows(gpu, gpu', Recording(pc))
  BY DeviceKnown
<1> QED BY <1>1, <1>4, <1>5, <1>6, <1>7, <1>8, <1>9, <1>10, MeshesKnown, EditorKept DEF EdOK

LEMMA OneShown ==
    ASSUME NEW w \in Showing, NEW i \in Ents, NEW p \in Paths \union {None}
    PROVE  [w EXCEPT ![i] = p] \in Showing
BY DEF Showing

LEMMA PieTickKeeps ==
    ASSUME Inv, PieTick PROVE Inv'
<1>1. /\ pc = "pietick" /\ pc' = "view" /\ EdFrame /\ UNCHANGED << gpu, mm, handles, loads >>
      /\ ed' = ed \/ (Playing /\ \E i \in Ents, p \in Paths \union {None} : ed' = [ed EXCEPT !.ents[i] = p])
  BY DEF PieTick, Goes
<1>2. host = "editor" /\ EdTyped /\ EdLoads
  BY <1>1, EditorsPc
<1>3. CASE ed' = ed
  <2>1. UNCHANGED world /\ host' = host
    BY <1>1, <1>3 DEF EdFrame, world
  <2>2. PcOK' /\ (Recording(pc') <=> Recording(pc)) /\ EdCalm
    BY <1>1, <1>2, <1>3 DEF PcOK, Common, Recording, EdCalm, EdSteady, EdFrame
  <2> QED BY <1>1, <2>1, <2>2, DeviceKnown, WorldKept
<1>4. ASSUME Playing, NEW i \in Ents, NEW p \in Paths \union {None}, ed' = [ed EXCEPT !.ents[i] = p] PROVE Inv'
  <2> DEFINE w == [ed.ents EXCEPT ![i] = p]
  <2>1. w \in Showing
    BY <1>2, OneShown DEF EdTyped
  <2>2. ed' = [ed EXCEPT !.ents = w]
    BY <1>4
  <2>3. loads = << >>
    BY <1>2, <1>4 DEF Playing, EdLoads
  <2> HIDE DEF w
  <2> QED BY <1>1, <2>1, <2>2, <2>3, ShownKeeps
<1> QED BY <1>1, <1>3, <1>4

LEMMA SetPathKeeps ==
    ASSUME Inv, NEW i \in Ents, NEW p \in Paths \union {None}, SetPath(i, p) PROVE Inv'
<1>1. /\ pc = "ui" /\ pc' = "render" /\ EdFrame /\ UNCHANGED << gpu, mm, handles, loads >>
      /\ ed' = [ed EXCEPT !.ents[i] = p]
  BY DEF SetPath, Gesture, Goes
<1>2. host = "editor" /\ EdTyped /\ EdLoads
  BY <1>1, EditorsPc
<1> DEFINE w == [ed.ents EXCEPT ![i] = p]
<1>3. w \in Showing
  BY <1>2, OneShown DEF EdTyped
<1>4. ed' = [ed EXCEPT !.ents = w]
  BY <1>1
<1>5. loads = << >>
  BY <1>1, <1>2 DEF EdLoads
<1> HIDE DEF w
<1> QED BY <1>1, <1>3, <1>4, <1>5, ShownKeeps

(* Fields the invariant does not speak of, and the wish to close.          *)
LEMMA MinorKeeps ==
    ASSUME Inv, host = "editor", EdFrame, DOMAIN ed' = DOMAIN ed, DOMAIN ed'.pie = DOMAIN ed.pie,
           UNCHANGED << ed.ents, ed.registered, ed.held, ed.view, ed.preview >>,
           UNCHANGED << ed.pie.n, ed.pie.back, ed.pie.open, ed.pie.snap >>,
           UNCHANGED << gpu, mm, handles, loads >>, pc' = pc \/ (pc = "ui" /\ pc' = "render")
    PROVE  Inv'
<1>1. EdOK /\ EdTyped /\ EdPlays /\ EdLoads /\ EdMeshes /\ PcOK
  BY DEF Inv, Core, EdOK
<1>4. EdTyped'
  BY <1>1 DEF EdTyped
<1>5. EdPlays'
  BY <1>1 DEF EdPlays
<1>6. EdLoads'
  BY <1>1 DEF EdLoads
<1>7. EdMeshes'
  BY <1>1 DEF EdMeshes
<1>8. EdSteady
  BY DEF EdSteady
<1>9. PcOK' /\ (Recording(pc') <=> Recording(pc))
  BY <1>1 DEF PcOK, Common, Recording, EdFrame
<1>10. Follows(gpu, gpu', Recording(pc))
  BY DeviceKnown
<1> QED BY <1>1, <1>4, <1>5, <1>6, <1>7, <1>8, <1>9, <1>10, MeshesKnown, EditorKept DEF EdOK

LEMMA DragPanelKeeps ==
    ASSUME Inv, DragPanel PROVE Inv'
<1>1. /\ pc = "ui" /\ pc' = "render" /\ EdFrame /\ UNCHANGED << gpu, mm, handles, loads >>
      /\ ed' = [ed EXCEPT !.panel = 3 - @]
  BY DEF DragPanel, Gesture, Goes
<1>2. host = "editor" /\ EdTyped
  BY <1>1, EditorsPc
<1>3. /\ DOMAIN ed' = DOMAIN ed /\ UNCHANGED << ed.ents, ed.registered, ed.held, ed.view, ed.preview >>
      /\ ed'.pie = ed.pie
  BY <1>1, <1>2 DEF EdTyped, EdFields
<1> QED BY <1>1, <1>2, <1>3, MinorKeeps

LEMMA ClosePieWindowKeeps ==
    ASSUME Inv, ClosePieWindow PROVE Inv'
<1>1. /\ pc' = pc /\ host = "editor" /\ EdFrame /\ UNCHANGED << gpu, mm, handles, loads >>
      /\ ed' = [ed EXCEPT !.pie.wantsClose = TRUE]
  BY DEF ClosePieWindow
<1>2. EdTyped
  BY <1>1 DEF Inv, Core, EdOK
<1>3. /\ DOMAIN ed' = DOMAIN ed /\ UNCHANGED << ed.ents, ed.registered, ed.held, ed.view, ed.preview >>
      /\ ed'.pie = [ed.pie EXCEPT !.wantsClose = TRUE]
  BY <1>1, <1>2 DEF EdTyped, EdFields
<1>4. DOMAIN ed'.pie = DOMAIN ed.pie /\ UNCHANGED << ed.pie.n, ed.pie.back, ed.pie.open, ed.pie.snap >>
  BY <1>2, <1>3 DEF EdTyped, PieFields
<1> QED BY <1>1, <1>3, <1>4, MinorKeeps

LEMMA OpenSceneKeeps ==
    ASSUME Inv, NEW w \in [Ents -> Paths \union {None}], OpenScene(w) PROVE Inv'
<1> DEFINE T == {i \in Ents : w[i] # None}
           l == Asking(w, Those(T))
<1>1. /\ pc = "ui" /\ pc' = "render" /\ EdFrame /\ mm' = mm /\ gpu' = ClearTextures(gpu) /\ ~Playing
      /\ ed' = [ed EXCEPT !.ents = w, !.registered = NoMeshes] /\ handles' = NoHandles /\ loads' = l
  BY DEF OpenScene, Gesture, Goes
<1>2. host = "editor" /\ EdOK /\ EdTyped /\ EdPlays /\ EdLoads /\ EdMeshes
  BY <1>1, EditorsPc
<1>3. /\ DOMAIN ed' = EdFields /\ ed'.ents = w /\ w \in Showing
      /\ ed'.registered = NoMeshes /\ ed'.held = ed.held /\ ed'.view = ed.view /\ ed'.preview = ed.preview
      /\ ed'.pie = ed.pie
  BY <1>1, <1>2 DEF EdTyped, EdFields, Showing
<1>4. EdTyped'
  <2>1. NoMeshes \in Showing
    BY DEF NoMeshes, Showing
  <2> QED BY <1>2, <1>3, <2>1 DEF EdTyped
<1>5. EdPlays'
  BY <1>1, <1>2, <1>3 DEF EdPlays
<1>6. EdLoads'
  <2>1. l \in Seq(Wanting(w))
    BY <1>3, AskingGives
  <2> HIDE DEF l
  <2>2. Asks(w, l)
    BY <2>1, WantingLoads
  <2>3. ~ed'.pie.open
    BY <1>1, <1>2, <1>3 DEF EdPlays, Playing
  <2> QED BY <1>1, <1>3, <2>2, <2>3 DEF EdLoads, Asks
<1>7. EdMeshes'
  <2>1. \A i \in Ents : handles'[i] = 0
    BY <1>1 DEF NoHandles
  <2> QED BY <1>1, <1>2, <1>3, <2>1 DEF EdMeshes
<1>8. EdSteady
  BY <1>1, <1>3 DEF EdSteady
<1>9. PcOK' /\ (Recording(pc') <=> Recording(pc))
  BY <1>1, <1>2 DEF PcOK, Common, Recording, EdFrame
<1>10. Follows(gpu, gpu', Recording(pc))
  BY <1>1, DeviceKnown
<1>11. MeshesOK(mm', handles')
  BY <1>1, MeshesKnown
<1> QED BY <1>1, <1>2, <1>4, <1>5, <1>6, <1>7, <1>8, <1>9, <1>10, <1>11, EditorKept DEF EdOK
------------------------------------------------------------------------------
(* The editor's resources come and go.                                     *)
LEMMA EditorNext ==
    ASSUME Inv, EdFrame, PcOK', Device(gpu'), Paced(gpu', Recording(pc')), MeshesOK(mm', handles'),
           host = "editor", EdTyped', EdPlays' /\ EdLoads' /\ EdMeshes', Backed'
    PROVE  Inv'
<1>1. host' = host /\ lines' = lines
  BY DEF EdFrame
<1> QED BY <1>1, MeshesKnown DEF Inv, Core, EdOK

LEMMA OwnersApart ==
    ASSUME EdTyped
    PROVE  /\ Screens \intersect PieBuffers = {} /\ Screens \subseteq Resources
           /\ SwapChain("pie", ed.pie.n) \subseteq PieBuffers /\ HeldPie \subseteq PieBuffers
           /\ \A v \in Nat : Offscreen("view", v) \subseteq Resources /\ Offscreen("view", v) \intersect PieBuffers = {}
           /\ \A v \in Nat : Offscreen("view", v) \intersect SwapChain("window", 0) = {}
           /\ \A v \in Nat : Offscreen("view", v) \intersect Offscreen("preview", 0) = {}
<1>1. ed.view \in Nat /\ ed.pie.n \in Nat
  BY DEF EdTyped
<1>2. \A v \in Nat : Offscreen("view", v) \subseteq Resources /\ \A r \in Offscreen("view", v) : r[1] = "view"
  <2>1. \A v \in Nat : \A r \in Offscreen("view", v) : r[1] = "view"
    BY DEF Offscreen
  <2> QED BY <2>1, ViewNames
<1>3. Offscreen("preview", 0) \subseteq Resources /\ \A r \in Offscreen("preview", 0) : r[1] = "preview"
  <2>1. \A r \in Offscreen("preview", 0) : r[1] = "preview"
    BY DEF Offscreen
  <2> QED BY <2>1, PreviewNames
<1>4. SwapChain("window", 0) \subseteq Resources /\ \A r \in SwapChain("window", 0) : r[1] = "window"
  BY ChainNames
<1>5. SwapChain("pie", ed.pie.n) \subseteq Resources /\ \A r \in SwapChain("pie", ed.pie.n) : r[1] = "pie"
  BY <1>1, ChainNames
<1>6. \A r \in PieBuffers : r[1] = "pie"
  BY DEF PieBuffers
<1>7. SwapChain("pie", ed.pie.n) \subseteq PieBuffers
  BY <1>5 DEF PieBuffers
<1>8. Screens \subseteq Resources /\ \A r \in Screens : r[1] # "pie"
  BY <1>1, <1>2, <1>3, <1>4 DEF Screens
<1>9. HeldPie \subseteq PieBuffers
  BY <1>7 DEF HeldPie
<1>10. "view" # "pie" /\ "view" # "window" /\ "view" # "preview"
  OBVIOUS
<1>11. Screens \intersect PieBuffers = {}
  BY <1>6, <1>8
<1>12. \A v \in Nat : Offscreen("view", v) \intersect PieBuffers = {}
  BY <1>2, <1>6, <1>10
<1>13. \A v \in Nat : Offscreen("view", v) \intersect SwapChain("window", 0) = {}
  BY <1>2, <1>4, <1>10
<1>14. \A v \in Nat : Offscreen("view", v) \intersect Offscreen("preview", 0) = {}
  BY <1>2, <1>3, <1>10
<1> QED BY <1>2, <1>7, <1>8, <1>9, <1>11, <1>12, <1>13, <1>14

(* The play window goes, with the buffers no frame graph holds.            *)
LEMMA DestroyPieKeeps ==
    ASSUME Inv, DestroyPie PROVE Inv'
<1> DEFINE gone == SwapChain("pie", ed.pie.n) \ ed.held
<1>1. /\ pc \in {"piegone", "uigone"} /\ Idle(gpu) /\ gpu' = Released(gpu, gone)
      /\ ed' = [ed EXCEPT !.pie = [NewPie EXCEPT !.n = ed.pie.n]]
      /\ pc' = (IF pc = "piegone" THEN "pietick" ELSE "render")
      /\ UNCHANGED << mm, handles, loads >> /\ EdFrame /\ host' = host
  BY DEF DestroyPie, Goes, EdFrame
<1>2. host = "editor" /\ EdTyped /\ EdPlays /\ EdLoads /\ EdMeshes
  BY <1>1, EditorsPc
<1>3. Device(gpu) /\ Paced(gpu, Recording(pc)) /\ Sound(gpu, Anyhow) /\ PcOK
  BY DeviceKnown
<1>4. Len(gpu.queue) = 0
  BY <1>1, <1>3, IdleEmpty
<1>5. Kept(gpu, gpu') /\ gpu'.lists = gpu.lists /\ Device(gpu')
  <2> HIDE DEF gone
  <2>1. Kept(gpu, gpu') /\ gpu'.lists = gpu.lists
    BY <1>1, <1>3, ReleasedGives
  <2> QED BY <1>3, <2>1, KeptDevice
<1>6. Sound(gpu', Anyhow) /\ Known(gpu') = Known(gpu) /\ DOMAIN gpu'.states = DOMAIN gpu.states \ gone
  <2>1. \A k \in 1 .. Len(gpu.queue) : Uses(gpu.queue[k].cmds, DOMAIN gpu.states \ gone)
    BY <1>4
  <2> HIDE DEF gone
  <2> QED BY <1>1, <1>3, <2>1, SoundReleased
<1>7. gpu'.slot = gpu.slot /\ gpu'.back = gpu.back /\ gpu'.queue = gpu.queue
  BY <1>5 DEF Kept
<1>8. /\ DOMAIN ed' = EdFields /\ ed'.ents = ed.ents
      /\ ed'.registered = ed.registered /\ ed'.held = ed.held /\ ed'.view = ed.view /\ ed'.preview = ed.preview
      /\ ed'.pie = [NewPie EXCEPT !.n = ed.pie.n]
  BY <1>1, <1>2 DEF EdTyped, EdFields
<1>9. /\ DOMAIN ed'.pie = PieFields /\ ed'.pie.n = ed.pie.n /\ ed'.pie.back = 0 /\ ed'.pie.open = FALSE
      /\ ed'.pie.snap = << >>
  BY <1>8 DEF NewPie, PieFields
<1>10. EdTyped'
  <2>1. 0 \in 0 .. BackBuffers - 1 /\ FALSE \in BOOLEAN /\ << >> \in Showing \union {<< >>}
    BY DeviceAssumption
  <2> QED BY <1>2, <1>8, <1>9, <2>1 DEF EdTyped
<1>11. EdPlays'
  BY <1>1, <1>9 DEF EdPlays
<1>12. EdLoads'
  BY <1>1, <1>2, <1>8, <1>9 DEF EdLoads, EdPlays
<1>13. EdMeshes'
  BY <1>1, <1>2, <1>8 DEF EdMeshes
<1>14. PcOK' /\ (Recording(pc') <=> Recording(pc))
  BY <1>1, <1>2 DEF PcOK, Common, Recording
<1>15. Paced(gpu', Recording(pc'))
  BY <1>3, <1>5, <1>14, PacedKept DEF Recording
<1>16. /\ Anyhow' = Anyhow /\ Drawable' = Drawable /\ Feed' = Feed /\ Begun' = Begun
       /\ Screens' = Screens /\ HeldPie' = HeldPie
  BY <1>1, <1>6, <1>7, <1>8, <1>9 DEF Anyhow, Drawable, Feed, Begun, Screens, HeldPie
<1>17. Alive'
  <2>1. Screens \subseteq DOMAIN gpu.states /\ HeldPie \subseteq DOMAIN gpu.states
    BY <1>2 DEF Inv, Backed, Alive
  <2>2. Screens \intersect gone = {}
    BY <1>2, OwnersApart
  <2>3. HeldPie \intersect gone = {}
    BY DEF HeldPie
  <2> HIDE DEF gone
  <2>4. Screens \subseteq DOMAIN gpu'.states /\ HeldPie \subseteq DOMAIN gpu'.states
    BY <1>6, <2>1, <2>2, <2>3
  <2> QED BY <1>9, <1>16, <2>4 DEF Alive
<1>18. IF Recording(pc') THEN Open(gpu', Stage', Bound', Feed', Drawable') ELSE Drawable' \subseteq Feed'
  <2>1. IF Recording(pc) THEN Open(gpu, Stage, Bound, Feed, Drawable) ELSE Drawable \subseteq Feed
    BY DEF Inv, Backed
  <2>2. CASE pc = "piegone"
    <3>1. ~Recording(pc) /\ ~Recording(pc')
      BY <1>1, <2>2 DEF Recording
    <3> QED BY <1>16, <2>1, <3>1
  <2>3. CASE pc = "uigone"
    <3>1. Recording(pc) /\ Recording(pc')
      BY <1>1, <2>3 DEF Recording
    <3>2. Stage' = Stage /\ Bound' = Bound
      BY <1>1, <1>2, <1>8, <1>16, <2>3 DEF Stage, Bound, Sampled
    <3> DEFINE a == Stage
               D == Bound
               U == Feed
               K == Drawable
    <3>3. Open(gpu, a, D, U, K)
      BY <2>1, <3>1
    <3> HIDE DEF a, D, U, K
    <3>4. Open(gpu', a, D, U, K)
      BY <1>5, <1>7, <3>3, OpenStays
    <3> QED BY <1>16, <3>1, <3>2, <3>4 DEF a, D, U, K
  <2> QED BY <1>1, <2>2, <2>3
<1>19. Submits'
  BY <1>4, <1>7 DEF Submits
<1>20. Backed'
  BY <1>1, <1>2, <1>6, <1>16, <1>17, <1>18, <1>19 DEF Backed
<1>21. MeshesOK(mm', handles')
  BY <1>1, MeshesKnown
<1> QED BY <1>1, <1>2, <1>5, <1>10, <1>11, <1>12, <1>13, <1>14, <1>15, <1>20, <1>21, EditorNext

(* The viewport's target is made anew.                                     *)
LEMMA CreateViewportRtKeeps ==
    ASSUME Inv, CreateViewportRt PROVE Inv'
<1> DEFINE gone == Offscreen("view", ed.view)
           new == Offscreen("view", ed.view + 1)
           mid == Released(gpu, gone)
<1>1. /\ pc = "viewdrain" /\ Idle(gpu) /\ pc' = "begin" /\ gpu' = Given(mid, new)
      /\ ed' = [ed EXCEPT !.view = @ + 1, !.viewSize = ed.panel]
      /\ UNCHANGED << mm, handles, loads >> /\ EdFrame /\ host' = host
  BY DEF CreateViewportRt, Goes, EdFrame
<1>2. host = "editor" /\ EdTyped /\ EdPlays /\ EdLoads /\ EdMeshes
  BY <1>1, EditorsPc
<1>3. Device(gpu) /\ Paced(gpu, FALSE) /\ Sound(gpu, Anyhow) /\ PcOK
  <2>1. Recording(pc) = FALSE
    BY <1>1 DEF Recording
  <2> QED BY <2>1, DeviceKnown
<1>4. Len(gpu.queue) = 0
  BY <1>1, <1>3, IdleEmpty
<1>5. ed.view \in Nat /\ ed.view + 1 \in Nat
  BY <1>2 DEF EdTyped
<1> HIDE DEF gone
<1>6. Kept(gpu, mid) /\ Device(mid) /\ mid.lists = gpu.lists
  BY <1>3, ReleasedGives, KeptDevice
<1>7. Sound(mid, Anyhow) /\ Known(mid) = Known(gpu) /\ DOMAIN mid.states = DOMAIN gpu.states \ gone
  <2>1. \A k \in 1 .. Len(gpu.queue) : Uses(gpu.queue[k].cmds, DOMAIN gpu.states \ gone)
    BY <1>4
  <2> QED BY <1>3, <2>1, SoundReleased
<1>8. new \in SUBSET Resources
  BY <1>5, ViewNames
<1> HIDE DEF mid, new
<1>9. Kept(mid, gpu') /\ gpu'.lists = mid.lists
  BY <1>1, <1>6, GivenGives
<1>10. Kept(gpu, gpu') /\ Device(gpu')
  BY <1>3, <1>6, <1>9, KeptOnwards, KeptDevice
<1>11. Sound(gpu', Anyhow) /\ Known(gpu') = Known(gpu) /\ DOMAIN gpu'.states = (DOMAIN gpu.states \ gone) \union new
  BY <1>1, <1>6, <1>7, <1>8, SoundGiven
<1>12. gpu'.queue = gpu.queue
  BY <1>10 DEF Kept
<1>13. /\ DOMAIN ed' = EdFields /\ ed'.ents = ed.ents /\ ed'.view = ed.view + 1
       /\ ed'.registered = ed.registered /\ ed'.held = ed.held /\ ed'.preview = ed.preview /\ ed'.pie = ed.pie
  BY <1>1, <1>2 DEF EdTyped, EdFields
<1>14. EdTyped'
  BY <1>2, <1>5, <1>13 DEF EdTyped
<1>15. EdPlays'
  BY <1>1, <1>2, <1>13 DEF EdPlays
<1>16. EdLoads'
  BY <1>1, <1>2, <1>13 DEF EdLoads
<1>17. EdMeshes'
  BY <1>1, <1>2, <1>13 DEF EdMeshes
<1>18. PcOK' /\ Recording(pc') = FALSE
  BY <1>1, <1>2 DEF PcOK, Common, Recording
<1>19. Paced(gpu', FALSE)
  BY <1>3, <1>10, PacedKept
<1>20. Anyhow' = Anyhow /\ Drawable' = Drawable /\ Feed' = Feed /\ HeldPie' = HeldPie
  BY <1>1, <1>11, <1>13 DEF Anyhow, Drawable, Feed, HeldPie
<1>21. Alive'
  <2>1. Screens' = SwapChain("window", 0) \union (new \union Offscreen("preview", 0))
    BY <1>1, <1>2, <1>13 DEF Screens, new
  <2>2. /\ Screens \subseteq DOMAIN gpu.states /\ HeldPie \subseteq DOMAIN gpu.states
        /\ ed.pie.open => SwapChain("pie", ed.pie.n) \subseteq DOMAIN gpu.states
    BY <1>2 DEF Inv, Backed, Alive
  <2>3. SwapChain("window", 0) \subseteq Screens /\ Offscreen("preview", 0) \subseteq Screens
    BY <1>2 DEF Screens
  <2>4. /\ gone \intersect SwapChain("window", 0) = {} /\ gone \intersect Offscreen("preview", 0) = {}
        /\ gone \intersect PieBuffers = {} /\ HeldPie \subseteq PieBuffers
        /\ SwapChain("pie", ed.pie.n) \subseteq PieBuffers
    BY <1>2, <1>5, OwnersApart DEF gone
  <2>5. Screens' \subseteq DOMAIN gpu'.states
    BY <1>11, <2>1, <2>2, <2>3, <2>4
  <2>6. HeldPie \subseteq DOMAIN gpu'.states
    BY <1>11, <2>2, <2>4
  <2>7. ed.pie.open => SwapChain("pie", ed.pie.n) \subseteq DOMAIN gpu'.states
    BY <1>11, <2>2, <2>4
  <2> QED BY <1>13, <1>20, <2>5, <2>6, <2>7 DEF Alive
<1>22. Drawable \subseteq Feed
  BY <1>1 DEF Inv, Backed, Recording
<1>23. Submits'
  BY <1>4, <1>12 DEF Submits
<1>24. Backed'
  BY <1>11, <1>18, <1>20, <1>21, <1>22, <1>23 DEF Backed
<1>25. MeshesOK(mm', handles')
  BY <1>1, MeshesKnown
<1> QED BY <1>1, <1>2, <1>10, <1>14, <1>15, <1>16, <1>17, <1>18, <1>19, <1>24, <1>25, EditorNext

(* Play begins, in a window of its own.  Lists of the play before may still *)
(* wait, but none in the slot of this frame.                               *)
LEMMA SubmitsPlay ==
    ASSUME Inv, pc = "ui", host = "editor", pc' = "render", gpu'.queue = gpu.queue, gpu'.slot = gpu.slot
    PROVE  Submits'
<1>1. Device(gpu) /\ Paced(gpu, TRUE)
  <2>1. Recording(pc) = TRUE
    BY DEF Recording
  <2> QED BY <2>1, DeviceKnown
<1>2. Submits
  BY DEF Inv, Backed
<1> SUFFICES ASSUME NEW k \in 1 .. Len(gpu.queue)
             PROVE  /\ gpu.queue[k].slot \in Slots \/ gpu.queue[k].cmds = << >>
                    /\ \/ Fresh(gpu.queue[k].cmds, ed'.pie.n)
                       \/ gpu.queue[k].slot \in Slots \ {gpu.slot} /\ pc' \notin {"update", "ui"}
  BY DEF Submits
<1>3. gpu.queue[k].slot # gpu.slot
  BY <1>1, PacedEntry
<1>4. gpu.queue[k].slot \in Slots \/ gpu.queue[k].cmds = << >>
  BY <1>2 DEF Submits
<1>5. CASE gpu.queue[k].cmds = << >>
  BY <1>5 DEF Fresh, Uses
<1> QED BY <1>3, <1>4, <1>5

LEMMA PlayMenuKeeps ==
    ASSUME Inv, PlayMenu PROVE Inv'
<1> DEFINE new == SwapChain("pie", ed.pie.n + 1)
<1>1. /\ pc = "ui" /\ pc' = "render" /\ ~ed.pie.open /\ gpu' = Given(gpu, new)
      /\ ed' = [ed EXCEPT !.pie = [NewPie EXCEPT !.open = TRUE, !.n = ed.pie.n + 1, !.snap = ed.ents]]
      /\ UNCHANGED << mm, handles, loads >> /\ EdFrame /\ host' = host
  BY DEF PlayMenu, Gesture, Goes, EdFrame
<1>2. host = "editor" /\ EdTyped /\ EdPlays /\ EdLoads /\ EdMeshes
  BY <1>1, EditorsPc
<1>3. Device(gpu) /\ Paced(gpu, TRUE) /\ Sound(gpu, Anyhow) /\ PcOK
  <2>1. Recording(pc) = TRUE
    BY <1>1 DEF Recording
  <2> QED BY <2>1, DeviceKnown
<1>4. ed.pie.n + 1 \in Nat
  BY <1>2 DEF EdTyped
<1>5. new \in SUBSET Resources
  BY <1>4, ChainNames
<1> HIDE DEF new
<1>6. Kept(gpu, gpu') /\ gpu'.lists = gpu.lists /\ Device(gpu')
  BY <1>1, <1>3, GivenGives, KeptDevice
<1>7. Sound(gpu', Anyhow) /\ Known(gpu') = Known(gpu) /\ DOMAIN gpu'.states = DOMAIN gpu.states \union new
  BY <1>1, <1>3, <1>5, SoundGiven
<1>8. gpu'.slot = gpu.slot /\ gpu'.back = gpu.back /\ gpu'.queue = gpu.queue
  BY <1>6 DEF Kept
<1>9. /\ DOMAIN ed' = EdFields /\ ed'.ents = ed.ents /\ ed'.view = ed.view
      /\ ed'.registered = ed.registered /\ ed'.held = ed.held /\ ed'.preview = ed.preview
      /\ ed'.pie = [NewPie EXCEPT !.open = TRUE, !.n = ed.pie.n + 1, !.snap = ed.ents]
  BY <1>1, <1>2 DEF EdTyped, EdFields
<1>10. /\ DOMAIN ed'.pie = PieFields /\ ed'.pie.n = ed.pie.n + 1 /\ ed'.pie.back = 0 /\ ed'.pie.open = TRUE
       /\ ed'.pie.snap = ed.ents
  BY <1>9 DEF NewPie, PieFields
<1>11. EdTyped'
  <2>1. 0 \in 0 .. BackBuffers - 1 /\ TRUE \in BOOLEAN
    BY DeviceAssumption
  <2> QED BY <1>2, <1>4, <1>9, <1>10, <2>1 DEF EdTyped
<1>12. EdPlays'
  <2>1. 1 \in DOMAIN ed.ents
    BY <1>2, LoopAssumption DEF EdTyped, Showing, Ents
  <2>2. ed.ents # << >>
    BY <2>1
  <2> QED BY <1>1, <1>10, <2>2 DEF EdPlays
<1>13. EdLoads'
  BY <1>1, <1>2, <1>9 DEF EdLoads
<1>14. EdMeshes'
  BY <1>1, <1>2, <1>9 DEF EdMeshes
<1>15. PcOK' /\ Recording(pc') = TRUE
  BY <1>1, <1>2 DEF PcOK, Common, Recording
<1>16. Paced(gpu', TRUE)
  BY <1>3, <1>6, PacedKept
<1>17. /\ Anyhow' = Anyhow /\ Drawable' = Drawable /\ Feed' = Feed /\ Begun' = Begun
       /\ Screens' = Screens /\ HeldPie' \subseteq new /\ Bound' = Screens \union HeldPie'
       /\ Stage' = Stage /\ Bound = Screens
  <2>1. Anyhow' = Anyhow /\ Drawable' = Drawable /\ Feed' = Feed /\ Begun' = Begun /\ Screens' = Screens
    BY <1>1, <1>7, <1>8, <1>9 DEF Anyhow, Drawable, Feed, Begun, Screens
  <2>2. HeldPie' \subseteq new
    BY <1>10 DEF HeldPie, new
  <2>3. Sampled' = Sampled
    BY <1>9, <2>1 DEF Sampled
  <2> QED BY <1>1, <1>2, <2>1, <2>2, <2>3 DEF Stage, Bound
<1>18. Alive'
  <2>1. Screens \subseteq DOMAIN gpu.states
    BY DEF Inv, Backed, Alive
  <2>2. SwapChain("pie", ed'.pie.n) = new
    BY <1>10 DEF new
  <2> QED BY <1>7, <1>17, <2>1, <2>2 DEF Alive
<1>19. Open(gpu', Stage', Bound', Feed', Drawable')
  <2>1. Open(gpu, Stage, Bound, Feed, Drawable)
    BY <1>1 DEF Inv, Backed, Recording
  <2> DEFINE a == Stage
             D == Bound
             E == Bound'
             U == Feed
             K == Drawable
  <2>2. Open(gpu, a, D, U, K) /\ D \subseteq E
    BY <1>17, <2>1
  <2> HIDE DEF a, D, E, U, K
  <2>3. Open(gpu', a, D, U, K)
    BY <1>6, <1>8, <2>2, OpenStays
  <2>4. Open(gpu', a, E, U, K)
    BY <2>2, <2>3, OpenMore
  <2> QED BY <1>17, <2>4 DEF a, D, E, U, K
<1>20. Submits'
  BY <1>1, <1>2, <1>8, SubmitsPlay
<1>21. Backed'
  BY <1>7, <1>15, <1>17, <1>18, <1>19, <1>20 DEF Backed
<1>22. MeshesOK(mm', handles')
  BY <1>1, MeshesKnown
<1> QED BY <1>1, <1>2, <1>6, <1>11, <1>12, <1>13, <1>14, <1>15, <1>16, <1>21, <1>22, EditorNext

(* The mesh preview loads an asset, or finds that it cannot.               *)
LEMMA NotLoadedKeeps ==
    ASSUME Inv, EdFrame, pc = "ui", pc' = "render", NEW p, ed' = [ed EXCEPT !.shown = p, !.preview = 0],
           UNCHANGED << gpu, mm, handles, loads >>
    PROVE  Inv'
<1>1. host = "editor" /\ EdTyped /\ EdPlays /\ EdLoads /\ EdMeshes
  BY EditorsPc
<1>2. /\ DOMAIN ed' = EdFields /\ ed'.ents = ed.ents /\ ed'.view = ed.view
      /\ ed'.registered = ed.registered /\ ed'.held = ed.held /\ ed'.preview = 0 /\ ed'.pie = ed.pie
  BY <1>1 DEF EdTyped, EdFields
<1>3. EdTyped'
  BY <1>1, <1>2 DEF EdTyped
<1>4. EdPlays'
  BY <1>1, <1>2 DEF EdPlays
<1>5. EdLoads'
  BY <1>1, <1>2 DEF EdLoads
<1>6. EdMeshes'
  <2>1. 0 \in 0 .. Len(mm.paths)
    BY <1>1 DEF EdMeshes
  <2> QED BY <1>1, <1>2, <2>1 DEF EdMeshes
<1>7. EdSteady
  BY <1>2 DEF EdSteady
<1>8. PcOK' /\ (Recording(pc') <=> Recording(pc))
  BY <1>1 DEF PcOK, Common, Recording, EdFrame
<1>9. Follows(gpu, gpu', Recording(pc))
  BY DeviceKnown
<1> QED BY <1>1, <1>3, <1>4, <1>5, <1>6, <1>7, <1>8, <1>9, MeshesKnown, EditorKept DEF EdOK

LEMMA LoadedKeeps ==
    ASSUME Inv, EdFrame, pc = "ui", pc' = "render", NEW p \in Paths,
           ed' = [ed EXCEPT !.shown = p, !.preview = Len(mm.paths) + 1], mm' = WithMesh(mm, p),
           gpu' = UploadStatic(gpu, mm), UNCHANGED << handles, loads >>
    PROVE  Inv'
<1>1. host = "editor" /\ EdTyped /\ EdPlays /\ EdLoads /\ EdMeshes /\ mm.list = gpu.slot /\ host' = host
  BY EditorsPc DEF EdMeshes, EdFrame
<1>2. Device(gpu) /\ Paced(gpu, TRUE) /\ Sound(gpu, Anyhow) /\ PcOK
  <2>1. Recording(pc) = TRUE
    BY DEF Recording
  <2> QED BY <2>1, DeviceKnown
<1>3. MeshesOK(mm, handles) /\ mm.list # Frames /\ p \in Named
  BY <1>1, <1>2, MeshesKnown, DeviceAssumption DEF Device, Slots, Named
<1>4. /\ MeshesOK(mm', handles) /\ Len(mm.paths) \in Nat /\ Len(mm'.paths) = Len(mm.paths) + 1
      /\ \A k \in 1 .. Len(mm.paths) : mm'.paths[k] = mm.paths[k]
  BY <1>3, MeshAdded
<1>5. /\ DOMAIN ed' = EdFields /\ ed'.ents = ed.ents /\ ed'.view = ed.view
      /\ ed'.registered = ed.registered /\ ed'.held = ed.held /\ ed'.preview = Len(mm.paths) + 1
      /\ ed'.pie = ed.pie
  BY <1>1 DEF EdTyped, EdFields
<1>6. EdTyped'
  BY <1>1, <1>5 DEF EdTyped
<1>7. EdPlays'
  BY <1>1, <1>5 DEF EdPlays
<1>8. EdLoads'
  BY <1>1, <1>5 DEF EdLoads
<1>9. EdMeshes'
  <2>1. ed'.preview \in 0 .. Len(mm'.paths)
    BY <1>4, <1>5
  <2>2. ASSUME NEW i \in Ents, handles[i] # 0 PROVE mm'.paths[handles[i]] = ed'.registered[i]
    <3>1. handles[i] \in 1 .. Len(mm.paths)
      BY <1>3, <1>4, <2>2 DEF MeshesOK
    <3> QED BY <1>1, <1>4, <1>5, <2>2, <3>1 DEF EdMeshes
  <2> QED BY <2>1, <2>2 DEF EdMeshes
<1>10. PcOK' /\ Recording(pc') = TRUE
  BY <1>1, <1>2 DEF PcOK, Common, Recording
<1>11. Anyhow' = Anyhow /\ Screens' = Screens /\ HeldPie' = HeldPie
  BY <1>1, <1>5 DEF Anyhow, Screens, HeldPie
<1> DEFINE a == Sampled
           D == Bound
           E == Bound'
           U == Feed
           K == 1 .. Len(mm.paths)
           L == 1 .. Len(mm'.paths)
<1>12. Open(gpu, a, D, U, K) /\ D \subseteq E /\ Drawable' = L
  <2>1. Stage = Sampled /\ Drawable = K
    BY <1>1 DEF Stage, Drawable
  <2>2. Bound \subseteq Bound'
    BY <1>1, <1>11 DEF Bound
  <2>3. Open(gpu, Stage, Bound, Feed, Drawable)
    BY DEF Inv, Backed, Recording
  <2> QED BY <1>1, <2>1, <2>2, <2>3 DEF Drawable
<1>13. Depth \in D /\ a[Depth] = "depth"
  <2>1. SwapChain("window", 0) \subseteq Bound
    BY DEF Bound, Screens
  <2>2. Begun \in Maps /\ Begun[Depth] = "depth" /\ Depth \in Bound
    BY <1>2, <2>1, BegunOK
  <2>3. Depth # View(ed.view) /\ Depth # Preview /\ Depth \in Resources
    BY DepthNames, PreviewNames, ViewNames, <1>1 DEF EdTyped
  <2>4. Sampled[Depth] = Begun[Depth]
    <3>1. Colored(Begun, View(ed.view), "sampled") \in Maps
      BY <2>2, ColoredMap DEF States
    <3>2. Colored(Begun, View(ed.view), "sampled")[Depth] = Begun[Depth]
      BY <2>2, <2>3, ColoredMap DEF States
    <3> DEFINE b == Colored(Begun, View(ed.view), "sampled")
    <3> HIDE DEF b
    <3>3. Colored(b, Preview, "sampled")[Depth] = b[Depth]
      BY <2>3, <3>1, ColoredMap DEF States, b
    <3> QED BY <3>2, <3>3 DEF Sampled, b
  <2> QED BY <2>2, <2>4
<1>14. L = K \union {Len(mm.paths) + 1}
  BY <1>4
<1> HIDE DEF a, D, E, U, K, L
<1>15. Opened(gpu, gpu', a, D, U, L)
  BY <1>1, <1>4, <1>12, <1>13, <1>14, OwnCopy
<1>16. Open(gpu', a, D, U, L) /\ Kept(gpu, gpu') /\ gpu'.states = gpu.states
  BY <1>15 DEF Opened
<1>17. Open(gpu', a, E, U, L)
  BY <1>12, <1>16, OpenMore
<1>18. Device(gpu') /\ Sound(gpu', Anyhow) /\ Known(gpu') = Known(gpu) /\ Paced(gpu', TRUE)
  BY <1>2, <1>16, KeptDevice, SoundKept, PacedKept
<1>19. gpu'.slot = gpu.slot /\ gpu'.back = gpu.back /\ gpu'.queue = gpu.queue
  BY <1>16 DEF Kept
<1>20. Stage' = Sampled /\ Feed' = Feed
  <2>1. Begun' = Begun
    BY <1>19 DEF Begun
  <2>2. Sampled' = Sampled
    BY <1>5, <2>1 DEF Sampled
  <2> QED BY <1>11, <1>18, <2>2 DEF Stage, Feed
<1>21. Open(gpu', Stage', Bound', Feed', Drawable')
  BY <1>12, <1>17, <1>20 DEF a, E, U
<1>22. Alive'
  <2>1. Alive
    BY DEF Inv, Backed
  <2> QED BY <1>1, <1>5, <1>11, <1>16, <2>1 DEF Alive
<1>23. Submits'
  BY <1>1, <1>19, SubmitsPlay
<1>24. Backed'
  BY <1>10, <1>11, <1>18, <1>21, <1>22, <1>23 DEF Backed
<1> QED BY <1>1, <1>4, <1>6, <1>7, <1>8, <1>9, <1>10, <1>18, <1>24, EditorNext

LEMMA LoadAssetKeeps ==
    ASSUME Inv, NEW p \in Paths, NEW ok \in BOOLEAN, LoadAsset(p, ok) PROVE Inv'
<1>1. CASE ok
  BY <1>1, LoadedKeeps DEF LoadAsset, Gesture, Goes
<1>2. CASE ~ok
  BY <1>2, NotLoadedKeeps DEF LoadAsset, Gesture, Goes
<1> QED BY <1>1, <1>2

------------------------------------------------------------------------------
(* The editor's frame ends.                                                *)
LEMMA OneMore ==
    ASSUME NEW S, NEW s \in Seq(S), NEW e \in S, NEW t \in Seq(S), Len(t) = Len(s) + 1, t[Len(s) + 1] = e,
           \A k \in 1 .. Len(s) : t[k] = s[k]
    PROVE  s \o << e >> = t
<1> DEFINE a == Append(s, e)
<1>1. /\ a \in Seq(S) /\ Len(a) = Len(s) + 1 /\ Len(s) \in Nat
      /\ \A k \in 1 .. Len(s) : a[k] = s[k]
      /\ a[Len(s) + 1] = e
  BY Appended
<1>2. s \o << e >> = a
  BY AppendIsConcat
<1> HIDE DEF a
<1>3. ASSUME NEW k \in 1 .. Len(a) PROVE a[k] = t[k]
  <2>1. k \in 1 .. Len(s) \/ k = Len(s) + 1
    BY <1>1
  <2> QED BY <1>1, <2>1
<1>4. a = t
  BY <1>1, <1>3, SeqEqual
<1> QED BY <1>2, <1>4

LEMMA ThreeOneOne ==
    ASSUME NEW S, NEW a \in S, NEW b \in S, NEW c \in S, NEW d \in S, NEW e \in S
    PROVE  /\ << a, b, c >> \in Seq(S) /\ << d >> \in Seq(S) /\ << e >> \in Seq(S)
           /\ (<< a, b, c >> \o << d >>) \o << e >> = << a, b, c, d, e >>
           /\ << a, b, c, d, e >> \in Seq(S)
<1> DEFINE s == << a, b, c >>
           t == << a, b, c, d >>
           u == << a, b, c, d, e >>
<1>1. s \in Seq(S) /\ << d >> \in Seq(S) /\ << e >> \in Seq(S) /\ t \in Seq(S) /\ u \in Seq(S)
  OBVIOUS
<1>2. Len(s) = 3 /\ Len(t) = 4 /\ t[4] = d /\ \A k \in 1 .. 3 : t[k] = s[k]
  OBVIOUS
<1>3. Len(u) = 5 /\ u[5] = e /\ \A k \in 1 .. 4 : u[k] = t[k]
  OBVIOUS
<1> HIDE DEF s, t, u
<1>4. Len(t) = Len(s) + 1 /\ t[Len(s) + 1] = d /\ \A k \in 1 .. Len(s) : t[k] = s[k]
  BY <1>2
<1>5. Len(u) = Len(t) + 1 /\ u[Len(t) + 1] = e /\ \A k \in 1 .. Len(t) : u[k] = t[k]
  BY <1>2, <1>3
<1>6. s \o << d >> = t
  BY <1>1, <1>4, OneMore
<1>7. t \o << e >> = u
  BY <1>1, <1>5, OneMore
<1> QED BY <1>1, <1>6, <1>7 DEF s, t, u

Ending(b, v, p) ==
    << Draw(b, 0), SampleOf(v, 0), SampleOf(p, 0), Barrier(v, "sampled", "target"), Barrier(p, "sampled", "target") >>

LEMMA EndingLeads ==
    ASSUME NEW a \in Maps, NEW b \in Resources, NEW v \in Resources, NEW p \in Resources, v # p,
           a[b] = "target", a[v] = "sampled", a[p] = "sampled"
    PROVE  /\ Renders(Ending(b, v, p), {b, v, p}, {0})
           /\ Leads(a, Ending(b, v, p), Colored(Colored(a, v, "target"), p, "target"))
<1> DEFINE c1 == Draw(b, 0)
           c2 == SampleOf(v, 0)
           c3 == SampleOf(p, 0)
           c4 == Barrier(v, "sampled", "target")
           c5 == Barrier(p, "sampled", "target")
           first == << c1, c2, c3 >>
           m == Colored(a, v, "target")
           n == Colored(m, p, "target")
<1>1. /\ c1 \in Commands /\ c1.res = b /\ c1.from = "target" /\ c1.to = "target" /\ c1.copy = FALSE /\ c1.mesh = 0
      /\ c2 \in Commands /\ c2.res = v /\ c2.from = "sampled" /\ c2.to = "sampled" /\ c2.copy = FALSE /\ c2.mesh = 0
      /\ c3 \in Commands /\ c3.res = p /\ c3.from = "sampled" /\ c3.to = "sampled" /\ c3.copy = FALSE /\ c3.mesh = 0
  BY DEF Draw, SampleOf, Commands, States
<1>2. /\ c4 \in Commands /\ c4.res = v /\ c4.from = "sampled" /\ c4.to = "target" /\ c4.copy = FALSE /\ c4.mesh = 0
      /\ c5 \in Commands /\ c5.res = p /\ c5.from = "sampled" /\ c5.to = "target" /\ c5.copy = FALSE /\ c5.mesh = 0
  BY DEF Barrier, Commands, States
<1>3. Ending(b, v, p) = << c1, c2, c3, c4, c5 >>
  BY DEF Ending
<1> HIDE DEF c1, c2, c3, c4, c5
<1>4. /\ first \in Seq(Commands) /\ << c4 >> \in Seq(Commands) /\ << c5 >> \in Seq(Commands)
      /\ (first \o << c4 >>) \o << c5 >> = << c1, c2, c3, c4, c5 >>
      /\ << c1, c2, c3, c4, c5 >> \in Seq(Commands)
  BY <1>1, <1>2, ThreeOneOne
<1>5. Leads(a, first, a)
  <2>1. Idles(a, first)
    BY <1>1 DEF Idles
  <2> QED BY <1>4, <2>1, LeadsNowhere
<1>6. m \in Maps /\ Leads(a, << c4 >>, m) /\ m[p] = "sampled"
  <2>1. Puts(a, c4) = m
    BY <1>2 DEF Puts, Colored
  <2>2. Puts(a, c4) \in Maps /\ Leads(a, << c4 >>, Puts(a, c4))
    BY <1>2, LeadsOne
  <2>3. m[p] = a[p]
    BY DEF Colored, Maps
  <2> QED BY <2>1, <2>2, <2>3
<1> HIDE DEF m
<1>7. Leads(m, << c5 >>, n)
  <2>1. Puts(m, c5) = n
    BY <1>2 DEF Puts, Colored
  <2> QED BY <1>2, <1>6, <2>1, LeadsOne
<1> HIDE DEF n, first
<1>8. (first \o << c4 >>) \in Seq(Commands) /\ Leads(a, first \o << c4 >>, m)
  BY <1>4, <1>5, <1>6, LeadsOn
<1>9. Leads(a, (first \o << c4 >>) \o << c5 >>, n)
  BY <1>4, <1>7, <1>8, LeadsOn
<1>10. Renders(<< c1, c2, c3, c4, c5 >>, {b, v, p}, {0})
  BY <1>1, <1>2, <1>4 DEF Renders
<1> QED BY <1>3, <1>4, <1>9, <1>10 DEF n, m

LEMMA EndingOpen ==
    ASSUME Device(gpu), ed.view \in Nat, NEW D, NEW U, NEW K, Open(gpu, Sampled, D, U, K),
           SwapChain("window", 0) \subseteq D, View(ed.view) \in D, Preview \in D
    PROVE  Opened(gpu, Record(gpu, gpu.slot, Ending(BackBuffer(gpu.back), View(ed.view), Preview)), Begun, D, U, K)
<1> DEFINE b == BackBuffer(gpu.back)
           v == View(ed.view)
           q == Ending(b, v, Preview)
           m == Colored(Begun, v, "sampled")
           n == Colored(Sampled, v, "target")
<1>1. b \in D /\ b \in Resources /\ b[1] = "window" /\ Begun \in Maps /\ Begun[b] = "target"
      /\ \A r \in Resources : r # b => Begun[r] = r[4]
  BY BegunOK, BackBufferOK, DepthNames DEF Device
<1>2. v \in Resources /\ v[1] = "view" /\ v[4] = "target" /\ Preview \in Resources /\ Preview[1] = "preview" /\ Preview[4] = "target"
  BY ViewNames, PreviewNames
<1>3. v # b /\ v # Preview /\ Preview # b
  BY <1>1, <1>2
<1>4. Begun[v] = "target" /\ Begun[Preview] = "target"
  BY <1>1, <1>2, <1>3
<1> HIDE DEF b, v
<1>5. m \in Maps /\ m[v] = "sampled" /\ \A r \in Resources : r # v => m[r] = Begun[r]
  BY <1>1, <1>2, ColoredMap DEF States
<1>6. Sampled = Colored(m, Preview, "sampled")
  BY DEF Sampled, v
<1> HIDE DEF m
<1>7. Sampled \in Maps /\ Sampled[Preview] = "sampled" /\ \A r \in Resources : r # Preview => Sampled[r] = m[r]
  BY <1>2, <1>5, <1>6 DEF Colored, Maps, States
<1>8. Sampled[b] = "target" /\ Sampled[v] = "sampled"
  BY <1>1, <1>2, <1>3, <1>5, <1>7
<1>9. n \in Maps /\ n[v] = "target" /\ \A r \in Resources : r # v => n[r] = Sampled[r]
  BY <1>2, <1>7, ColoredMap DEF States
<1> HIDE DEF n
<1>10. Colored(n, Preview, "target") = Begun
  <2> DEFINE z == Colored(n, Preview, "target")
  <2>1. z \in Maps /\ z[Preview] = "target" /\ \A r \in Resources : r # Preview => z[r] = n[r]
    BY <1>2, <1>9, ColoredMap DEF States
  <2> HIDE DEF z
  <2>2. \A r \in Resources : z[r] = Begun[r]
    BY <1>2, <1>3, <1>4, <1>5, <1>7, <1>9, <2>1
  <2>3. z = Begun
    BY <1>1, <2>1, <2>2 DEF Maps
  <2> QED BY <2>3 DEF z
<1>11. Renders(q, {b, v, Preview}, {0}) /\ Leads(Sampled, q, Begun)
  <2>1. Renders(q, {b, v, Preview}, {0}) /\ Leads(Sampled, q, Colored(n, Preview, "target"))
    BY <1>1, <1>2, <1>3, <1>7, <1>8, EndingLeads DEF n
  <2> QED BY <1>10, <2>1
<1> HIDE DEF q
<1>12. Renders(q, D, K \union {0})
  BY <1>1, <1>11 DEF Renders, v
<1> DEFINE a == Sampled
           e == Begun
<1>13. Open(gpu, a, D, U, K) /\ e \in Maps /\ Leads(a, q, e)
  BY <1>1, <1>11
<1> HIDE DEF a, e
<1>14. LET h == Record(gpu, gpu.slot, q)
       IN  Open(h, e, D, U, K) /\ Kept(gpu, h) /\ h.states = gpu.states /\ h.held = gpu.held
  BY <1>12, <1>13, RecordOpen
<1> QED BY <1>14 DEF Opened, e, q, b, v

(* The list of the frame joins the queue: it uses no play window but this one. *)
LEMMA SubmitsEnd ==
    ASSUME Inv, host = "editor", pc = "render", pc' = "poll", ed'.pie.n = ed.pie.n, EdTyped,
           gpu'.slot = gpu.slot, gpu.slot \in Slots, gpu.queue \in Seq(Entries),
           NEW e \in Entries, gpu'.queue = Append(gpu.queue, e), e.slot = gpu.slot, Uses(e.cmds, Bound)
    PROVE  Submits'
<1>1. /\ Len(gpu'.queue) = Len(gpu.queue) + 1 /\ Len(gpu.queue) \in Nat
      /\ \A k \in 1 .. Len(gpu.queue) : gpu'.queue[k] = gpu.queue[k]
      /\ gpu'.queue[Len(gpu.queue) + 1] = e
  BY Appended
<1>2. Fresh(e.cmds, ed.pie.n)
  <2>1. Bound \subseteq (Resources \ PieBuffers) \union SwapChain("pie", ed.pie.n)
    <3>1. Screens \subseteq Resources \ PieBuffers
      BY OwnersApart
    <3>2. HeldPie \subseteq SwapChain("pie", ed.pie.n)
      BY DEF HeldPie
    <3> QED BY <3>1, <3>2 DEF Bound
  <2> QED BY <2>1, UsesMore DEF Fresh
<1>3. Submits
  BY DEF Inv, Backed
<1> SUFFICES ASSUME NEW k \in 1 .. Len(gpu.queue) + 1
             PROVE  /\ gpu'.queue[k].slot \in Slots \/ gpu'.queue[k].cmds = << >>
                    /\ \/ Fresh(gpu'.queue[k].cmds, ed.pie.n)
                       \/ gpu'.queue[k].slot \in Slots \ {gpu.slot} /\ pc' \notin {"update", "ui"}
  BY <1>1 DEF Submits
<1>4. CASE k = Len(gpu.queue) + 1
  BY <1>1, <1>2, <1>4
<1>5. CASE k \in 1 .. Len(gpu.queue)
  BY <1>1, <1>3, <1>5 DEF Submits
<1> QED BY <1>1, <1>4, <1>5

LEMMA RenderKeeps ==
    ASSUME Inv, Render PROVE Inv'
<1> DEFINE q == Ending(BackBuffer(gpu.back), View(ed.view), Preview)
           x == Record(gpu, gpu.slot, q)
           D == Bound
           K == Drawable
<1>1. /\ pc = "render" /\ pc' = "poll" /\ gpu' = EndFrame(x)
      /\ ed' = IF Playing THEN [ed EXCEPT !.pie.back = (@ + 1) % Back] ELSE ed
      /\ UNCHANGED << mm, handles, loads >> /\ EdFrame /\ host' = host
  BY DEF Render, Goes, EdFrame, Ending
<1>2. host = "editor" /\ EdTyped /\ EdPlays /\ EdLoads /\ EdMeshes
  BY <1>1, EditorsPc
<1>3. Device(gpu) /\ Paced(gpu, TRUE) /\ Sound(gpu, Anyhow) /\ PcOK
  <2>1. Recording(pc) = TRUE
    BY <1>1 DEF Recording
  <2> QED BY <2>1, DeviceKnown
<1>4. /\ SwapChain("window", 0) \subseteq D /\ D \subseteq DOMAIN gpu.states
      /\ View(ed.view) \in D /\ Preview \in D /\ ed.view \in Nat
  <2>1. Bound = Screens \union HeldPie
    BY <1>1, <1>2 DEF Bound
  <2>2. Screens \subseteq DOMAIN gpu.states /\ HeldPie \subseteq DOMAIN gpu.states
    BY <1>2 DEF Inv, Backed, Alive
  <2>3. View(ed.view) \in Screens /\ Preview \in Screens /\ ed.view \in Nat
    BY <1>2, ViewNames, PreviewNames DEF Screens, EdTyped
  <2>4. SwapChain("window", 0) \subseteq Screens
    BY DEF Screens
  <2> QED BY <2>1, <2>2, <2>3, <2>4
<1>5. K \in SUBSET Nat
  BY <1>2, MeshesKnown, LenProperties DEF Drawable, MeshesOK
<1>6. Opened(gpu, x, Begun, D, Feed, K)
  <2>1. Stage = Sampled
    BY <1>1 DEF Stage
  <2>2. Open(gpu, Stage, Bound, Feed, Drawable)
    BY <1>1 DEF Inv, Backed, Recording
  <2> DEFINE U == Feed
  <2>3. Open(gpu, Sampled, D, U, K)
    BY <2>1, <2>2
  <2> HIDE DEF U, D, K
  <2> QED BY <1>3, <1>4, <2>3, EndingOpen DEF U
<1> HIDE DEF x, D, K
<1>7. Ended(gpu, gpu', D, K)
  BY <1>1, <1>3, <1>4, <1>5, <1>6, FrameEnds
<1>8. /\ Device(gpu') /\ Paced(gpu', FALSE) /\ Sound(gpu', Anyhow) /\ gpu'.states = gpu.states
      /\ gpu'.slot = gpu.slot /\ K \subseteq Avail(Anyhow, Known(gpu'))
      /\ \E e \in Entries : gpu'.queue = Append(gpu.queue, e) /\ e.slot = gpu.slot /\ Uses(e.cmds, D)
  BY <1>7 DEF Ended
<1>9. /\ DOMAIN ed' = EdFields /\ ed'.ents = ed.ents /\ ed'.view = ed.view
      /\ ed'.registered = ed.registered /\ ed'.held = ed.held /\ ed'.preview = ed.preview
      /\ ed'.pie = ed.pie \/ ed'.pie = [ed.pie EXCEPT !.back = (@ + 1) % Back]
  BY <1>1, <1>2 DEF EdTyped, EdFields
<1>10. /\ DOMAIN ed'.pie = PieFields /\ ed'.pie.n = ed.pie.n /\ ed'.pie.open = ed.pie.open
       /\ ed'.pie.snap = ed.pie.snap /\ ed'.pie.back \in 0 .. BackBuffers - 1
  <2>1. (ed.pie.back + 1) % Back \in 0 .. BackBuffers - 1
    BY <1>2, DeviceAssumption DEF EdTyped, Back
  <2> QED BY <1>2, <1>9, <2>1 DEF EdTyped, PieFields
<1>11. EdTyped'
  BY <1>2, <1>9, <1>10 DEF EdTyped
<1>12. EdPlays'
  BY <1>1, <1>2, <1>10 DEF EdPlays
<1>13. EdLoads'
  BY <1>1, <1>2, <1>9, <1>10 DEF EdLoads
<1>14. EdMeshes'
  BY <1>1, <1>2, <1>9 DEF EdMeshes
<1>15. PcOK' /\ Recording(pc') = FALSE
  BY <1>1, <1>2 DEF PcOK, Common, Recording
<1>16. Anyhow' = Anyhow /\ Screens' = Screens /\ HeldPie' = HeldPie /\ Drawable' = Drawable
  BY <1>1, <1>9, <1>10 DEF Anyhow, Screens, HeldPie, Drawable
<1>17. Alive'
  <2>1. Alive
    BY DEF Inv, Backed
  <2> QED BY <1>1, <1>8, <1>10, <1>16, <2>1 DEF Alive
<1>18. Drawable' \subseteq Feed'
  BY <1>8, <1>16 DEF Feed, K
<1>19. Submits'
  BY <1>1, <1>2, <1>3, <1>8, <1>10, SubmitsEnd DEF D, Device
<1>20. Backed'
  BY <1>8, <1>15, <1>16, <1>17, <1>18, <1>19 DEF Backed
<1>21. MeshesOK(mm', handles')
  BY <1>1, MeshesKnown
<1> QED BY <1>1, <1>2, <1>8, <1>11, <1>12, <1>13, <1>14, <1>15, <1>20, <1>21, EditorNext

(* The renders: what the play's frame graph imports is what it then holds. *)
HeldNow(cam) == IF cam THEN Imported(Pie(ed.pie.n, ed.pie.back)) ELSE ed.held

LEMMA HeldNowOK ==
    ASSUME EdTyped, NEW cam \in BOOLEAN
    PROVE  /\ HeldNow(cam) \subseteq PieBuffers
           /\ cam => HeldNow(cam) \subseteq SwapChain("pie", ed.pie.n)
           /\ Screens \intersect PieGone = {} /\ SwapChain("pie", ed.pie.n) \intersect PieGone = {}
<1>1. ed.pie.n \in Nat /\ ed.pie.back \in 0 .. BackBuffers - 1 /\ ed.held \subseteq PieBuffers
  BY DEF EdTyped
<1>2. Imported(Pie(ed.pie.n, ed.pie.back)) \subseteq SwapChain("pie", ed.pie.n)
  BY <1>1, PieNames DEF Imported
<1>3. SwapChain("pie", ed.pie.n) \subseteq PieBuffers /\ Screens \intersect PieBuffers = {}
  BY OwnersApart
<1> QED BY <1>1, <1>2, <1>3 DEF HeldNow, PieGone

LEMMA RendersBacked ==
    ASSUME Inv, host = "editor", EdTyped, pc = "update", pc' = "ui", NEW cam \in BOOLEAN, cam => ed.pie.open, NEW d,
           Updated3(d, gpu', cam) /\ d.mm = mm', host' = host,
           ed'.view = ed.view /\ ed'.pie = ed.pie /\ ed'.held = HeldNow(cam)
    PROVE  Backed'
<1>1. /\ Kept(gpu, gpu') /\ Open(gpu', Sampled, Frame(cam), Feed, 1 .. Len(mm'.paths))
      /\ Sound(gpu', Anyhow) /\ Known(gpu') = Known(gpu)
      /\ DOMAIN gpu'.states = DOMAIN gpu.states \ (IF cam THEN PieGone ELSE {})
  BY DEF Updated3
<1>2. gpu'.slot = gpu.slot /\ gpu'.back = gpu.back /\ gpu'.queue = gpu.queue
  BY <1>1 DEF Kept
<1>3. /\ cam => HeldNow(cam) \subseteq SwapChain("pie", ed.pie.n)
      /\ Screens \intersect PieGone = {} /\ SwapChain("pie", ed.pie.n) \intersect PieGone = {}
  BY HeldNowOK
<1>4. HeldPie' = HeldNow(cam) \intersect SwapChain("pie", ed.pie.n)
  BY DEF HeldPie
<1>5. Anyhow' = Anyhow /\ Screens' = Screens /\ Begun' = Begun /\ Feed' = Feed /\ Drawable' = 1 .. Len(mm'.paths)
  BY <1>1, <1>2 DEF Anyhow, Screens, Begun, Feed, Drawable
<1>6. Stage' = Sampled
  <2>1. Sampled' = Sampled
    BY <1>5 DEF Sampled
  <2> QED BY <2>1 DEF Stage
<1>7. Frame(cam) \subseteq Bound'
  <2>1. CASE cam
    <3>1. Bound' = Screens \union HeldPie'
      BY <1>5, <2>1 DEF Bound
    <3> QED BY <1>3, <1>4, <2>1, <3>1 DEF Frame, HeldNow
  <2>2. CASE ~cam
    BY <1>5, <2>2 DEF Frame, Bound
  <2> QED BY <2>1, <2>2
<1>8. Open(gpu', Stage', Bound', Feed', Drawable')
  <2> DEFINE a == Sampled
             D == Frame(cam)
             E == Bound'
             U == Feed
             K == 1 .. Len(mm'.paths)
  <2>1. Open(gpu', a, D, U, K) /\ D \subseteq E
    BY <1>1, <1>7
  <2> HIDE DEF a, D, E, U, K
  <2>2. Open(gpu', a, E, U, K)
    BY <2>1, OpenMore
  <2> QED BY <1>5, <1>6, <2>2 DEF a, E, U, K
<1>9. Alive'
  <2>1. /\ Screens \subseteq DOMAIN gpu.states /\ HeldPie \subseteq DOMAIN gpu.states
        /\ ed.pie.open => SwapChain("pie", ed.pie.n) \subseteq DOMAIN gpu.states
    BY DEF Inv, Backed, Alive
  <2>2. Screens \subseteq DOMAIN gpu'.states
    BY <1>1, <1>3, <2>1
  <2>3. ed.pie.open => SwapChain("pie", ed.pie.n) \subseteq DOMAIN gpu'.states
    BY <1>1, <1>3, <2>1
  <2>4. HeldPie' \subseteq DOMAIN gpu'.states
    <3>1. CASE cam
      BY <1>4, <2>3, <3>1
    <3>2. CASE ~cam
      <4>1. HeldPie' = HeldPie
        BY <1>4, <3>2 DEF HeldNow, HeldPie
      <4> QED BY <1>1, <2>1, <3>2, <4>1
    <3> QED BY <3>1, <3>2
  <2> QED BY <1>5, <2>2, <2>3, <2>4 DEF Alive
<1>10. Submits'
  BY <1>2 DEF Inv, Backed, Submits
<1>11. Recording(pc') = TRUE
  BY DEF Recording
<1> QED BY <1>1, <1>5, <1>8, <1>9, <1>10, <1>11 DEF Backed

LEMMA EditorUpdateKeeps ==
    ASSUME Inv, NEW good \in SUBSET Paths, NEW cam \in BOOLEAN, EditorUpdate(good, cam) PROVE Inv'
<1> DEFINE d == Drain(Scanned, SyncCommandList(gpu, mm), good)
           v == RenderView(d.gpu, d.handles)
           z == RenderPreview(IF cam THEN RenderPie(v, d.handles) ELSE v)
<1>1. /\ pc = "update" /\ host = "editor" /\ pc' = "ui" /\ EdFrame /\ host' = host
      /\ cam => Playing
      /\ mm' = d.mm /\ handles' = d.handles /\ loads' = << >> /\ gpu' = z
      /\ ed' = [ed EXCEPT !.registered = d.registered,
                          !.held = IF cam THEN Imported(Pie(ed.pie.n, ed.pie.back)) ELSE @]
  BY DEF EditorUpdate, Goes, EdFrame
<1>2. EdTyped /\ EdPlays
  BY <1>1 DEF Inv, Core, EdOK
<1>3. Updated3(d, z, cam)
  BY <1>1, EditorUpdates
<1> HIDE DEF d, z
<1>4. Updated3(d, gpu', cam)
  BY <1>1, <1>3
<1>5. /\ MeshesOK(mm', handles') /\ mm'.list = gpu.slot /\ d.registered \in Showing
      /\ Registry(mm', handles', d.registered) /\ ed.preview \in 0 .. Len(mm'.paths)
      /\ Kept(gpu, gpu')
  BY <1>1, <1>4 DEF Updated3
<1>6. /\ DOMAIN ed' = EdFields /\ ed'.ents = ed.ents /\ ed'.view = ed.view
      /\ ed'.registered = d.registered /\ ed'.held = HeldNow(cam) /\ ed'.preview = ed.preview /\ ed'.pie = ed.pie
  BY <1>1, <1>2 DEF EdTyped, EdFields, HeldNow
<1>7. EdTyped'
  BY <1>2, <1>5, <1>6, HeldNowOK DEF EdTyped
<1>8. EdPlays'
  BY <1>1, <1>2, <1>6 DEF EdPlays
<1>9. EdLoads'
  <2>1. << >> \in Seq([i : Ents, path : Paths]) /\ Len(<< >>) = 0
    OBVIOUS
  <2> QED BY <1>1, <2>1 DEF EdLoads
<1>10. EdMeshes'
  <2>1. gpu'.slot = gpu.slot
    BY <1>5 DEF Kept
  <2>2. \A i \in Ents : handles'[i] # 0 => mm'.paths[handles'[i]] = ed'.registered[i] /\ ed'.registered[i] = ed'.ents[i]
    BY <1>5, <1>6 DEF Registry
  <2> QED BY <1>5, <1>6, <2>1, <2>2 DEF EdMeshes
<1>11. PcOK' /\ Recording(pc') = TRUE
  BY <1>1 DEF PcOK, Common, Recording
<1>12. Device(gpu') /\ Paced(gpu', TRUE)
  <2>1. Recording(pc) = TRUE
    BY <1>1 DEF Recording
  <2>2. Device(gpu) /\ Paced(gpu, TRUE)
    BY <2>1, DeviceKnown
  <2> QED BY <1>5, <2>2, KeptDevice, PacedKept
<1>13. Backed'
  <2>1. cam => ed.pie.open
    BY <1>1 DEF Playing
  <2>2. Updated3(d, gpu', cam) /\ d.mm = mm'
    BY <1>1, <1>4
  <2>3. ed'.view = ed.view /\ ed'.pie = ed.pie /\ ed'.held = HeldNow(cam)
    BY <1>6
  <2> QED BY <1>1, <1>2, <2>1, <2>2, <2>3, RendersBacked
<1> QED BY <1>1, <1>5, <1>7, <1>8, <1>9, <1>10, <1>11, <1>12, <1>13, EditorNext

------------------------------------------------------------------------------
(* The beginning.                                                          *)
LEMMA CreatedSound ==
    ASSUME NEW any
    PROVE  /\ Device(Created(1)) /\ Paced(Created(1), FALSE) /\ Sound(Created(1), any)
           /\ DOMAIN Created(1).states = SwapChain("window", 0) /\ Len(Created(1).queue) = 0
<1> DEFINE g == Created(1)
<1>1. /\ Device(g) /\ g.counter = 0 /\ g.done = 0 /\ g.queue = << >> /\ g.fences = [s \in Slots |-> 0]
      /\ \A s \in Slots : ~g.lists[s].open
      /\ g.states = AtRest(SwapChain("window", 0)) /\ g.uploaded = {} /\ g.faults = {}
  BY CreatedGives
<1> HIDE DEF g
<1>2. Len(g.queue) = 0 /\ DOMAIN g.states = SwapChain("window", 0)
  BY <1>1 DEF AtRest
<1>3. Paced(g, FALSE)
  BY <1>1, <1>2 DEF Paced, Signals, Fenced, Recorded
<1>4. Sound(g, any)
  <2>1. Resting(g)
    BY <1>1, <1>2, ChainNames DEF Resting
  <2>2. Faultless(g, any)
    BY <1>1 DEF Faultless
  <2>3. QueueOK(g, any)
    BY <1>2 DEF QueueOK
  <2> QED BY <2>1, <2>2, <2>3 DEF Sound
<1> QED BY <1>1, <1>2, <1>3, <1>4 DEF g

LEMMA FirstMeshes ==
    ASSUME InitCommon
    PROVE  MeshesOK(mm, handles) /\ lines \in 0 .. MaxLines /\ Len(mm.paths) = 0 /\ mm = NoMeshManager /\ handles = NoHandles
<1>1. mm = NoMeshManager /\ handles = NoHandles /\ lines = 0
  BY DEF InitCommon
<1>2. DOMAIN mm = {"list", "paths"} /\ mm.list = Frames /\ mm.paths = << >>
  BY <1>1 DEF NoMeshManager
<1>3. Frames \in 0 .. Frames /\ 0 \in 0 .. MaxLines
  BY DeviceAssumption, LoopAssumption
<1>4. << >> \in Seq(Named) /\ Len(mm.paths) = 0
  BY <1>2
<1>5. handles \in [Ents -> 0 .. Len(mm.paths)]
  BY <1>1, <1>4 DEF NoHandles
<1> QED BY <1>1, <1>2, <1>3, <1>4, <1>5 DEF MeshesOK

LEMMA PlainInit ==
    ASSUME InitCommon, InitGame \/ InitDemo PROVE Inv
<1>1. /\ host = (IF pc = "poll" THEN "game" ELSE "demo") /\ pc \in {"poll", "begin"} /\ host \in {"game", "demo"}
      /\ gpu = Created(1)
  BY DEF InitGame, InitDemo
<1>2. PcOK /\ Recording(pc) = FALSE
  BY <1>1 DEF PcOK, Common, Recording
<1>3. /\ Device(gpu) /\ Paced(gpu, FALSE) /\ Sound(gpu, Anyhow)
      /\ DOMAIN gpu.states = SwapChain("window", 0)
  BY <1>1, CreatedSound
<1>4. MeshesOK(mm, handles) /\ lines \in 0 .. MaxLines /\ Len(mm.paths) = 0 /\ mm = NoMeshManager
  BY FirstMeshes
<1>5. ASSUME host = "game" PROVE GameOK
  <2>1. PICK cam \in BOOLEAN, alive \in SUBSET Ents :
             scenes = << StartScene(cam, alive) >> /\ loads = Asked(StartScene(cam, alive))
    BY <1>1, <1>5 DEF InitGame, InitDemo
  <2> DEFINE s == StartScene(cam, alive)
  <2>2. s \in Scenes /\ s.name = "start" /\ s.wired = TRUE
    <3> DEFINE e == [i \in Ents |-> [alive |-> i \in alive, life |-> 0]]
               n == NewScene("start")
               f == n.ents
    <3>1. e \in Entities
      BY DEF Entities
    <3>2. s = [n EXCEPT !.wired = TRUE, !.active = TRUE, !.camera = cam, !.ents = e]
      BY DEF StartScene
    <3>3. n = [name |-> "start", wired |-> FALSE, active |-> FALSE, camera |-> FALSE, ents |-> f]
      BY DEF NewScene
    <3> HIDE DEF e, n, f, s
    <3>4. s = [name |-> "start", wired |-> TRUE, active |-> TRUE, camera |-> cam, ents |-> e]
      BY <3>2, <3>3
    <3> QED BY <3>1, <3>4 DEF Scenes
  <2>3. loads \in Seq(Ents)
    BY <2>1, AskedGives
  <2> HIDE DEF s
  <2>4. scenes \in Seq(Scenes) /\ Len(scenes) = 1 /\ scenes[1] = s
    BY <2>1, <2>2 DEF s
  <2> QED BY <2>2, <2>3, <2>4 DEF GameOK, Wired
<1>6. DemoOK
  BY <1>4 DEF DemoOK
<1>7. Alive
  BY <1>1, <1>3 DEF Alive, Screens
<1>8. Drawable \subseteq Feed
  BY <1>1, <1>4 DEF Drawable, Feed, Avail, Anyhow
<1>9. host # "editor"
  BY <1>1
<1> QED BY <1>2, <1>3, <1>4, <1>5, <1>6, <1>7, <1>8, <1>9 DEF Inv, Core, Backed

LEMMA EditorInit ==
    ASSUME InitCommon, InitEditor PROVE Inv
<1> DEFINE new == Offscreen("view", 0) \union Offscreen("preview", 0)
           c == Created(1)
<1>1. /\ host = "editor" /\ pc = "poll" /\ loads = << >> /\ gpu = Given(c, new)
      /\ ed = [ents |-> NoMeshes, registered |-> NoMeshes, held |-> {},
               view |-> 0, viewSize |-> 1, panel |-> 1, pie |-> NewPie,
               shown |-> None, preview |-> 0]
  BY DEF InitEditor
<1>2. PcOK /\ Recording(pc) = FALSE
  BY <1>1 DEF PcOK, Common, Recording
<1>3. /\ Device(c) /\ Paced(c, FALSE) /\ Sound(c, Anyhow)
      /\ DOMAIN c.states = SwapChain("window", 0) /\ Len(c.queue) = 0
  BY CreatedSound
<1>4. new \in SUBSET Resources
  BY ViewNames, PreviewNames
<1> HIDE DEF c, new
<1>5. /\ Device(gpu) /\ Paced(gpu, FALSE) /\ Len(gpu.queue) = 0
  <2>1. Kept(c, gpu)
    BY <1>1, <1>3, GivenGives
  <2>2. gpu.queue = c.queue
    BY <2>1 DEF Kept
  <2> QED BY <1>3, <2>1, <2>2, KeptDevice, PacedKept
<1>6. Sound(gpu, Anyhow) /\ DOMAIN gpu.states = SwapChain("window", 0) \union new
  BY <1>1, <1>3, <1>4, SoundGiven
<1>7. MeshesOK(mm, handles) /\ lines \in 0 .. MaxLines /\ Len(mm.paths) = 0 /\ handles = NoHandles
  BY FirstMeshes
<1>8. /\ DOMAIN ed = EdFields /\ ed.ents = NoMeshes /\ ed.registered = NoMeshes /\ ed.held = {} /\ ed.view = 0
      /\ ed.preview = 0 /\ ed.pie = NewPie
  BY <1>1 DEF EdFields
<1>9. DOMAIN NewPie = PieFields /\ NewPie.open = FALSE /\ NewPie.n = 0 /\ NewPie.back = 0 /\ NewPie.snap = << >>
  BY DEF NewPie, PieFields
<1>10. EdTyped
  <2>1. 0 \in 0 .. BackBuffers - 1 /\ FALSE \in BOOLEAN
    BY DeviceAssumption
  <2>2. NoMeshes \in Showing
    BY DEF NoMeshes, Showing
  <2>3. /\ DOMAIN ed.pie = PieFields /\ ed.pie.n \in Nat /\ ed.pie.back \in 0 .. BackBuffers - 1
        /\ ed.pie.open \in BOOLEAN /\ ed.pie.snap \in Showing \union {<< >>}
    <3>1. DOMAIN ed.pie = PieFields /\ ed.pie.n = 0 /\ ed.pie.back = 0 /\ ed.pie.open = FALSE /\ ed.pie.snap = << >>
      BY <1>8, <1>9
    <3>2. 0 \in Nat /\ << >> \in Showing \union {<< >>}
      OBVIOUS
    <3> QED BY <2>1, <3>1, <3>2
  <2> QED BY <1>8, <2>2, <2>3 DEF EdTyped
<1>11. EdPlays
  BY <1>1, <1>8, <1>9 DEF EdPlays
<1>12. EdLoads
  <2>1. << >> \in Seq([i : Ents, path : Paths]) /\ Len(<< >>) = 0
    OBVIOUS
  <2> QED BY <1>1, <2>1 DEF EdLoads
<1>13. EdMeshes
  <2>1. \A i \in Ents : handles[i] = 0
    BY <1>7 DEF NoHandles
  <2> QED BY <1>1, <1>7, <1>8, <2>1 DEF EdMeshes
<1>14. Alive
  <2>1. Screens = SwapChain("window", 0) \union new
    BY <1>1, <1>8 DEF Screens, new
  <2> QED BY <1>6, <1>8, <1>9, <2>1 DEF Alive, HeldPie
<1>15. Drawable \subseteq Feed
  BY <1>1, <1>7 DEF Drawable
<1>16. Submits
  BY <1>5 DEF Submits
<1> QED BY <1>1, <1>2, <1>5, <1>6, <1>7, <1>10, <1>11, <1>12, <1>13, <1>14, <1>15, <1>16 DEF Inv, Core, Backed, EdOK

LEMMA InitInv ==
    ASSUME Init PROVE Inv
BY PlainInit, EditorInit DEF Init

------------------------------------------------------------------------------
(* Every step.                                                             *)
LEMMA StutterKeeps ==
    ASSUME Inv, UNCHANGED vars PROVE Inv'
<1>1. UNCHANGED world /\ host' = host /\ pc' = pc /\ gpu' = gpu
  BY DEF vars, world
<1>2. PcOK' /\ (Recording(pc') <=> Recording(pc))
  BY <1>1, DeviceKnown DEF PcOK
<1>3. host = "editor" => EdCalm
  BY <1>1 DEF EdCalm, EdSteady, world
<1> QED BY <1>1, <1>2, <1>3, DeviceKnown, WorldKept

LEMMA LoopStep ==
    ASSUME Inv, Loop PROVE Inv'
BY LoopKeeps, DrainedKeeps, SlotFreeKeeps DEF Loop

LEMMA GameStep ==
    ASSUME Inv, Game PROVE Inv'
<1>1. ASSUME NEW dt \in Elapsed, NEW ok \in SUBSET Ents, Update(dt, ok) PROVE Inv'
  BY <1>1, UpdateKeeps
<1>2. CASE Tick \/ HookDone \/ DrawGame \/ PushLine
  BY <1>2, TickKeeps, LoopKeeps, DrawGameKeeps, PushLineKeeps
<1>3. ASSUME NEW n \in {"start", "other"}, LoadScene(n) \/ UnloadScene(n) \/ ActivateScene(n) \/ DeactivateScene(n) \/ SpawnCamera(n)
      PROVE Inv'
  BY <1>3, LoadSceneKeeps, UnloadSceneKeeps, ActivateSceneKeeps, DeactivateSceneKeeps, SpawnCameraKeeps
<1>4. ASSUME NEW n \in {"start", "other"}, NEW i \in Ents, NEW life \in {0, 1}, SpawnEntity(n, i, life) PROVE Inv'
  BY <1>4, SpawnEntityKeeps
<1> QED BY <1>1, <1>2, <1>3, <1>4 DEF Game

LEMMA DemoStep ==
    ASSUME Inv, Demo PROVE Inv'
BY DemoUploadKeeps, LoopKeeps, DemoFrameKeeps DEF Demo

LEMMA EditorStep ==
    ASSUME Inv, Editor PROVE Inv'
<1>1. CASE PieClosed \/ DestroyPie \/ PieTick \/ ResizeView \/ CreateViewportRt
  BY <1>1, PieClosedKeeps, DestroyPieKeeps, PieTickKeeps, CalmKeeps, CreateViewportRtKeeps
<1>2. CASE DragPanel \/ PlayMenu \/ StopMenu \/ ClosePieWindow \/ NoGesture \/ Render
  BY <1>2, DragPanelKeeps, PlayMenuKeeps, StopMenuKeeps, ClosePieWindowKeeps, CalmKeeps, RenderKeeps
<1>3. ASSUME NEW good \in SUBSET Paths, NEW cam \in BOOLEAN, EditorUpdate(good, cam) PROVE Inv'
  BY <1>3, EditorUpdateKeeps
<1>4. ASSUME NEW i \in Ents, NEW p \in Paths \union {None}, SetPath(i, p) PROVE Inv'
  BY <1>4, SetPathKeeps
<1>5. ASSUME NEW w \in [Ents -> Paths \union {None}], OpenScene(w) PROVE Inv'
  BY <1>5, OpenSceneKeeps
<1>6. ASSUME NEW p \in Paths, NEW ok \in BOOLEAN, LoadAsset(p, ok) PROVE Inv'
  BY <1>6, LoadAssetKeeps
<1> QED BY <1>1, <1>2, <1>3, <1>4, <1>5, <1>6 DEF Editor

LEMMA NextKeeps ==
    ASSUME Inv, [Next]_vars PROVE Inv'
BY LoopStep, GameStep, DemoStep, EditorStep, EnvironmentKeeps, StutterKeeps DEF Next

(* The lists on their way to the GPU, the fences, the resources and their  *)
(* states, the meshes and who shows them stay as the invariant says,       *)
(* whichever of the three programs runs.                                   *)
THEOREM InvariantHolds == Spec => []Inv
<1>1. Init => Inv
  BY InitInv
<1>2. Inv /\ [Next]_vars => Inv'
  BY NextKeeps
<1> QED BY <1>1, <1>2, PTL DEF Spec

LEMMA InvFaultless ==
    ASSUME Inv PROVE NoFaults
<1>1. Device(gpu) /\ Paced(gpu, Recording(pc)) /\ Sound(gpu, Anyhow) /\ PcOK
  BY DeviceKnown
<1>2. MeshesOK(mm, handles) /\ lines \in 0 .. MaxLines
  BY MeshesKnown
<1>3. gpu.done <= gpu.counter
  <2>1. gpu.counter = gpu.done + Len(gpu.queue) /\ gpu.done \in Nat /\ Len(gpu.queue) \in Nat
    BY <1>1, LenProperties DEF Paced, Signals, Device
  <2> QED BY <2>1
<1>4. TypeOK
  BY <1>1, <1>2, <1>3 DEF TypeOK, PcOK, Device, MeshesOK, Back
<1>5. gpu.faults \subseteq {"texture gone"} \union IF host = "game" THEN {"not uploaded"} ELSE {}
  BY <1>1 DEF Sound, Faultless, Anyhow
<1> QED BY <1>4, <1>5 DEF NoFaults

(* Frame graphs, hand-written barriers, drains and releases agree: whatever *)
(* the GPU executes finds its target and depth buffer alive and in the     *)
(* state it expects and, in the editor and the demo, the mesh it draws     *)
(* copied before.  Textures are no part of it.                             *)
THEOREM NoFaultsAlways == Spec => []NoFaults
<1>1. Inv => NoFaults
  BY InvFaultless
<1> QED BY <1>1, InvariantHolds, PTL

(* beginFrame waits for the fence of the slot it opens, so no list is      *)
(* recorded over while an entry of the queue still refers to it.           *)
THEOREM ListsOutliveGpuAlways == Spec => []ListsOutliveGpu
<1>1. Inv => ListsOutliveGpu
  BY DeviceKnown, PacedLists DEF ListsOutliveGpu
<1> QED BY <1>1, InvariantHolds, PTL

LEMMA InvDraws ==
    ASSUME Inv PROVE DrawsOwnMeshes
<1> SUFFICES ASSUME host = "editor", pc = "ui", NEW i \in Ents, handles[i] # 0
             PROVE  mm.paths[handles[i]] = ed.ents[i]
  BY DEF DrawsOwnMeshes
<1> QED BY EditorsPc DEF EdMeshes

(* The editor's registry follows the mesh paths through edits, play, failed *)
(* loads and scenes opened: what is drawn for an entity is its mesh.       *)
THEOREM DrawsOwnMeshesAlways == Spec => []DrawsOwnMeshes
<1>1. Inv => DrawsOwnMeshes
  BY InvDraws
<1> QED BY <1>1, InvariantHolds, PTL

=============================================================================
