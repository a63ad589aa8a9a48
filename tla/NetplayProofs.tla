---------------------------- MODULE NetplayProofs ----------------------------
(***************************************************************************)
(* Proofs about Netplay, for every size of its rings, delay, sequence      *)
(* space and set of spawn points: the network ids of the living entities   *)
(* (LiveIdsUnique), the rings of the two sides (RingsExact), the inputs    *)
(* (InputsExact) and what the client shows (NeverGoesBack).                *)
(***************************************************************************)
EXTENDS Netplay, SequenceTheorems, FiniteSetTheorems, WellFoundedInduction, TLAPS

Avatar == [net : Nat, x : Int, team : Int]
States == UNION {[S -> Int] : S \in SUBSET Nat}       \* net id -> x
Counts == UNION {[S -> Nat] : S \in SUBSET Nat}       \* net id -> updates sent
Input  == [tick : Nat, dx : {0, 1}]
Pred   == [tick : Nat, x : Int, valid : BOOLEAN]
Slot   == [seq : Nat, time : Nat, states : States, valid : BOOLEAN]
Update == [seq : Int, number : Nat]

Server == [tick : Nat, acc : Nat, seq : Nat, acked : Nat, input : Input, sendSeq : Counts]
Client == [tick : Nat, x : Int, count : Nat, inputs : [0..InputRing - 1 -> Input],
           preds : [0..PredSlots - 1 -> Pred], head : Nat,
           slots : [0..Slots - 1 -> Slot], next : 0..Slots - 1,
           applied : UNION {[S -> Update] : S \in SUBSET Nat}]
Log    == [at : Seq(States), inputs : Seq(Input), preds : Seq(Int), came : Nat,
           ordered : BOOLEAN, moves : Nat]

SnapshotMsg == [k : {"snapshot"}, seq : Nat, tick : Nat, states : States]
InputsMsg   == [k : {"inputs"}, msgs : Seq(Input) \ {<< >>}]
AckMsg      == [k : {"ack"}, seq : Nat]
UpdateMsg   == [k : {"update"}, net : Nat, seq : Int, number : Nat]
Datagram == SnapshotMsg \union InputsMsg \union AckMsg \union UpdateMsg

(* The types of the records, and how many datagrams are under way.         *)
TypeInv ==
    /\ world \in [DOMAIN world -> Avatar]
    /\ made \in 1..MaxEntities /\ DOMAIN world \subseteq 1..made
    /\ ids \in [next : Nat, free : Seq(Nat)]
    /\ server \in Server /\ client \in Client /\ log \in Log
    /\ history \in [0..HistoryTicks - 1 -> [tick : Nat, at : States]]
    /\ wire \subseteq Datagram /\ IsFiniteSet(wire) /\ Cardinality(wire) <= MaxWire

(* Network ids: LiveIdsUnique without its types, and that the first player *)
(* keeps the first id.                                                     *)
IdsInv ==
    /\ DOMAIN registry = {world[e].net : e \in DOMAIN world}
    /\ \A e \in DOMAIN world : registry[world[e].net] = e
    /\ \A n \in DOMAIN registry \union Range(ids.free) : n < ids.next
    /\ DOMAIN registry \cap Range(ids.free) = {} /\ IsInjective(ids.free)
    /\ 1 \in DOMAIN world => world[1].net = 1

(* The counters of the two sides, and the snapshots that were numbered.    *)
CountersInv ==
    /\ server.acc < SnapshotEvery /\ server.acked <= server.seq
    /\ server.tick = Len(log.at) /\ client.tick = Len(log.inputs)
    /\ client.head = client.tick /\ client.count = client.tick
    /\ client.tick = Len(log.preds)
    /\ log.came <= server.seq
    /\ \A d \in wire : d.k \in {"snapshot", "ack"} => d.seq <= server.seq

(* Each slot of the history is empty or holds one of the latest ticks, and *)
(* each of these is in the slot of its remainder.                          *)
HistoryInv ==
    /\ \A s \in 0..HistoryTicks - 1 :
          \/ history[s].tick = 0 /\ history[s].at = Nothing
          \/ /\ history[s].tick \in 1..server.tick
             /\ history[s].tick > server.tick - HistoryTicks
             /\ history[s].tick % HistoryTicks = s
             /\ history[s].at = log.at[history[s].tick]
    /\ \A t \in 1..server.tick :
          t > server.tick - HistoryTicks => history[t % HistoryTicks].tick = t

PredictionInv ==
    /\ \A s \in 0..PredSlots - 1 :
          client.preds[s].valid =>
              /\ client.preds[s].tick \in 0..client.tick - 1
              /\ client.preds[s].tick >= client.tick - PredSlots
              /\ client.preds[s].tick % PredSlots = s
              /\ client.preds[s].x = log.preds[client.preds[s].tick + 1]
    /\ \A t \in 0..client.tick - 1 :
          t >= client.tick - PredSlots =>
              client.preds[t % PredSlots].valid /\ client.preds[t % PredSlots].tick = t

(* The latest inputs are in the slots of their remainders, and what is     *)
(* under way or acted on was given.                                        *)
InputsInv ==
    /\ \A t \in 0..client.tick - 1 :
          t >= client.tick - InputRing => client.inputs[t % InputRing] = log.inputs[t + 1]
    /\ \A d \in wire : d.k = "inputs" =>
          \A i \in DOMAIN d.msgs : d.msgs[i] \in Range(log.inputs)
    /\ server.input # NoInput => server.input \in Range(log.inputs)

(* An update under way or applied is one of the latest of its net id, at   *)
(* most half the sequence space back.                                      *)
Counted(n, seq, number) ==
    /\ n \in DOMAIN server.sendSeq
    /\ number < server.sendSeq[n] /\ server.sendSeq[n] - number <= SeqSpace \div 2
    /\ seq = number % SeqSpace

UpdatesInv ==
    /\ \A n \in DOMAIN client.applied :
          Counted(n, client.applied[n].seq, client.applied[n].number)
    /\ \A d \in wire : d.k = "update" => Counted(d.net, d.seq, d.number)

(* Slot i of the snapshot ring was filled before slot j.                   *)
Older(i, j) == IF i >= client.next <=> j >= client.next THEN i < j ELSE i >= client.next

(* The first player's place in what is under way and in what the client    *)
(* holds goes with the numbers of the snapshots; while these come in       *)
(* order, it goes round the ring, and the times of arrival with it.        *)
PlacesInv ==
    LET snaps == {d \in wire : d.k = "snapshot"}
        held  == {i \in 0..Slots - 1 : client.slots[i].valid}
    IN  /\ \A i \in held : /\ client.slots[i].time <= client.tick
                           /\ client.slots[i].seq <= server.seq
                           /\ log.ordered => client.slots[i].seq <= log.came
        /\ 1 \in DOMAIN world =>
              /\ \A d \in snaps : 1 \in DOMAIN d.states /\ d.states[1] <= world[1].x
              /\ \A i \in held : /\ 1 \in DOMAIN client.slots[i].states
                                 /\ client.slots[i].states[1] <= world[1].x
              /\ \A d, e \in snaps : d.seq <= e.seq => d.states[1] <= e.states[1]
              /\ \A i \in held, d \in snaps :
                    client.slots[i].seq <= d.seq => client.slots[i].states[1] <= d.states[1]
              /\ log.ordered =>
                    \A i, j \in held : Older(i, j) =>
                        /\ client.slots[i].time <= client.slots[j].time
                        /\ client.slots[i].states[1] <= client.slots[j].states[1]

NetplayInv == /\ TypeInv /\ IdsInv /\ CountersInv /\ HistoryInv
              /\ PredictionInv /\ InputsInv /\ UpdatesInv /\ PlacesInv
------------------------------------------------------------------------------
(* Facts about sequence numbers taken modulo M: within less than M, the    *)
(* difference of two of them determines the difference of the indices.     *)
(* After them, the greatest element of a finite set.                       *)

(* Quotient and remainder.                                                 *)
LEMMA DivMod ==
    ASSUME NEW M \in Nat, M > 0, NEW a \in Int
    PROVE  /\ a % M \in 0..(M - 1)
           /\ a \div M \in Int
           /\ a = M * (a \div M) + (a % M)
OBVIOUS

(* multiple of M.                                                          *)
LEMMA ModUnique ==
    ASSUME NEW M \in Nat, M > 0, NEW q \in Int, NEW r \in 0..(M - 1)
    PROVE  (M * q + r) % M = r
<1> DEFINE a == M * q + r
<1>1. a \in Int
  OBVIOUS
<1>2. /\ a % M \in 0..(M - 1)
      /\ a \div M \in Int
      /\ a = M * (a \div M) + (a % M)
  BY <1>1, DivMod
<1>3. M * (q - (a \div M)) = (a % M) - r
  BY <1>2
<1>4. CASE q - (a \div M) >= 1
  <2>1. M * (q - (a \div M)) >= M
    BY <1>2, <1>4
  <2>2. QED
    BY <2>1, <1>2, <1>3
<1>5. CASE q - (a \div M) <= -1
  <2>1. M * (q - (a \div M)) <= -M
    BY <1>2, <1>5
  <2>2. QED
    BY <2>1, <1>2, <1>3
<1>6. CASE q = a \div M
  BY <1>2, <1>6
<1>7. QED
  BY <1>2, <1>4, <1>5, <1>6

(* A slot of a ring is taken again after M steps, and not before.          *)
LEMMA ModPeriod ==
    ASSUME NEW M \in Nat, M > 0, NEW i \in Int
    PROVE  (i + M) % M = i % M
<1>1. i % M \in 0..(M - 1) /\ i \div M \in Int /\ i = M * (i \div M) + (i % M)
  BY DivMod
<1> DEFINE q == (i \div M) + 1
<1>2. q \in Int /\ M * q = M * (i \div M) + M
  BY <1>1
<1>3. i + M = M * q + (i % M)
  BY <1>1, <1>2
<1>4. (M * q + (i % M)) % M = i % M
  BY <1>1, <1>2, ModUnique
<1> QED BY <1>3, <1>4

(* is the difference of the indices.                                       *)
LEMMA DiffAhead ==
    ASSUME NEW M \in Nat, M > 0, NEW i \in Nat, NEW j \in Nat,
           i >= j, i - j < M
    PROVE  ((i % M) - (j % M)) % M = i - j
<1>1. /\ i \div M \in Int /\ i = M * (i \div M) + (i % M) /\ i % M \in Int
      /\ j \div M \in Int /\ j = M * (j \div M) + (j % M) /\ j % M \in Int
  BY DivMod
<1> DEFINE q == (j \div M) - (i \div M)
<1>2. /\ q \in Int
      /\ M * q = M * (j \div M) - M * (i \div M)
  BY <1>1
<1>3. (i % M) - (j % M) = M * q + (i - j)
  BY <1>1, <1>2
<1>4. i - j \in 0..(M - 1)
  OBVIOUS
<1>5. (M * q + (i - j)) % M = i - j
  BY <1>2, <1>4, ModUnique
<1>6. QED
  BY <1>3, <1>5

(* The first older than the second: the difference wraps around.           *)
LEMMA DiffBehind ==
    ASSUME NEW M \in Nat, M > 0, NEW i \in Nat, NEW j \in Nat,
           i < j, j - i <= M
    PROVE  ((i % M) - (j % M)) % M = M - (j - i)
<1>1. /\ i \div M \in Int /\ i = M * (i \div M) + (i % M) /\ i % M \in Int
      /\ j \div M \in Int /\ j = M * (j \div M) + (j % M) /\ j % M \in Int
  BY DivMod
<1> DEFINE q == ((j \div M) - (i \div M)) - 1
<1>2. /\ q \in Int
      /\ M * q = (M * (j \div M) - M * (i \div M)) - M
  BY <1>1
<1>3. (i % M) - (j % M) = M * q + (M - (j - i))
  BY <1>1, <1>2
<1>4. M - (j - i) \in 0..(M - 1)
  OBVIOUS
<1>5. (M * q + (M - (j - i))) % M = M - (j - i)
  BY <1>2, <1>4, ModUnique
<1>6. QED
  BY <1>3, <1>5

(* Sequence numbers less than M apart are equal only if the indices are.   *)
LEMMA SeqInjective ==
    ASSUME NEW M \in Nat, M > 0, NEW i \in Nat, NEW j \in Nat,
           i - j < M, j - i < M
    PROVE  i % M = j % M => i = j
<1>1. i % M \in Int /\ j % M \in Int
  BY DivMod
<1>2. i > j => ((i % M) - (j % M)) % M = i - j
  <2>1. i > j => i >= j
    OBVIOUS
  <2>2. QED
    BY <2>1, DiffAhead, Zenon
<1>3. j > i => ((j % M) - (i % M)) % M = j - i
  <2>1. j > i => j >= i
    OBVIOUS
  <2>2. QED
    BY <2>1, DiffAhead, Zenon
<1>4. 0 % M = 0
  BY (M * 0 + 0) % M = 0, ModUnique
<1>5. SUFFICES ASSUME i % M = j % M
               PROVE  i = j
  OBVIOUS
<1>6. /\ (i % M) - (j % M) = 0
      /\ (j % M) - (i % M) = 0
  BY <1>1, <1>5
<1>7. QED
  BY <1>2, <1>3, <1>4, <1>6

(* integer-valued function is greatest.                                    *)
LEMMA FiniteMax ==
    ASSUME NEW H, IsFiniteSet(H), H # {}, NEW f \in [H -> Int]
    PROVE  \E i \in H : \A j \in H : f[j] <= f[i]
<1> DEFINE After(i) == {j \in H : f[i] <= f[j]}
           T == {After(i) : i \in H}
<1>1. \A i \in H : f[i] \in Int
  OBVIOUS
<1>2. ASSUME NEW i \in H PROVE After(i) \in FiniteSubsetsOf(H)
  <2>1. After(i) \in SUBSET H
    OBVIOUS
  <2> HIDE DEF After
  <2>2. IsFiniteSet(After(i))
    BY <2>1, FS_Subset
  <2> QED BY <2>1, <2>2 DEF FiniteSubsetsOf
<1>3. T \subseteq FiniteSubsetsOf(H)
  BY <1>2
<1>4. T # {}
  <2>1. PICK i : i \in H
    OBVIOUS
  <2>2. After(i) \in T
    BY <2>1
  <2> QED BY <2>2
<1>5. IsWellFoundedOn(StrictSubsetOrdering(H), FiniteSubsetsOf(H))
  BY FS_StrictSubsetOrderingWellFounded
<1>6. PICK x \in T : \A y \in T : ~ (<<y, x>> \in StrictSubsetOrdering(H))
  BY <1>3, <1>4, <1>5, WFMin
<1>7. PICK i \in H : x = After(i)
  OBVIOUS
<1>8. ASSUME NEW j \in H PROVE f[j] <= f[i]
  <2> SUFFICES ASSUME f[i] < f[j] PROVE FALSE
    BY <1>1
  <2>1. After(j) \in T /\ After(j) \in SUBSET H /\ After(i) \in SUBSET H
    OBVIOUS
  <2>2. ASSUME NEW k \in After(j) PROVE k \in After(i)
    <3>1. k \in H /\ f[j] <= f[k]
      OBVIOUS
    <3> QED BY <1>1, <3>1
  <2>3. i \in After(i)
    BY <1>1
  <2>4. i \notin After(j)
    BY <1>1
  <2> QED BY <1>6, <1>7, <2>1, <2>2, <2>3, <2>4 DEF StrictSubsetOrdering
<1> QED BY <1>8
------------------------------------------------------------------------------
(***************************************************************************)
(* The constants.                                                          *)
(***************************************************************************)
LEMMA Constants ==
    /\ HistoryTicks \in Nat /\ HistoryTicks > 0 /\ SnapshotEvery \in Nat /\ SnapshotEvery > 0
    /\ Slots \in Nat /\ Slots > 0 /\ InputRing \in Nat /\ InputRing > 0
    /\ PredSlots \in Nat /\ PredSlots > 0 /\ SeqSpace \in Nat /\ SeqSpace > 1
    /\ Delay \in Nat /\ SentBefore \in Nat /\ MaxMoves \in Nat /\ MaxWire \in Nat
    /\ MaxEntities \in Nat /\ MaxEntities > 0
BY NetplayAssumption

(* A remainder is a slot of its ring.                                      *)
LEMMA SlotOf ==
    ASSUME NEW M \in Nat, M > 0, NEW i \in Int
    PROVE  i % M \in 0..(M - 1)
BY DivMod

(***************************************************************************)
(* Datagrams.                                                              *)
(***************************************************************************)
(* A datagram that is sent is under way or lost.                           *)
LEMMA SentEffect ==
    ASSUME TypeInv, NEW d, NEW w \in Sent(d)
    PROVE  /\ w = wire \/ w = wire \union {d}
           /\ IsFiniteSet(w) /\ Cardinality(w) <= MaxWire
<1>1. IsFiniteSet(wire \union {d})
  BY FS_AddElement DEF TypeInv
<1>2. CASE w = wire
  BY <1>2 DEF TypeInv
<1>3. CASE w # wire
  <2>1. w = wire \union {d} /\ Cardinality(wire \union {d}) <= MaxWire
    BY <1>3 DEF Sent
  <2> QED BY <1>1, <2>1
<1> QED BY <1>2, <1>3

(* Receiving a datagram puts none under way.                               *)
LEMMA ReceivedEffect ==
    ASSUME TypeInv, NEW d \in wire, NEW w \in {wire, wire \ {d}}
    PROVE  /\ w \subseteq wire /\ IsFiniteSet(w)
           /\ Cardinality(w) \in Nat /\ Cardinality(w) <= MaxWire
<1>1. IsFiniteSet(wire) /\ Cardinality(wire) \in Nat /\ Cardinality(wire) <= MaxWire
  BY FS_CardinalityType DEF TypeInv
<1>2. w \in SUBSET wire
  OBVIOUS
<1>3. IsFiniteSet(w) /\ Cardinality(w) <= Cardinality(wire)
  BY <1>1, <1>2, FS_Subset
<1>4. Cardinality(w) \in Nat
  BY <1>3, FS_CardinalityType
<1> QED BY <1>1, <1>2, <1>3, <1>4, Constants

(* What the kinds tell apart.                                              *)
LEMMA Kinds ==
    ASSUME TypeInv, NEW d \in wire
    PROVE  /\ d.k = "snapshot" => d \in SnapshotMsg
           /\ d.k = "inputs" => d \in InputsMsg
           /\ d.k = "ack" => d \in AckMsg
           /\ d.k = "update" => d \in UpdateMsg
<1>1. d \in SnapshotMsg \/ d \in InputsMsg \/ d \in AckMsg \/ d \in UpdateMsg
  BY DEF TypeInv, Datagram
<1>2. CASE d \in SnapshotMsg
  BY <1>2 DEF SnapshotMsg
<1>3. CASE d \in InputsMsg
  BY <1>3 DEF InputsMsg
<1>4. CASE d \in AckMsg
  BY <1>4 DEF AckMsg
<1>5. CASE d \in UpdateMsg
  BY <1>5 DEF UpdateMsg
<1> QED BY <1>1, <1>2, <1>3, <1>4, <1>5

(***************************************************************************)
(* Entities: joining, leaving, moving.                                     *)
(***************************************************************************)
LEMMA PositionsType ==
    ASSUME NEW w, w \in [DOMAIN w -> Avatar]
    PROVE  Positions(w) \in States /\ DOMAIN Positions(w) = {w[e].net : e \in DOMAIN w}
<1> DEFINE S == {w[e].net : e \in DOMAIN w}
           Who(n) == CHOOSE e \in DOMAIN w : w[e].net = n
<1>1. \A e \in DOMAIN w : w[e] \in Avatar /\ w[e].net \in Nat /\ w[e].x \in Int
  BY DEF Avatar
<1>2. S \in SUBSET Nat
  BY <1>1
<1>3. \A n \in S : Who(n) \in DOMAIN w
  OBVIOUS
<1>4. \A n \in S : w[Who(n)].x \in Int
  BY <1>1, <1>3
<1>5. Positions(w) = [n \in S |-> w[Who(n)].x]
  BY DEF Positions
<1> HIDE DEF S, Who
<1>6. Positions(w) \in [S -> Int]
  BY <1>4, <1>5
<1>7. Positions(w) \in States
  BY <1>2, <1>6 DEF States
<1> QED BY <1>6, <1>7 DEF S

(* The place that is told of an entity whose net id no other has.          *)
LEMMA PositionsOf ==
    ASSUME NEW w, NEW a \in DOMAIN w,
           \A e \in DOMAIN w : w[e].net = w[a].net => e = a
    PROVE  w[a].net \in DOMAIN Positions(w) /\ Positions(w)[w[a].net] = w[a].x
<1> DEFINE n == w[a].net
           who == CHOOSE e \in DOMAIN w : w[e].net = n
<1>1. who \in DOMAIN w /\ w[who].net = n
  OBVIOUS
<1>2. who = a
  BY <1>1
<1>3. n \in DOMAIN Positions(w) /\ Positions(w)[n] = w[who].x
  BY DEF Positions
<1> QED BY <1>2, <1>3

LEMMA NetsUnique ==
    ASSUME IdsInv, NEW a \in DOMAIN world, NEW e \in DOMAIN world, world[e].net = world[a].net
    PROVE  e = a
BY DEF IdsInv

(* allocate() gives an id and an allocator of their types.                 *)
LEMMA AllocateType ==
    ASSUME TypeInv
    PROVE  Allocate.id \in Nat /\ Allocate.ids \in [next : Nat, free : Seq(Nat)]
<1>1. ids.free \in Seq(Nat) /\ ids.next \in Nat /\ ids \in [next : Nat, free : Seq(Nat)]
  BY DEF TypeInv
<1>2. CASE ids.free # << >>
  <2>1. /\ Allocate.id = Last(ids.free)
        /\ Allocate.ids = [ids EXCEPT !.free = Front(ids.free)]
    BY <1>2 DEF Allocate
  <2>2. Last(ids.free) \in Nat
    BY <1>1, <1>2 DEF Last
  <2>3. Front(ids.free) \in Seq(Nat)
    BY <1>1, <1>2 DEF Front
  <2> QED BY <1>1, <2>1, <2>2, <2>3
<1>3. CASE ids.free = << >>
  <2>1. /\ Allocate.id = ids.next
        /\ Allocate.ids = [ids EXCEPT !.next = ids.next + 1]
    BY <1>3 DEF Allocate
  <2> QED BY <1>1, <2>1
<1> QED BY <1>2, <1>3

(* The id that is handed out is new or was the last of the free ones.      *)
LEMMA AllocateFresh ==
    ASSUME TypeInv, IdsInv
    PROVE  /\ Allocate.id \notin DOMAIN registry
           /\ Allocate.id \notin Range(Allocate.ids.free)
           /\ Range(Allocate.ids.free) \subseteq Range(ids.free)
           /\ IsInjective(Allocate.ids.free)
           /\ Allocate.id < Allocate.ids.next /\ ids.next <= Allocate.ids.next
<1>1. /\ ids.free \in Seq(Nat) /\ ids.next \in Nat /\ Len(ids.free) \in Nat
      /\ ids \in [next : Nat, free : Seq(Nat)]
      /\ DOMAIN ids.free = 1..Len(ids.free)
  BY DEF TypeInv
<1>2. \A i, j \in 1..Len(ids.free) : ids.free[i] = ids.free[j] => i = j
  BY <1>1 DEF IdsInv, IsInjective
<1>3. \A i \in 1..Len(ids.free) : ids.free[i] \in Range(ids.free)
  BY <1>1 DEF Range
<1>4. CASE ids.free # << >>
  <2>1. /\ Allocate.id = Last(ids.free)
        /\ Allocate.ids.free = Front(ids.free) /\ Allocate.ids.next = ids.next
    BY <1>1, <1>4 DEF Allocate
  <2>2. Len(ids.free) > 0 /\ Last(ids.free) = ids.free[Len(ids.free)]
    BY <1>1, <1>4 DEF Last
  <2>3. /\ DOMAIN Front(ids.free) = 1..Len(ids.free) - 1
        /\ \A i \in 1..Len(ids.free) - 1 : Front(ids.free)[i] = ids.free[i]
    BY <1>1, <2>2 DEF Front
  <2>4. Allocate.id \in Range(ids.free)
    BY <1>1, <1>3, <2>1, <2>2
  <2>5. Range(Front(ids.free)) \subseteq Range(ids.free)
    <3>1. \A i \in 1..Len(ids.free) - 1 : Front(ids.free)[i] \in Range(ids.free)
      BY <1>1, <1>3, <2>3
    <3> QED BY <2>3, <3>1 DEF Range
  <2>6. ASSUME NEW i \in 1..Len(ids.free) - 1
        PROVE  ids.free[i] # ids.free[Len(ids.free)]
    BY <1>1, <1>2, <2>2
  <2>7. Last(ids.free) \notin Range(Front(ids.free))
    BY <2>2, <2>3, <2>6 DEF Range
  <2>8. IsInjective(Front(ids.free))
    BY <1>1, <1>2, <2>3 DEF IsInjective
  <2>9. Allocate.id \notin DOMAIN registry /\ Allocate.id < ids.next
    BY <2>4 DEF IdsInv
  <2> QED BY <1>1, <2>1, <2>5, <2>7, <2>8, <2>9
<1>5. CASE ids.free = << >>
  <2>1. /\ Allocate.id = ids.next
        /\ Allocate.ids.free = ids.free /\ Allocate.ids.next = ids.next + 1
    BY <1>1, <1>5 DEF Allocate
  <2>2. \A n \in DOMAIN registry \union Range(ids.free) : n < ids.next
    BY DEF IdsInv
  <2>3. ids.next \notin DOMAIN registry \union Range(ids.free)
    BY <1>1, <2>2
  <2>4. IsInjective(ids.free)
    BY DEF IdsInv
  <2> QED BY <1>1, <2>1, <2>3, <2>4
<1> QED BY <1>4, <1>5

(* A player who joins is a new entity, with the id from the allocator.     *)
LEMMA JoinEffect ==
    ASSUME TypeInv, NEW team \in {1, 2}, Join(team)
    PROVE  /\ made' = made + 1 /\ made' \in 1..MaxEntities
           /\ DOMAIN world' = DOMAIN world \union {made + 1}
           /\ made + 1 \notin DOMAIN world
           /\ world' \in [DOMAIN world' -> Avatar]
           /\ \A o \in DOMAIN world : world'[o] = world[o]
           /\ world'[made + 1].net = Allocate.id
<1> DEFINE e == made + 1
           a == [net |-> Allocate.id, x |-> 0, team |-> team]
           w == Put(world, e, a)
<1>1. /\ world \in [DOMAIN world -> Avatar] /\ made \in 1..MaxEntities
      /\ DOMAIN world \subseteq 1..made
  BY DEF TypeInv
<1>2. made' = made + 1 /\ made' \in 1..MaxEntities /\ e \notin DOMAIN world
  BY <1>1, Constants DEF Join
<1>3. a \in Avatar
  BY AllocateType DEF Avatar
<1>4. DOMAIN w = DOMAIN world \union {e} /\ w[e] = a
  BY DEF Put
<1>5. \A o \in DOMAIN world : w[o] = world[o]
  BY <1>2 DEF Put
<1>6. w \in [DOMAIN w -> Avatar]
  BY <1>1, <1>3 DEF Put
<1>7. \/ world' = w
      \/ \E p \in Points : world' = [w EXCEPT ![e].x = p.x]
  BY DEF Join, Best, Open, Eligible
<1> HIDE DEF w
<1>8. CASE world' = w
  BY <1>2, <1>4, <1>5, <1>6, <1>8
<1>9. ASSUME NEW p \in Points, world' = [w EXCEPT ![e].x = p.x]
      PROVE  /\ DOMAIN world' = DOMAIN world \union {e}
             /\ world' \in [DOMAIN world' -> Avatar]
             /\ \A o \in DOMAIN world : world'[o] = world[o]
             /\ world'[e].net = Allocate.id
  <2>1. p.x \in Int
    BY NetplayAssumption
  <2>2. [w[e] EXCEPT !.x = p.x] \in Avatar /\ [w[e] EXCEPT !.x = p.x].net = Allocate.id
    BY <1>3, <1>4, <2>1 DEF Avatar
  <2>3. world' = [w EXCEPT ![e] = [w[e] EXCEPT !.x = p.x]]
    BY <1>9
  <2>4. world'[e] = [w[e] EXCEPT !.x = p.x] /\ DOMAIN world' = DOMAIN w
    BY <1>4, <2>3
  <2>5. \A o \in DOMAIN world : world'[o] = world[o]
    BY <1>2, <1>4, <1>5, <2>3
  <2>6. world' \in [DOMAIN w -> Avatar]
    BY <1>6, <2>2, <2>3
  <2> QED BY <1>4, <2>2, <2>4, <2>5, <2>6
<1> QED BY <1>2, <1>7, <1>8, <1>9

(* The history keeps its types when a move is counted.                     *)
LEMMA LogMoved ==
    ASSUME TypeInv
    PROVE  /\ Moved(log) \in Log
           /\ Moved(log).at = log.at /\ Moved(log).inputs = log.inputs
           /\ Moved(log).preds = log.preds /\ Moved(log).came = log.came
           /\ Moved(log).ordered = log.ordered
<1>1. log \in Log /\ log.moves \in Nat
  BY DEF TypeInv, Log
<1>2. Moved(log) = [log EXCEPT !.moves = log.moves + 1]
  BY DEF Moved
<1>3. Moved(log) \in Log
  BY <1>1, <1>2 DEF Log
<1>4. /\ Moved(log).at = log.at /\ Moved(log).inputs = log.inputs
      /\ Moved(log).preds = log.preds
  BY <1>1, <1>2 DEF Log
<1>5. /\ Moved(log).came = log.came
      /\ Moved(log).ordered = log.ordered
  BY <1>1, <1>2 DEF Log
<1> QED BY <1>3, <1>4, <1>5

(* Types through onPlayerJoin().                                           *)
LEMMA JoinTypes ==
    ASSUME TypeInv, NEW team \in {1, 2}, Join(team)
    PROVE  TypeInv'
<1>1. /\ ids' = Allocate.ids /\ log' = Moved(log)
      /\ UNCHANGED <<server, history, client, wire>>
  BY DEF Join
<1>2. world' \in [DOMAIN world' -> Avatar] /\ made' \in 1..MaxEntities
  BY JoinEffect
<1>3. DOMAIN world' \subseteq 1..made'
  <2>1. made \in 1..MaxEntities /\ DOMAIN world \subseteq 1..made
    BY DEF TypeInv
  <2>2. made' = made + 1 /\ DOMAIN world' = DOMAIN world \union {made + 1}
    BY JoinEffect
  <2>3. made \in Nat
    BY <2>1, Constants
  <2> QED BY <2>1, <2>2, <2>3
<1>4. ids' \in [next : Nat, free : Seq(Nat)] /\ log' \in Log
  BY <1>1, AllocateType, LogMoved
<1> QED BY <1>1, <1>2, <1>3, <1>4 DEF TypeInv

(* After a join, or a step that moves the entities there are: what the ids *)
(* are is untouched.                                                       *)
LEMMA JoinIds ==
    ASSUME TypeInv, IdsInv, NEW team \in {1, 2}, Join(team)
    PROVE  IdsInv'
<1> DEFINE e == made + 1
           n == Allocate.id
<1>1. /\ ids' = Allocate.ids /\ registry' = Put(registry, n, e)
  BY DEF Join
<1>2. /\ DOMAIN world' = DOMAIN world \union {e} /\ e \notin DOMAIN world
      /\ \A o \in DOMAIN world : world'[o] = world[o]
      /\ world'[e].net = n
  BY JoinEffect
<1>3. DOMAIN registry' = DOMAIN registry \union {n} /\ registry'[n] = e
  BY <1>1 DEF Put
<1>4. n \notin DOMAIN registry
  BY AllocateFresh
<1>5. \A m \in DOMAIN registry : registry'[m] = registry[m]
  BY <1>1, <1>4 DEF Put
<1>6. \A o \in DOMAIN world : world'[o].net \in DOMAIN registry
  BY <1>2 DEF IdsInv
<1>7. DOMAIN registry' = {world'[o].net : o \in DOMAIN world'}
  BY <1>2, <1>3 DEF IdsInv
<1>8. \A o \in DOMAIN world' : registry'[world'[o].net] = o
  BY <1>2, <1>3, <1>5, <1>6 DEF IdsInv
<1>9. \A m \in DOMAIN registry' \union Range(ids'.free) : m < ids'.next
  <2>1. \A m \in DOMAIN registry \union Range(ids.free) : m < ids.next
    BY DEF IdsInv
  <2>2. /\ ids.next \in Nat /\ ids'.next \in Nat /\ n < ids'.next /\ ids.next <= ids'.next
        /\ Range(ids'.free) \subseteq Range(ids.free)
    BY <1>1, AllocateFresh, AllocateType DEF TypeInv
  <2>3. \A m \in DOMAIN registry \union Range(ids.free) : m \in Nat
    <3>1. \A o \in DOMAIN world : world[o].net \in Nat
      BY DEF TypeInv, Avatar
    <3>2. DOMAIN registry \subseteq Nat
      BY <3>1 DEF IdsInv
    <3>3. Range(ids.free) \subseteq Nat
      BY DEF TypeInv, Range
    <3> QED BY <3>2, <3>3
  <2> QED BY <1>3, <2>1, <2>2, <2>3
<1>10. DOMAIN registry' \cap Range(ids'.free) = {} /\ IsInjective(ids'.free)
  BY <1>1, <1>3, AllocateFresh DEF IdsInv
<1>11. 1 \in DOMAIN world' => world'[1].net = 1
  <2>1. e # 1
    BY DEF TypeInv
  <2> QED BY <1>2, <2>1 DEF IdsInv
<1> QED BY <1>7, <1>8, <1>9, <1>10, <1>11 DEF IdsInv

(* Types through a departure.                                              *)
LEMMA LeaveTypes ==
    ASSUME TypeInv, NEW e \in 1..made, Leave(e)
    PROVE  TypeInv'
<1>1. /\ e \in DOMAIN world
      /\ ids' = [ids EXCEPT !.free = Append(ids.free, world[e].net)]
      /\ world' = [o \in DOMAIN world \ {e} |-> world[o]]
      /\ log' = Moved(log) /\ UNCHANGED <<made, server, history, client, wire>>
  BY DEF Leave
<1>2. world[e].net \in Nat
  BY <1>1 DEF TypeInv, Avatar
<1>3. ids' \in [next : Nat, free : Seq(Nat)]
  <2>1. ids \in [next : Nat, free : Seq(Nat)] /\ ids.free \in Seq(Nat)
    BY DEF TypeInv
  <2>2. Append(ids.free, world[e].net) \in Seq(Nat)
    BY <1>2, <2>1, AppendProperties
  <2> QED BY <1>1, <2>1, <2>2
<1>4. world' \in [DOMAIN world' -> Avatar] /\ DOMAIN world' \subseteq 1..made'
  BY <1>1 DEF TypeInv
<1> QED BY <1>1, <1>3, <1>4, LogMoved DEF TypeInv

(* The id of one who leaves goes from the registry to the free ones.       *)
LEMMA LeaveIds ==
    ASSUME TypeInv, IdsInv, NEW e \in 1..made, Leave(e)
    PROVE  IdsInv'
<1> DEFINE n == world[e].net
<1>1. /\ e \in DOMAIN world
      /\ ids' = [ids EXCEPT !.free = Append(ids.free, n)]
      /\ registry' = [m \in DOMAIN registry \ {n} |-> registry[m]]
      /\ world' = [o \in DOMAIN world \ {e} |-> world[o]]
  BY DEF Leave
<1>2. /\ ids \in [next : Nat, free : Seq(Nat)] /\ ids.free \in Seq(Nat)
      /\ n \in Nat /\ Len(ids.free) \in Nat
  BY <1>1 DEF TypeInv, Avatar
<1>3. ids'.free = Append(ids.free, n) /\ ids'.next = ids.next
  BY <1>1, <1>2
<1>4. n \in DOMAIN registry /\ n \notin Range(ids.free)
  BY <1>1 DEF IdsInv
<1>5. /\ DOMAIN ids.free = 1..Len(ids.free)
      /\ DOMAIN ids'.free = 1..Len(ids.free) + 1
      /\ \A i \in 1..Len(ids.free) : ids'.free[i] = ids.free[i]
      /\ ids'.free[Len(ids.free) + 1] = n
  BY <1>2, <1>3
<1>6. Range(ids'.free) = Range(ids.free) \union {n}
  <2>1. ASSUME NEW i \in DOMAIN ids'.free
        PROVE  ids'.free[i] \in Range(ids.free) \union {n}
    <3>1. CASE i = Len(ids.free) + 1
      BY <1>5, <3>1
    <3>2. CASE i \in 1..Len(ids.free)
      BY <1>5, <3>2 DEF Range
    <3> QED BY <1>2, <1>5, <3>1, <3>2
  <2>2. \A m \in Range(ids.free) : \E i \in DOMAIN ids'.free : ids'.free[i] = m
    BY <1>2, <1>5 DEF Range
  <2>3. Len(ids.free) + 1 \in DOMAIN ids'.free
    BY <1>2, <1>5
  <2> QED BY <1>5, <2>1, <2>2, <2>3 DEF Range
<1>7. IsInjective(ids'.free)
  <2> SUFFICES ASSUME NEW i \in DOMAIN ids'.free, NEW j \in DOMAIN ids'.free,
                      ids'.free[i] = ids'.free[j]
               PROVE  i = j
    BY DEF IsInjective
  <2>1. \A k \in 1..Len(ids.free) : ids.free[k] # n
    BY <1>4, <1>5 DEF Range
  <2>2. \A k, l \in 1..Len(ids.free) : ids.free[k] = ids.free[l] => k = l
    BY <1>5 DEF IdsInv, IsInjective
  <2> QED BY <1>2, <1>5, <2>1, <2>2
<1>8. \A o \in DOMAIN world' : world'[o] = world[o] /\ world[o].net # n
  BY <1>1, NetsUnique
<1>9. DOMAIN registry' = {world'[o].net : o \in DOMAIN world'}
  BY <1>1, <1>8 DEF IdsInv
<1>10. \A o \in DOMAIN world' : registry'[world'[o].net] = o
  BY <1>1, <1>8, <1>9 DEF IdsInv
<1>11. \A m \in DOMAIN registry' \union Range(ids'.free) : m < ids'.next
  BY <1>1, <1>3, <1>4, <1>6 DEF IdsInv
<1>12. DOMAIN registry' \cap Range(ids'.free) = {}
  BY <1>1, <1>6 DEF IdsInv
<1>13. 1 \in DOMAIN world' => world'[1].net = 1
  BY <1>1, <1>8 DEF IdsInv
<1> QED BY <1>7, <1>9, <1>10, <1>11, <1>12, <1>13 DEF IdsInv

(***************************************************************************)
(* The server's tick.                                                      *)
(***************************************************************************)
LEMMA SteppedEffect ==
    ASSUME TypeInv, IdsInv
    PROVE  /\ DOMAIN Stepped = DOMAIN world /\ Stepped \in [DOMAIN world -> Avatar]
           /\ \A e \in DOMAIN world : Stepped[e].net = world[e].net
           /\ 1 \in DOMAIN world => Stepped[1].x >= world[1].x
           /\ Positions(Stepped) \in States
           /\ 1 \in DOMAIN world => /\ 1 \in DOMAIN Positions(Stepped)
                                    /\ Positions(Stepped)[1] = Stepped[1].x
<1>1. server.input.dx \in {0, 1}
  BY DEF TypeInv, Server, Input
<1>2. ASSUME NEW e \in DOMAIN world
      PROVE  /\ world[e] \in Avatar
             /\ [world[e] EXCEPT !.x = world[e].x + server.input.dx] \in Avatar
             /\ [world[e] EXCEPT !.x = world[e].x + server.input.dx].net = world[e].net
             /\ [world[e] EXCEPT !.x = world[e].x + server.input.dx].x >= world[e].x
  <2>1. world[e] \in Avatar
    BY DEF TypeInv
  <2> QED BY <1>1, <2>1 DEF Avatar
<1>3. Stepped = [e \in DOMAIN world |->
                    IF e = 1 THEN [world[e] EXCEPT !.x = world[e].x + server.input.dx]
                    ELSE world[e]]
  BY DEF Stepped
<1>4. DOMAIN Stepped = DOMAIN world /\ Stepped \in [DOMAIN world -> Avatar]
  BY <1>2, <1>3
<1>5. \A e \in DOMAIN world : Stepped[e].net = world[e].net
  BY <1>2, <1>3
<1>6. 1 \in DOMAIN world => Stepped[1].x >= world[1].x
  BY <1>2, <1>3
<1>7. Positions(Stepped) \in States
  BY <1>4, PositionsType
<1>8. ASSUME 1 \in DOMAIN world
      PROVE  1 \in DOMAIN Positions(Stepped) /\ Positions(Stepped)[1] = Stepped[1].x
  <2>1. \A e \in DOMAIN Stepped : Stepped[e].net = Stepped[1].net => e = 1
    BY <1>4, <1>5, <1>8, NetsUnique
  <2>2. Stepped[1].net = 1
    BY <1>5, <1>8 DEF IdsInv
  <2>3. 1 \in DOMAIN Stepped
    BY <1>4, <1>8
  <2>4. /\ Stepped[1].net \in DOMAIN Positions(Stepped)
        /\ Positions(Stepped)[Stepped[1].net] = Stepped[1].x
    BY <2>1, <2>3, PositionsOf
  <2> QED BY <2>2, <2>4
<1> QED BY <1>4, <1>5, <1>6, <1>7, <1>8

Due == server.acc + 1 >= SnapshotEvery
Snapshot == [k |-> "snapshot", seq |-> server.seq + 1, tick |-> server.tick + 1,
             states |-> Positions(Stepped)]

(* What tick() of the server changes, field by field.                      *)
LEMMA ServerTickEffect ==
    ASSUME TypeInv, IdsInv, ServerTick
    PROVE  /\ server' \in Server /\ log' \in Log
           /\ server'.tick = server.tick + 1
           /\ server'.seq = IF Due THEN server.seq + 1 ELSE server.seq
           /\ server'.acc = IF Due THEN 0 ELSE server.acc + 1
           /\ server'.acked = server.acked /\ server'.input = server.input
           /\ server'.sendSeq = server.sendSeq
           /\ log'.at = Append(log.at, Positions(Stepped))
           /\ log'.inputs = log.inputs /\ log'.preds = log.preds
           /\ log'.came = log.came /\ log'.ordered = log.ordered
           /\ wire' = wire \/ (Due /\ wire' = wire \union {Snapshot})
           /\ IsFiniteSet(wire') /\ Cardinality(wire') <= MaxWire
           /\ Snapshot \in SnapshotMsg
<1>1. server \in Server /\ server.tick \in Nat /\ server.seq \in Nat /\ server.acc \in Nat
  BY DEF TypeInv, Server
<1>2. server' = [server EXCEPT !.tick = server.tick + 1,
                               !.seq = IF Due THEN server.seq + 1 ELSE server.seq,
                               !.acc = IF Due THEN 0 ELSE server.acc + 1]
  BY DEF ServerTick, Due
<1>3. server' \in Server
  <2> DEFINE seq == IF Due THEN server.seq + 1 ELSE server.seq
             acc == IF Due THEN 0 ELSE server.acc + 1
  <2>1. seq \in Nat /\ acc \in Nat /\ server.tick + 1 \in Nat
    BY <1>1
  <2>2. server' = [server EXCEPT !.tick = server.tick + 1, !.seq = seq, !.acc = acc]
    BY <1>2
  <2> HIDE DEF seq, acc
  <2> QED BY <1>1, <2>1, <2>2 DEF Server
<1>4. /\ server'.tick = server.tick + 1
      /\ server'.seq = IF Due THEN server.seq + 1 ELSE server.seq
      /\ server'.acc = IF Due THEN 0 ELSE server.acc + 1
  BY <1>1, <1>2 DEF Server
<1>5. /\ server'.acked = server.acked /\ server'.input = server.input
      /\ server'.sendSeq = server.sendSeq
  BY <1>1, <1>2 DEF Server
<1>6. Positions(Stepped) \in States
  BY SteppedEffect
<1>7. log' = [Moved(log) EXCEPT !.at = Append(Moved(log).at, Positions(Stepped))]
  BY DEF ServerTick
<1>8. Moved(log) \in Log /\ log.at \in Seq(States)
  BY LogMoved DEF TypeInv, Log
<1>9. Append(log.at, Positions(Stepped)) \in Seq(States)
  BY <1>6, <1>8, AppendProperties
<1>10. log' \in Log
  BY <1>7, <1>8, <1>9, LogMoved DEF Log
<1>11. /\ log'.at = Append(log.at, Positions(Stepped))
       /\ log'.inputs = log.inputs /\ log'.preds = log.preds
       /\ log'.came = log.came /\ log'.ordered = log.ordered
  <2>1. /\ log'.at = Append(Moved(log).at, Positions(Stepped))
        /\ log'.inputs = Moved(log).inputs /\ log'.preds = Moved(log).preds
        /\ log'.came = Moved(log).came /\ log'.ordered = Moved(log).ordered
    BY <1>7, <1>8 DEF Log
  <2> QED BY <2>1, LogMoved
<1>12. Snapshot \in SnapshotMsg
  BY <1>1, <1>6 DEF Snapshot, SnapshotMsg
<1>13. wire' \in IF Due THEN Sent(Snapshot) ELSE {wire}
  BY DEF ServerTick, Due, Snapshot
<1>14. CASE Due
  <2>1. wire' \in Sent(Snapshot)
    BY <1>13, <1>14
  <2>2. /\ wire' = wire \/ wire' = wire \union {Snapshot}
        /\ IsFiniteSet(wire') /\ Cardinality(wire') <= MaxWire
    BY <2>1, SentEffect
  <2> QED BY <1>3, <1>4, <1>5, <1>10, <1>11, <1>12, <1>14, <2>2
<1>15. CASE ~Due
  <2>1. /\ wire' = wire /\ IsFiniteSet(wire') /\ Cardinality(wire') <= MaxWire
    BY <1>13, <1>15 DEF TypeInv
  <2> QED BY <1>3, <1>4, <1>5, <1>10, <1>11, <1>12, <1>15, <2>1
<1> QED BY <1>14, <1>15

(* Types through it.                                                       *)
LEMMA ServerTickTypes ==
    ASSUME TypeInv, IdsInv, ServerTick
    PROVE  TypeInv' /\ IdsInv'
<1>1. /\ world' = Stepped /\ history' = RecordTransforms(server.tick + 1, Stepped)
      /\ UNCHANGED <<made, ids, registry, client>>
  BY DEF ServerTick
<1>2. /\ DOMAIN world' = DOMAIN world /\ world' \in [DOMAIN world -> Avatar]
      /\ \A e \in DOMAIN world : world'[e].net = world[e].net
  BY <1>1, SteppedEffect
<1>3. IdsInv'
  BY <1>1, <1>2 DEF IdsInv
<1>4. history' \in [0..HistoryTicks - 1 -> [tick : Nat, at : States]]
  <2>1. server.tick + 1 \in Nat /\ Positions(Stepped) \in States
    BY SteppedEffect DEF TypeInv, Server
  <2>2. [tick |-> server.tick + 1, at |-> Positions(Stepped)] \in [tick : Nat, at : States]
    BY <2>1
  <2> QED BY <1>1, <2>2 DEF RecordTransforms, TypeInv
<1>5. wire' \subseteq Datagram
  BY ServerTickEffect DEF TypeInv, Datagram
<1>6. made' \in 1..MaxEntities /\ DOMAIN world' \subseteq 1..made'
  BY <1>1, <1>2 DEF TypeInv
<1>7. ids' \in [next : Nat, free : Seq(Nat)] /\ client' \in Client
  BY <1>1 DEF TypeInv
<1> QED BY <1>2, <1>3, <1>4, <1>5, <1>6, <1>7, ServerTickEffect DEF TypeInv

(***************************************************************************)
(* Updates, inputs and acknowledgements.                                   *)
(***************************************************************************)
NextNumber(n) == IF n \in DOMAIN server.sendSeq THEN server.sendSeq[n] ELSE 0
UpdateOf(n) == [k |-> "update", net |-> n, seq |-> NextNumber(n) % SeqSpace,
                number |-> NextNumber(n)]

(* What send() changes, field by field.                                    *)
LEMMA SendUpdateEffect ==
    ASSUME TypeInv, NEW n \in 1..MaxEntities, SendUpdate(n)
    PROVE  /\ server' \in Server
           /\ server'.tick = server.tick /\ server'.seq = server.seq
           /\ server'.acc = server.acc /\ server'.acked = server.acked
           /\ server'.input = server.input
           /\ server'.sendSeq = Put(server.sendSeq, n, NextNumber(n) + 1)
           /\ wire' = wire \/ wire' = wire \union {UpdateOf(n)}
           /\ IsFiniteSet(wire') /\ Cardinality(wire') <= MaxWire
           /\ UpdateOf(n) \in UpdateMsg /\ NextNumber(n) \in Nat
<1>1. server \in Server /\ server.sendSeq \in Counts /\ n \in Nat
  <2>1. server \in Server
    BY DEF TypeInv
  <2>2. server.sendSeq \in Counts
    BY <2>1 DEF Server
  <2> QED BY <2>1, <2>2, Constants
<1>2. PICK S \in SUBSET Nat : server.sendSeq \in [S -> Nat]
  BY <1>1 DEF Counts
<1>3. NextNumber(n) \in Nat
  BY <1>2 DEF NextNumber
<1>4. server' = [server EXCEPT !.sendSeq = Put(server.sendSeq, n, NextNumber(n) + 1)]
  BY DEF SendUpdate, NextNumber
<1>5. Put(server.sendSeq, n, NextNumber(n) + 1) \in Counts
  <2>1. Put(server.sendSeq, n, NextNumber(n) + 1) \in [S \union {n} -> Nat]
    <3>1. NextNumber(n) + 1 \in Nat /\ DOMAIN server.sendSeq = S
      BY <1>2, <1>3
    <3>2. \A i \in S : server.sendSeq[i] \in Nat
      BY <1>2
    <3> HIDE DEF NextNumber
    <3> QED BY <3>1, <3>2 DEF Put
  <2>2. S \union {n} \in SUBSET Nat
    BY <1>1
  <2> QED BY <2>1, <2>2 DEF Counts
<1>6. server' \in Server
  BY <1>1, <1>4, <1>5 DEF Server
<1>7. /\ server'.tick = server.tick /\ server'.seq = server.seq
      /\ server'.acc = server.acc /\ server'.acked = server.acked
      /\ server'.input = server.input
      /\ server'.sendSeq = Put(server.sendSeq, n, NextNumber(n) + 1)
  BY <1>1, <1>4 DEF Server
<1>8. UpdateOf(n) \in UpdateMsg
  <2>1. NextNumber(n) % SeqSpace \in Int
    BY <1>3, Constants, DivMod
  <2> QED BY <1>1, <1>3, <2>1 DEF UpdateOf, UpdateMsg
<1>9. wire' \in Sent(UpdateOf(n))
  BY DEF SendUpdate, UpdateOf, NextNumber
<1>10. /\ wire' = wire \/ wire' = wire \union {UpdateOf(n)}
       /\ IsFiniteSet(wire') /\ Cardinality(wire') <= MaxWire
  BY <1>9, SentEffect
<1> QED BY <1>3, <1>6, <1>7, <1>8, <1>10

(* Types through it.                                                       *)
LEMMA SendUpdateTypes ==
    ASSUME TypeInv, NEW n \in 1..MaxEntities, SendUpdate(n)
    PROVE  TypeInv'
<1>1. UNCHANGED <<world, made, ids, registry, history, client>> /\ log' = Moved(log)
  BY DEF SendUpdate
<1>2. wire' \subseteq Datagram
  BY SendUpdateEffect DEF TypeInv, Datagram
<1> QED BY <1>1, <1>2, SendUpdateEffect, LogMoved DEF TypeInv

(* A datagram of inputs is received: its last is what the server acts on.  *)
LEMMA ReceiveInputsEffect ==
    ASSUME TypeInv, NEW d \in wire, d.k = "inputs", Received(d),
           server' = [server EXCEPT !.input = Last(d.msgs)]
    PROVE  /\ server' \in Server
           /\ server'.tick = server.tick /\ server'.seq = server.seq
           /\ server'.acc = server.acc /\ server'.acked = server.acked
           /\ server'.sendSeq = server.sendSeq
           /\ server'.input = Last(d.msgs)
           /\ \E i \in DOMAIN d.msgs : server'.input = d.msgs[i]
           /\ wire' \subseteq wire /\ IsFiniteSet(wire') /\ Cardinality(wire') <= MaxWire
<1>1. server \in Server
  BY DEF TypeInv
<1>2. d.msgs \in Seq(Input) /\ d.msgs # << >>
  BY Kinds DEF InputsMsg
<1>3. Len(d.msgs) \in DOMAIN d.msgs /\ Last(d.msgs) = d.msgs[Len(d.msgs)]
  BY <1>2 DEF Last
<1>4. Last(d.msgs) \in Input
  BY <1>2, <1>3
<1>5. server' \in Server
  BY <1>1, <1>4 DEF Server
<1>6. /\ server'.tick = server.tick /\ server'.seq = server.seq
      /\ server'.acc = server.acc /\ server'.acked = server.acked
      /\ server'.sendSeq = server.sendSeq /\ server'.input = Last(d.msgs)
  BY <1>1 DEF Server
<1>7. wire' \in {wire, wire \ {d}}
  BY DEF Received
<1>8. wire' \subseteq wire /\ IsFiniteSet(wire') /\ Cardinality(wire') <= MaxWire
  BY <1>7, ReceivedEffect
<1> QED BY <1>3, <1>5, <1>6, <1>8

(* What acknowledgeSnapshot() changes.                                     *)
LEMMA AcknowledgeEffect ==
    ASSUME TypeInv, NEW d \in wire, d.k = "ack", Received(d),
           server' = [server EXCEPT !.acked = IF d.seq > server.acked THEN d.seq ELSE server.acked]
    PROVE  /\ server' \in Server
           /\ server'.tick = server.tick /\ server'.seq = server.seq
           /\ server'.acc = server.acc /\ server'.input = server.input
           /\ server'.sendSeq = server.sendSeq
           /\ server'.acked = IF d.seq > server.acked THEN d.seq ELSE server.acked
           /\ wire' \subseteq wire /\ IsFiniteSet(wire') /\ Cardinality(wire') <= MaxWire
<1>1. server \in Server /\ server.acked \in Nat
  BY DEF TypeInv, Server
<1>2. d.seq \in Nat
  BY Kinds DEF AckMsg
<1> DEFINE acked == IF d.seq > server.acked THEN d.seq ELSE server.acked
<1>3. acked \in Nat
  BY <1>1, <1>2
<1>4. server' = [server EXCEPT !.acked = acked]
  OBVIOUS
<1> HIDE DEF acked
<1>5. server' \in Server
  BY <1>1, <1>3, <1>4 DEF Server
<1>6. /\ server'.tick = server.tick /\ server'.seq = server.seq
      /\ server'.acc = server.acc /\ server'.input = server.input
      /\ server'.sendSeq = server.sendSeq /\ server'.acked = acked
  BY <1>1, <1>4 DEF Server
<1>7. wire' \in {wire, wire \ {d}}
  BY DEF Received
<1>8. wire' \subseteq wire /\ IsFiniteSet(wire') /\ Cardinality(wire') <= MaxWire
  BY <1>7, ReceivedEffect
<1> QED BY <1>5, <1>6, <1>8 DEF acked

(* Types through what the server receives.                                 *)
LEMMA ServerReceivesTypes ==
    ASSUME TypeInv, ReceiveInputs \/ AcknowledgeSnapshot
    PROVE  TypeInv'
<1>1. UNCHANGED <<world, made, ids, registry, history, client, log>>
  BY DEF ReceiveInputs, AcknowledgeSnapshot
<1>2. /\ server' \in Server /\ wire' \subseteq wire
      /\ IsFiniteSet(wire') /\ Cardinality(wire') <= MaxWire
  <2>1. CASE ReceiveInputs
    <3>1. PICK d \in wire : /\ d.k = "inputs" /\ Received(d)
                            /\ server' = [server EXCEPT !.input = Last(d.msgs)]
      BY <2>1 DEF ReceiveInputs
    <3> QED BY <3>1, ReceiveInputsEffect
  <2>2. CASE AcknowledgeSnapshot
    <3>1. PICK d \in wire :
              /\ d.k = "ack" /\ Received(d)
              /\ server' = [server EXCEPT !.acked =
                               IF d.seq > server.acked THEN d.seq ELSE server.acked]
      BY <2>2 DEF AcknowledgeSnapshot
    <3> QED BY <3>1, AcknowledgeEffect
  <2> QED BY <2>1, <2>2
<1>3. wire' \subseteq Datagram
  BY <1>2 DEF TypeInv
<1> QED BY <1>1, <1>2, <1>3 DEF TypeInv

(***************************************************************************)
(* The client.                                                             *)
(***************************************************************************)
GivenInput(dx) == [tick |-> client.tick, dx |-> dx]
Made(dx) == [tick |-> client.tick, x |-> client.x + dx, valid |-> TRUE]

(* A client's fields may be given new values of their types.               *)
LEMMA ClientEx1 ==
    ASSUME NEW c \in Client, NEW u \in [0..InputRing - 1 -> Input], NEW n \in Nat
    PROVE  [c EXCEPT !.inputs = u, !.count = n] \in Client
BY DEF Client

(* The client keeps its type when fields are replaced by values of theirs: *)
(* one lemma for each set of fields that an action replaces.               *)
LEMMA ClientEx2 ==
    ASSUME NEW c \in Client, NEW u \in [0..PredSlots - 1 -> Pred], NEW n \in Nat
    PROVE  [c EXCEPT !.preds = u, !.head = n] \in Client
BY DEF Client

LEMMA ClientEx3 ==
    ASSUME NEW c \in Client, NEW t \in Nat, NEW x \in Int
    PROVE  [c EXCEPT !.tick = t, !.x = x] \in Client
BY DEF Client

LEMMA ClientEx4 ==
    ASSUME NEW c \in Client, NEW u \in [0..Slots - 1 -> Slot], NEW i \in 0..Slots - 1
    PROVE  [c EXCEPT !.slots = u, !.next = i] \in Client
BY DEF Client

LEMMA ClientEx5 ==
    ASSUME NEW c \in Client, NEW x \in Int
    PROVE  [c EXCEPT !.x = x] \in Client
BY DEF Client

LEMMA ClientEx6 ==
    ASSUME NEW c \in Client, NEW u \in UNION {[S -> Update] : S \in SUBSET Nat}
    PROVE  [c EXCEPT !.applied = u] \in Client
BY DEF Client

(* What clientTick() changes, field by field.                              *)
LEMMA ClientTickEffect ==
    ASSUME TypeInv, NEW dx \in {0, 1}, ClientTick(dx)
    PROVE  /\ client' \in Client
           /\ client'.tick = client.tick + 1 /\ client'.x = client.x + dx
           /\ client'.count = client.count + 1 /\ client'.head = client.head + 1
           /\ client'.inputs = [client.inputs EXCEPT ![client.count % InputRing] = GivenInput(dx)]
           /\ client'.preds = [client.preds EXCEPT ![client.head % PredSlots] = Made(dx)]
           /\ client'.slots = client.slots /\ client'.next = client.next
           /\ client'.applied = client.applied
           /\ GivenInput(dx) \in Input /\ Made(dx) \in Pred
           /\ wire' \in Sent([k |-> "inputs", msgs |-> FlushInputMessages(client')])
<1>1. /\ client \in Client /\ client.tick \in Nat /\ client.x \in Int
      /\ client.count \in Nat /\ client.head \in Nat
      /\ client.inputs \in [0..InputRing - 1 -> Input]
      /\ client.preds \in [0..PredSlots - 1 -> Pred]
  BY DEF TypeInv, Client
<1>2. GivenInput(dx) \in Input /\ Made(dx) \in Pred
  BY <1>1 DEF GivenInput, Made, Input, Pred
<1> DEFINE a == WithInput(client, dx)
           c == Predict(a, client.x + dx)
           inputs == [client.inputs EXCEPT ![client.count % InputRing] = GivenInput(dx)]
           preds == [client.preds EXCEPT ![client.head % PredSlots] = Made(dx)]
<1>3. inputs \in [0..InputRing - 1 -> Input] /\ preds \in [0..PredSlots - 1 -> Pred]
  BY <1>1, <1>2
<1>4. a = [client EXCEPT !.inputs = inputs, !.count = client.count + 1]
  BY <1>1 DEF WithInput, GivenInput, Client
<1> HIDE DEF inputs
<1>5. /\ a \in Client /\ a.tick = client.tick /\ a.x = client.x
      /\ a.inputs = inputs /\ a.count = client.count + 1
      /\ a.preds = client.preds /\ a.head = client.head
      /\ a.slots = client.slots /\ a.next = client.next /\ a.applied = client.applied
  <2>5. a \in Client
    <3>1. /\ client \in Client /\ client.count + 1 \in Nat
          /\ inputs \in [0..InputRing - 1 -> Input]
      BY <1>1, <1>3
    <3>2. [client EXCEPT !.inputs = inputs, !.count = client.count + 1] \in Client
      BY <3>1, ClientEx1
    <3> QED BY <1>4, <3>2
  <2>2. a.tick = client.tick /\ a.x = client.x /\ a.preds = client.preds
    BY <1>1, <1>4 DEF Client
  <2>3. a.inputs = inputs /\ a.count = client.count + 1 /\ a.head = client.head
    BY <1>1, <1>4 DEF Client
  <2>4. a.slots = client.slots /\ a.next = client.next /\ a.applied = client.applied
    BY <1>1, <1>4 DEF Client
  <2> QED BY <2>2, <2>3, <2>4, <2>5
<1> HIDE DEF a
<1>6. c = [a EXCEPT !.preds = preds, !.head = a.head + 1]
  BY <1>1, <1>5 DEF Predict, Made, Client
<1> HIDE DEF preds
<1>7. /\ c \in Client /\ c.tick = client.tick /\ c.x = client.x
      /\ c.inputs = inputs /\ c.count = client.count + 1
      /\ c.preds = preds /\ c.head = client.head + 1
      /\ c.slots = client.slots /\ c.next = client.next /\ c.applied = client.applied
  <2>5. a.head + 1 \in Nat
    BY <1>1, <1>5
  <2>6. c \in Client
    <3>1. [a EXCEPT !.preds = preds, !.head = a.head + 1] \in Client
      BY <1>3, <1>5, <2>5, ClientEx2
    <3> QED BY <1>6, <3>1
  <2>2. c.tick = a.tick /\ c.x = a.x /\ c.inputs = a.inputs /\ c.count = a.count
    BY <1>5, <1>6 DEF Client
  <2>3. c.preds = preds /\ c.head = a.head + 1
    BY <1>5, <1>6 DEF Client
  <2>4. c.slots = a.slots /\ c.next = a.next /\ c.applied = a.applied
    BY <1>5, <1>6 DEF Client
  <2> QED BY <1>5, <2>2, <2>3, <2>4, <2>6
<1>8. /\ client' = [c EXCEPT !.tick = c.tick + 1, !.x = c.x + dx]
      /\ wire' \in Sent([k |-> "inputs", msgs |-> FlushInputMessages(c)])
  BY DEF ClientTick, a
<1> HIDE DEF c
<1>9. /\ client' \in Client /\ client'.tick = client.tick + 1 /\ client'.x = client.x + dx
      /\ client'.inputs = inputs /\ client'.count = client.count + 1
      /\ client'.preds = preds /\ client'.head = client.head + 1
      /\ client'.slots = client.slots /\ client'.next = client.next
      /\ client'.applied = client.applied
  <2>5. c.tick + 1 \in Nat /\ c.x + dx \in Int
    BY <1>1, <1>7
  <2>6. client' \in Client
    BY <1>7, <1>8, <2>5, ClientEx3
  <2>2. client'.tick = c.tick + 1 /\ client'.x = c.x + dx
    BY <1>7, <1>8 DEF Client
  <2>3. /\ client'.inputs = c.inputs /\ client'.count = c.count
        /\ client'.preds = c.preds /\ client'.head = c.head
    BY <1>7, <1>8 DEF Client
  <2>4. client'.slots = c.slots /\ client'.next = c.next /\ client'.applied = c.applied
    BY <1>7, <1>8 DEF Client
  <2> QED BY <1>7, <2>2, <2>3, <2>4, <2>6
<1>10. FlushInputMessages(c) = FlushInputMessages(client')
  BY <1>7, <1>9 DEF FlushInputMessages
<1> QED BY <1>2, <1>8, <1>9, <1>10 DEF inputs, preds

(* What it adds to the history.                                            *)
LEMMA ClientTickLog ==
    ASSUME TypeInv, NEW dx \in {0, 1}, ClientTick(dx)
    PROVE  /\ log' \in Log
           /\ log'.at = log.at /\ log'.came = log.came /\ log'.ordered = log.ordered
           /\ log'.inputs = Append(log.inputs, GivenInput(dx))
           /\ log'.preds = Append(log.preds, client.x + dx)
<1>1. /\ Moved(log) \in Log /\ log.inputs \in Seq(Input) /\ log.preds \in Seq(Int)
      /\ client.x \in Int
  BY LogMoved DEF TypeInv, Log, Client
<1>2. log' = [Moved(log) EXCEPT !.inputs = Append(log.inputs, GivenInput(dx)),
                                !.preds = Append(log.preds, client.x + dx)]
  BY <1>1, LogMoved DEF ClientTick, GivenInput
<1>3. /\ Append(log.inputs, GivenInput(dx)) \in Seq(Input)
      /\ Append(log.preds, client.x + dx) \in Seq(Int)
  BY <1>1, ClientTickEffect, AppendProperties
<1>4. log' \in Log
  BY <1>1, <1>2, <1>3 DEF Log
<1>5. /\ log'.at = Moved(log).at /\ log'.came = Moved(log).came
      /\ log'.ordered = Moved(log).ordered
      /\ log'.inputs = Append(log.inputs, GivenInput(dx))
      /\ log'.preds = Append(log.preds, client.x + dx)
  BY <1>1, <1>2 DEF Log
<1> QED BY <1>4, <1>5, LogMoved

(* A flush reads the latest inputs off the ring.                           *)
LEMMA FlushType ==
    ASSUME NEW c \in Client
    PROVE  LET n == IF c.count < InputRing THEN c.count ELSE InputRing
           IN  /\ FlushInputMessages(c) \in Seq(Input) /\ Len(FlushInputMessages(c)) = n
               /\ n \in Nat
               /\ \A i \in 1..n : FlushInputMessages(c)[i] = c.inputs[(c.count - i) % InputRing]
<1> DEFINE n == IF c.count < InputRing THEN c.count ELSE InputRing
<1>1. c.count \in Nat /\ n \in Nat /\ n <= c.count /\ c.inputs \in [0..InputRing - 1 -> Input]
  BY Constants DEF Client
<1>2. ASSUME NEW i \in 1..n
      PROVE  /\ (c.count - 1 - (i - 1) + InputRing * 2) % InputRing = (c.count - i) % InputRing
             /\ c.inputs[(c.count - i) % InputRing] \in Input
  <2>1. c.count - i \in Int /\ c.count - i + InputRing \in Int
    BY <1>1, Constants
  <2>2. c.count - 1 - (i - 1) + InputRing * 2 = ((c.count - i) + InputRing) + InputRing
    BY <1>1, Constants
  <2>3. (((c.count - i) + InputRing) + InputRing) % InputRing = (c.count - i) % InputRing
    BY <2>1, Constants, ModPeriod
  <2>4. (c.count - i) % InputRing \in 0..InputRing - 1
    BY <2>1, Constants, SlotOf
  <2> QED BY <1>1, <2>2, <2>3, <2>4
<1>3. FlushInputMessages(c) =
          [i \in 1..n |-> c.inputs[(c.count - 1 - (i - 1) + InputRing * 2) % InputRing]]
  BY DEF FlushInputMessages
<1> HIDE DEF n
<1>4. \A i \in 1..n : FlushInputMessages(c)[i] = c.inputs[(c.count - i) % InputRing]
  BY <1>2, <1>3
<1>5. FlushInputMessages(c) \in [1..n -> Input]
  BY <1>2, <1>3
<1>6. FlushInputMessages(c) \in Seq(Input) /\ Len(FlushInputMessages(c)) = n
  BY <1>1, <1>5
<1> QED BY <1>1, <1>4, <1>6 DEF n

(* Types through it.                                                       *)
LEMMA ClientTickTypes ==
    ASSUME TypeInv, NEW dx \in {0, 1}, ClientTick(dx)
    PROVE  TypeInv'
<1> DEFINE d == [k |-> "inputs", msgs |-> FlushInputMessages(client')]
<1>1. UNCHANGED <<world, made, ids, registry, server, history>>
  BY DEF ClientTick, serverVars
<1>2. client' \in Client /\ log' \in Log /\ wire' \in Sent(d)
  BY ClientTickEffect, ClientTickLog
<1>3. d \in InputsMsg
  <2>1. FlushInputMessages(client') \in Seq(Input)
    BY <1>2, FlushType
  <2>2. client'.count = client.count + 1 /\ client.count \in Nat
    BY ClientTickEffect DEF TypeInv, Client
  <2>3. Len(FlushInputMessages(client')) # 0
    BY <1>2, <2>2, FlushType, Constants
  <2>4. FlushInputMessages(client') # << >>
    BY <2>1, <2>3
  <2> QED BY <2>1, <2>4 DEF InputsMsg
<1> HIDE DEF d
<1>4. /\ wire' = wire \/ wire' = wire \union {d}
      /\ IsFiniteSet(wire') /\ Cardinality(wire') <= MaxWire
  BY <1>2, SentEffect
<1>5. wire' \subseteq Datagram
  BY <1>3, <1>4 DEF TypeInv, Datagram
<1> QED BY <1>1, <1>2, <1>4, <1>5 DEF TypeInv

SlotFor(d) == [seq |-> d.seq, time |-> client.tick, states |-> d.states, valid |-> TRUE]
AckOf(d) == [k |-> "ack", seq |-> d.seq]

(* A snapshot overwrites the next slot of the ring, and may move the       *)
(* client.                                                                 *)
LEMMA ReceiveSnapshotEffect ==
    ASSUME TypeInv, ReceiveSnapshot
    PROVE  \E d \in wire :
              /\ d \in SnapshotMsg
              /\ client' \in Client /\ client.next \in 0..Slots - 1
              /\ client'.tick = client.tick /\ client'.count = client.count
              /\ client'.inputs = client.inputs /\ client'.preds = client.preds
              /\ client'.head = client.head /\ client'.applied = client.applied
              /\ client'.slots = [client.slots EXCEPT ![client.next] = SlotFor(d)]
              /\ client'.next = (client.next + 1) % Slots
              /\ log' \in Log /\ log'.at = log.at /\ log'.inputs = log.inputs
              /\ log'.preds = log.preds /\ log'.came = d.seq
              /\ log'.ordered <=> log.ordered /\ d.seq > log.came
              /\ wire' \subseteq wire \union {AckOf(d)} /\ AckOf(d) \in AckMsg
              /\ IsFiniteSet(wire') /\ Cardinality(wire') <= MaxWire
<1> DEFINE Off(d) == 1 \in DOMAIN d.states /\ Reconcile(client, d.tick, d.states[1])
           Pushed(d) == PushSnapshot(client, d)
<1>1. PICK d \in wire :
          /\ d.k = "snapshot"
          /\ client' = IF Off(d) THEN [Pushed(d) EXCEPT !.x = d.states[1]] ELSE Pushed(d)
          /\ \E w \in {wire, wire \ {d}} :
                wire' \in {w} \union
                    IF Cardinality(w) < MaxWire THEN {w \union {AckOf(d)}} ELSE {}
          /\ log' = [log EXCEPT !.came = d.seq, !.ordered = log.ordered /\ d.seq > log.came]
  BY DEF ReceiveSnapshot, AckOf
<1>2. d \in SnapshotMsg
  BY <1>1, Kinds
<1>3. d.seq \in Nat /\ d.states \in States
  BY <1>2 DEF SnapshotMsg
<1>4. /\ client \in Client /\ client.tick \in Nat /\ client.next \in 0..Slots - 1
      /\ client.slots \in [0..Slots - 1 -> Slot]
  BY DEF TypeInv, Client
<1>5. client.next % Slots = client.next
  <2>1. Slots * 0 + client.next = client.next /\ 0 \in Int
    BY <1>4, Constants
  <2> QED BY <1>4, <2>1, Constants, ModUnique
<1> DEFINE slots == [client.slots EXCEPT ![client.next] = SlotFor(d)]
           next == (client.next + 1) % Slots
<1>6. slots \in [0..Slots - 1 -> Slot] /\ next \in 0..Slots - 1
  <2>1. SlotFor(d) \in Slot
    BY <1>3, <1>4 DEF SlotFor, Slot
  <2>2. next \in 0..Slots - 1
    BY <1>4, Constants, SlotOf
  <2> QED BY <1>4, <2>1, <2>2
<1> DEFINE c == Pushed(d)
<1>7. c = [client EXCEPT !.slots = slots, !.next = next]
  BY <1>4, <1>5 DEF PushSnapshot, SlotFor, Client
<1> HIDE DEF slots, next, Pushed
<1>8. c \in Client
  <2>1. [client EXCEPT !.slots = slots, !.next = next] \in Client
    BY <1>4, <1>6, ClientEx4
  <2> QED BY <1>7, <2>1
<1>9. /\ c.tick = client.tick /\ c.count = client.count /\ c.inputs = client.inputs
      /\ c.preds = client.preds /\ c.head = client.head /\ c.applied = client.applied
  BY <1>4, <1>7 DEF Client
<1>10. c.slots = slots /\ c.next = next
  BY <1>4, <1>7 DEF Client
<1> HIDE DEF c
<1>11. /\ client' \in Client /\ client'.slots = c.slots /\ client'.next = c.next
       /\ client'.tick = c.tick /\ client'.count = c.count /\ client'.inputs = c.inputs
       /\ client'.preds = c.preds /\ client'.head = c.head /\ client'.applied = c.applied
  <2>1. CASE ~Off(d)
    <3>1. client' = c
      BY <1>1, <2>1 DEF c
    <3> QED BY <1>8, <3>1
  <2>2. CASE Off(d)
    <3>1. PICK S \in SUBSET Nat : d.states \in [S -> Int]
      BY <1>3 DEF States
    <3>2. d.states[1] \in Int
      BY <2>2, <3>1
    <3>3. client' = [c EXCEPT !.x = d.states[1]]
      BY <1>1, <2>2 DEF c
    <3>4. client' \in Client
      <4>1. [c EXCEPT !.x = d.states[1]] \in Client
        BY <1>8, <3>2, ClientEx5
      <4> QED BY <3>3, <4>1
    <3>5. /\ client'.slots = c.slots /\ client'.next = c.next /\ client'.tick = c.tick
          /\ client'.count = c.count /\ client'.inputs = c.inputs
      BY <1>8, <3>3 DEF Client
    <3>6. client'.preds = c.preds /\ client'.head = c.head /\ client'.applied = c.applied
      BY <1>8, <3>3 DEF Client
    <3> QED BY <3>4, <3>5, <3>6
  <2> QED BY <2>1, <2>2
<1>12. /\ log' \in Log /\ log'.at = log.at /\ log'.inputs = log.inputs
       /\ log'.preds = log.preds /\ log'.came = d.seq
       /\ log'.ordered <=> log.ordered /\ d.seq > log.came
  <2>1. log \in Log
    BY DEF TypeInv
  <2> DEFINE o == log.ordered /\ d.seq > log.came
  <2>2. o \in BOOLEAN
    OBVIOUS
  <2>3. log' = [log EXCEPT !.came = d.seq, !.ordered = o]
    BY <1>1
  <2> HIDE DEF o
  <2>4. log' \in Log
    BY <1>3, <2>1, <2>2, <2>3 DEF Log
  <2>5. /\ log'.at = log.at /\ log'.inputs = log.inputs
        /\ log'.preds = log.preds /\ log'.came = d.seq /\ log'.ordered = o
    BY <2>1, <2>3 DEF Log
  <2> QED BY <2>4, <2>5 DEF o
<1>13. AckOf(d) \in AckMsg
  BY <1>3 DEF AckOf, AckMsg
<1>14. /\ wire' \subseteq wire \union {AckOf(d)}
       /\ IsFiniteSet(wire') /\ Cardinality(wire') <= MaxWire
  <2>1. PICK w \in {wire, wire \ {d}} :
            \/ wire' = w
            \/ Cardinality(w) < MaxWire /\ wire' = w \union {AckOf(d)}
    BY <1>1
  <2>2. /\ w \subseteq wire /\ IsFiniteSet(w)
        /\ Cardinality(w) \in Nat /\ Cardinality(w) <= MaxWire
    BY ReceivedEffect
  <2>3. CASE wire' = w
    BY <2>2, <2>3
  <2>4. CASE Cardinality(w) < MaxWire /\ wire' = w \union {AckOf(d)}
    <3>1. /\ IsFiniteSet(w \union {AckOf(d)})
          /\ Cardinality(w \union {AckOf(d)}) =
                IF AckOf(d) \in w THEN Cardinality(w) ELSE Cardinality(w) + 1
      BY <2>2, FS_AddElement
    <3> QED BY <2>2, <2>4, <3>1, Constants
  <2> QED BY <2>1, <2>3, <2>4
<1> QED BY <1>2, <1>4, <1>6, <1>9, <1>10, <1>11, <1>12, <1>13, <1>14 DEF slots, next

(* Types through the receipt of a snapshot.                                *)
LEMMA ReceiveSnapshotTypes ==
    ASSUME TypeInv, ReceiveSnapshot
    PROVE  TypeInv'
<1>1. UNCHANGED <<world, made, ids, registry, server, history>>
  BY DEF ReceiveSnapshot, serverVars
<1>2. PICK d \in wire :
          /\ client' \in Client /\ log' \in Log
          /\ wire' \subseteq wire \union {AckOf(d)} /\ AckOf(d) \in AckMsg
          /\ IsFiniteSet(wire') /\ Cardinality(wire') <= MaxWire
  BY ReceiveSnapshotEffect
<1>3. wire' \subseteq Datagram
  BY <1>2 DEF TypeInv, Datagram
<1> QED BY <1>1, <1>2, <1>3 DEF TypeInv

(* An update that is received is applied or not.                           *)
LEMMA PollUpdateEffect ==
    ASSUME TypeInv, PollUpdate
    PROVE  \E d \in wire :
              /\ d.k = "update" /\ d \in UpdateMsg
              /\ client' \in Client
              /\ client'.tick = client.tick /\ client'.count = client.count
              /\ client'.inputs = client.inputs /\ client'.preds = client.preds
              /\ client'.head = client.head /\ client'.slots = client.slots
              /\ client'.next = client.next
              /\ \/ client'.applied = client.applied
                 \/ /\ AcceptSequence(d.net, d.seq)
                    /\ client'.applied =
                          Put(client.applied, d.net, [seq |-> d.seq, number |-> d.number])
              /\ wire' \subseteq wire /\ IsFiniteSet(wire') /\ Cardinality(wire') <= MaxWire
<1>1. PICK d \in wire :
          /\ d.k = "update" /\ Received(d)
          /\ IF AcceptSequence(d.net, d.seq)
             THEN client' = [client EXCEPT !.applied =
                        Put(client.applied, d.net, [seq |-> d.seq, number |-> d.number])]
             ELSE UNCHANGED client
  BY DEF PollUpdate
<1>2. d \in UpdateMsg /\ d.net \in Nat /\ d.seq \in Int /\ d.number \in Nat
  BY <1>1, Kinds DEF UpdateMsg
<1>3. wire' \subseteq wire /\ IsFiniteSet(wire') /\ Cardinality(wire') <= MaxWire
  <2>1. wire' \in {wire, wire \ {d}}
    BY <1>1 DEF Received
  <2> QED BY <2>1, ReceivedEffect
<1>4. client \in Client
  BY DEF TypeInv
<1>5. CASE ~AcceptSequence(d.net, d.seq)
  <2>1. client' = client
    BY <1>1, <1>5
  <2> QED BY <1>1, <1>2, <1>3, <1>4, <2>1
<1>6. CASE AcceptSequence(d.net, d.seq)
  <2> DEFINE applied == Put(client.applied, d.net, [seq |-> d.seq, number |-> d.number])
  <2>1. client' = [client EXCEPT !.applied = applied]
    BY <1>1, <1>6
  <2>2. applied \in UNION {[S -> Update] : S \in SUBSET Nat}
    <3>1. PICK S \in SUBSET Nat : client.applied \in [S -> Update]
      BY <1>4 DEF Client
    <3>2. [seq |-> d.seq, number |-> d.number] \in Update
      BY <1>2 DEF Update
    <3>3. applied \in [S \union {d.net} -> Update]
      BY <3>1, <3>2 DEF Put
    <3>4. S \union {d.net} \in SUBSET Nat
      BY <1>2
    <3> QED BY <3>3, <3>4
  <2> HIDE DEF applied
  <2>3. client' \in Client
    <3>1. [client EXCEPT !.applied = applied] \in Client
      BY <1>4, <2>2, ClientEx6
    <3> QED BY <2>1, <3>1
  <2>4. /\ client'.tick = client.tick /\ client'.count = client.count
        /\ client'.inputs = client.inputs /\ client'.preds = client.preds
    BY <1>4, <2>1 DEF Client
  <2>5. /\ client'.head = client.head /\ client'.slots = client.slots
        /\ client'.next = client.next /\ client'.applied = applied
    BY <1>4, <2>1 DEF Client
  <2> QED BY <1>1, <1>2, <1>3, <1>6, <2>3, <2>4, <2>5 DEF applied
<1> QED BY <1>5, <1>6

(* Types through poll().                                                   *)
LEMMA PollUpdateTypes ==
    ASSUME TypeInv, PollUpdate
    PROVE  TypeInv'
<1>1. UNCHANGED <<world, made, ids, registry, server, history, log>>
  BY DEF PollUpdate, serverVars
<1>2. /\ client' \in Client
      /\ wire' \subseteq wire /\ IsFiniteSet(wire') /\ Cardinality(wire') <= MaxWire
  BY PollUpdateEffect
<1>3. wire' \subseteq Datagram
  BY <1>2 DEF TypeInv
<1> QED BY <1>1, <1>2, <1>3 DEF TypeInv

(***************************************************************************)
(* The initial state.                                                      *)
(***************************************************************************)
LEMMA NothingType ==
    /\ Nothing \in States /\ DOMAIN Nothing = {}
    /\ \A S : << >> \in Seq(S) /\ Len(<< >>) = 0
    /\ << >> \in UNION {[S -> Update] : S \in SUBSET Nat} /\ DOMAIN << >> = {}
<1>1. << >> \in [{} -> Int] /\ << >> \in [{} -> Update] /\ DOMAIN << >> = {}
  OBVIOUS
<1>2. {} \in SUBSET Nat
  OBVIOUS
<1>3. << >> \in States
  BY <1>1, <1>2 DEF States
<1>4. << >> \in UNION {[S -> Update] : S \in SUBSET Nat}
  BY <1>1, <1>2
<1>5. \A S : << >> \in Seq(S) /\ Len(<< >>) = 0
  OBVIOUS
<1> QED BY <1>1, <1>3, <1>4, <1>5 DEF Nothing

(* The server's record at the start.                                       *)
LEMMA InitServer ==
    ASSUME Init
    PROVE  server \in Server /\ server.tick = 0 /\ server.acc = 0 /\ server.seq = 0
           /\ server.acked = 0 /\ server.input = NoInput
<1> DEFINE sent == [n \in {1} |-> SentBefore]
<1>1. sent \in Counts
  <2>1. {1} \in SUBSET Nat /\ sent \in [{1} -> Nat]
    BY Constants
  <2> QED BY <2>1 DEF Counts
<1>2. NoInput \in Input
  BY DEF NoInput, Input
<1>3. server = [tick |-> 0, acc |-> 0, seq |-> 0, acked |-> 0, input |-> NoInput,
                sendSeq |-> sent]
  BY DEF Init
<1> HIDE DEF sent
<1>4. server \in Server
  BY <1>1, <1>2, <1>3 DEF Server
<1> QED BY <1>3, <1>4

(* A record with a client's fields is a client.                            *)
LEMMA ClientOf ==
    ASSUME NEW z \in Nat, NEW x \in Int, NEW inputs \in [0..InputRing - 1 -> Input],
           NEW preds \in [0..PredSlots - 1 -> Pred], NEW slots \in [0..Slots - 1 -> Slot],
           NEW next \in 0..Slots - 1, NEW applied \in UNION {[S -> Update] : S \in SUBSET Nat}
    PROVE  [tick |-> z, x |-> x, count |-> z, inputs |-> inputs, preds |-> preds,
            head |-> z, slots |-> slots, next |-> next, applied |-> applied] \in Client
BY DEF Client

(* The client's record at the start.                                       *)
LEMMA InitClient ==
    ASSUME Init
    PROVE  /\ client \in Client /\ client.tick = 0 /\ client.count = 0 /\ client.head = 0
           /\ \A s \in 0..PredSlots - 1 : ~client.preds[s].valid
           /\ \A s \in 0..Slots - 1 : ~client.slots[s].valid
           /\ DOMAIN client.applied = {}
<1> DEFINE inputs == [i \in 0..InputRing - 1 |-> NoInput]
           preds == [i \in 0..PredSlots - 1 |-> NoPred]
           slots == [i \in 0..Slots - 1 |-> NoSnap]
           empty == << >>
<1>1. inputs \in [0..InputRing - 1 -> Input]
  BY DEF NoInput, Input
<1>2. preds \in [0..PredSlots - 1 -> Pred] /\ \A s \in 0..PredSlots - 1 : ~preds[s].valid
  BY DEF NoPred, Pred
<1>3. slots \in [0..Slots - 1 -> Slot] /\ \A s \in 0..Slots - 1 : ~slots[s].valid
  <2>1. NoSnap \in Slot /\ ~NoSnap.valid
    BY NothingType DEF NoSnap, Slot
  <2> QED BY <2>1
<1>4. empty \in UNION {[S -> Update] : S \in SUBSET Nat} /\ DOMAIN empty = {}
  BY NothingType
<1>5. 0 \in 0..Slots - 1
  BY Constants
<1>6. client = [tick |-> 0, x |-> 0, count |-> 0, inputs |-> inputs, preds |-> preds,
                head |-> 0, slots |-> slots, next |-> 0, applied |-> empty]
  BY DEF Init
<1> HIDE DEF inputs, preds, slots, empty
<1>7. client \in Client
  <2>1. 0 \in Nat /\ 0 \in Int
    OBVIOUS
  <2>2. [tick |-> 0, x |-> 0, count |-> 0, inputs |-> inputs, preds |-> preds,
         head |-> 0, slots |-> slots, next |-> 0, applied |-> empty] \in Client
    BY <1>1, <1>2, <1>3, <1>4, <1>5, <2>1, ClientOf
  <2> QED BY <1>6, <2>2
<1> QED BY <1>2, <1>3, <1>4, <1>6, <1>7

(* The history at the start.                                               *)
LEMMA InitLog ==
    ASSUME Init
    PROVE  log \in Log /\ Len(log.at) = 0 /\ Len(log.inputs) = 0 /\ Len(log.preds) = 0
           /\ log.came = 0
<1> DEFINE empty == << >>
<1>1. \A S : empty \in Seq(S) /\ Len(empty) = 0
  BY NothingType
<1>2. log = [at |-> empty, inputs |-> empty, preds |-> empty, came |-> 0, ordered |-> TRUE,
             moves |-> 0]
  BY DEF Init
<1> HIDE DEF empty
<1>3. log \in Log
  BY <1>1, <1>2 DEF Log
<1> QED BY <1>1, <1>2, <1>3

(* The invariant holds at the start.                                       *)
LEMMA InitInv ==
    ASSUME Init
    PROVE  NetplayInv
<1>1. /\ world = [e \in {1} |-> [net |-> 1, x |-> 0, team |-> 2]]
      /\ made = 1 /\ registry = [n \in {1} |-> 1]
      /\ history = [s \in 0..HistoryTicks - 1 |-> [tick |-> 0, at |-> Nothing]]
      /\ wire = {}
  BY DEF Init
<1> DEFINE empty == << >>
<1>2. empty \in Seq(Nat) /\ Len(empty) = 0 /\ DOMAIN empty = {}
  BY NothingType
<1>3. ids = [next |-> 2, free |-> empty]
  BY DEF Init
<1> HIDE DEF empty
<1>4. server.sendSeq = [n \in {1} |-> SentBefore]
  BY DEF Init
<1>5. TypeInv
  <2>1. world \in [DOMAIN world -> Avatar] /\ DOMAIN world = {1}
    BY <1>1 DEF Avatar
  <2>2. made \in 1..MaxEntities /\ DOMAIN world \subseteq 1..made
    BY <1>1, <2>1, Constants
  <2>3. ids \in [next : Nat, free : Seq(Nat)]
    BY <1>2, <1>3
  <2>4. history \in [0..HistoryTicks - 1 -> [tick : Nat, at : States]]
    BY <1>1, NothingType
  <2>5. wire \subseteq Datagram /\ IsFiniteSet(wire) /\ Cardinality(wire) <= MaxWire
    BY <1>1, FS_EmptySet, Constants
  <2> QED BY <2>1, <2>2, <2>3, <2>4, <2>5, InitServer, InitClient, InitLog DEF TypeInv
<1>6. IdsInv
  <2>1. Range(ids.free) = {} /\ IsInjective(ids.free)
    BY <1>2, <1>3 DEF Range, IsInjective
  <2>2. ids.next = 2
    BY <1>3
  <2>3. DOMAIN registry = {world[e].net : e \in DOMAIN world} /\ DOMAIN registry = {1}
    BY <1>1
  <2>4. \A e \in DOMAIN world : registry[world[e].net] = e
    BY <1>1
  <2>5. world[1].net = 1
    BY <1>1
  <2> QED BY <2>1, <2>2, <2>3, <2>4, <2>5 DEF IdsInv
<1>7. CountersInv
  BY <1>1, InitServer, InitClient, InitLog, Constants DEF CountersInv
<1>8. HistoryInv
  BY <1>1, InitServer DEF HistoryInv
<1>9. PredictionInv
  BY InitClient DEF PredictionInv
<1>10. InputsInv
  BY <1>1, InitServer, InitClient DEF InputsInv
<1>11. UpdatesInv
  BY <1>1, InitClient DEF UpdatesInv
<1>12. PlacesInv
  BY <1>1, InitClient DEF PlacesInv
<1> QED BY <1>5, <1>6, <1>7, <1>8, <1>9, <1>10, <1>11, <1>12 DEF NetplayInv

(***************************************************************************)
(* What each part of the invariant depends on.                             *)
(***************************************************************************)
LEMMA HistoryFrame ==
    ASSUME HistoryInv, history' = history, server'.tick = server.tick, log'.at = log.at
    PROVE  HistoryInv'
BY DEF HistoryInv

(* What each part of the invariant reads: where that stays, the part       *)
(* stays.                                                                  *)
LEMMA PredictionFrame ==
    ASSUME PredictionInv, client'.preds = client.preds, client'.tick = client.tick,
           log'.preds = log.preds
    PROVE  PredictionInv'
BY DEF PredictionInv

LEMMA InputsFrame ==
    ASSUME InputsInv, client'.inputs = client.inputs, client'.tick = client.tick,
           log'.inputs = log.inputs, server'.input = server.input,
           \A d \in wire' : d.k = "inputs" => d \in wire
    PROVE  InputsInv'
BY DEF InputsInv

LEMMA UpdatesFrame ==
    ASSUME UpdatesInv, client'.applied = client.applied, server'.sendSeq = server.sendSeq,
           \A d \in wire' : d.k = "update" => d \in wire
    PROVE  UpdatesInv'
BY DEF UpdatesInv, Counted

LEMMA CountersFrame ==
    ASSUME CountersInv, server'.tick = server.tick, server'.acc = server.acc,
           server'.seq = server.seq, server'.acked = server.acked,
           client'.tick = client.tick, client'.head = client.head, client'.count = client.count,
           log'.at = log.at, log'.inputs = log.inputs, log'.preds = log.preds,
           log'.came = log.came,
           \A d \in wire' : d.k \in {"snapshot", "ack"} => d \in wire
    PROVE  CountersInv'
BY DEF CountersInv

LEMMA PlacesFrame ==
    ASSUME TypeInv, TypeInv', PlacesInv,
           client'.slots = client.slots, client'.next = client.next,
           client.tick <= client'.tick, server.seq <= server'.seq,
           log'.came = log.came, log'.ordered = log.ordered,
           1 \in DOMAIN world' => 1 \in DOMAIN world /\ world[1].x <= world'[1].x,
           \A d \in wire' : d.k = "snapshot" => d \in wire
    PROVE  PlacesInv'
<1> DEFINE snaps == {d \in wire : d.k = "snapshot"}
           held == {i \in 0..Slots - 1 : client.slots[i].valid}
           Same(i, j) == client.slots[i].time <= client.slots[j].time
                         /\ client.slots[i].states[1] <= client.slots[j].states[1]
<1>1. snaps' \subseteq snaps /\ held' = held
  OBVIOUS
<1>2. \A i, j : Older(i, j)' <=> Older(i, j)
  BY DEF Older
<1>3. client.tick \in Nat /\ client'.tick \in Nat /\ server.seq \in Nat /\ server'.seq \in Nat
  BY DEF TypeInv, Client, Server
<1>4. ASSUME NEW i \in held
      PROVE  client.slots[i].time \in Nat /\ client.slots[i].seq \in Nat
  BY DEF TypeInv, Client, Slot
<1>5. \A i \in held : /\ client.slots[i].time <= client'.tick
                      /\ client.slots[i].seq <= server'.seq
                      /\ log.ordered => client.slots[i].seq <= log.came
  <2>1. \A i \in held : /\ client.slots[i].time <= client.tick
                        /\ client.slots[i].seq <= server.seq
                        /\ log.ordered => client.slots[i].seq <= log.came
    BY DEF PlacesInv
  <2> QED BY <1>3, <1>4, <2>1
<1>6. ASSUME 1 \in DOMAIN world'
      PROVE  /\ \A d \in snaps : 1 \in DOMAIN d.states /\ d.states[1] <= world'[1].x
             /\ \A i \in held : /\ 1 \in DOMAIN client.slots[i].states
                                /\ client.slots[i].states[1] <= world'[1].x
             /\ \A d, e \in snaps : d.seq <= e.seq => d.states[1] <= e.states[1]
             /\ \A i \in held, d \in snaps :
                   client.slots[i].seq <= d.seq => client.slots[i].states[1] <= d.states[1]
             /\ log.ordered => \A i, j \in held : Older(i, j) => Same(i, j)
  <2>1. world[1].x \in Int /\ world'[1].x \in Int /\ world[1].x <= world'[1].x
        /\ 1 \in DOMAIN world
    BY <1>6 DEF TypeInv, Avatar
  <2>2. /\ \A d \in snaps : 1 \in DOMAIN d.states /\ d.states[1] <= world[1].x
        /\ \A i \in held : /\ 1 \in DOMAIN client.slots[i].states
                           /\ client.slots[i].states[1] <= world[1].x
    BY <2>1 DEF PlacesInv
  <2>3. /\ \A d, e \in snaps : d.seq <= e.seq => d.states[1] <= e.states[1]
        /\ \A i \in held, d \in snaps :
              client.slots[i].seq <= d.seq => client.slots[i].states[1] <= d.states[1]
    BY <2>1 DEF PlacesInv
  <2>4. log.ordered => \A i, j \in held : Older(i, j) => Same(i, j)
    BY <2>1 DEF PlacesInv
  <2>5. ASSUME NEW s \in States, 1 \in DOMAIN s PROVE s[1] \in Int
    BY <2>5 DEF States
  <2>6. \A d \in snaps : d.states[1] \in Int
    BY <2>2, <2>5, Kinds DEF SnapshotMsg
  <2>7. \A i \in held : client.slots[i].states[1] \in Int
    BY <2>2, <2>5 DEF TypeInv, Client, Slot
  <2> QED BY <2>1, <2>2, <2>3, <2>4, <2>6, <2>7
<1> HIDE DEF held, snaps
<1>7. QED
  BY <1>1, <1>2, <1>5, <1>6 DEF PlacesInv, held, snaps

(***************************************************************************)
(* The rings: one slot is overwritten, the one whose tick leaves the       *)
(* window.                                                                 *)
(***************************************************************************)
LEMMA SlotKept ==
    ASSUME NEW M \in Nat, M > 0, NEW t \in Nat, NEW u \in Nat,
           u >= t - M, u < t, u % M # t % M
    PROVE  u > t - M
<1> SUFFICES ASSUME u = t - M PROVE FALSE
  OBVIOUS
<1>1. (u + M) % M = u % M
  <2>1. u \in Int
    OBVIOUS
  <2> QED BY <2>1, ModPeriod, Zenon
<1>2. u + M = t
  OBVIOUS
<1> QED BY <1>1, <1>2

(* Of as many ticks in a row as a ring has slots, no two share one.        *)
LEMMA SlotTaken ==
    ASSUME NEW M \in Nat, M > 0, NEW t \in Nat, NEW u \in Nat, u < t, u > t - M
    PROVE  u % M # t % M
<1>1. u - t < M /\ t - u < M /\ u # t
  OBVIOUS
<1> QED BY <1>1, SeqInjective

(* A tick records its own slot and leaves the other latest ones.           *)
LEMMA HistoryTick ==
    ASSUME TypeInv, IdsInv, CountersInv, HistoryInv, ServerTick
    PROVE  HistoryInv'
<1> DEFINE t == server.tick + 1
           k == t % HistoryTicks
           h == [tick |-> t, at |-> Positions(Stepped)]
<1>1. /\ server.tick \in Nat /\ log.at \in Seq(States) /\ Len(log.at) = server.tick
      /\ history \in [0..HistoryTicks - 1 -> [tick : Nat, at : States]]
  BY DEF TypeInv, Server, Log, CountersInv
<1>2. history' = [history EXCEPT ![k] = h] /\ k \in 0..HistoryTicks - 1
  BY <1>1, SlotOf, Constants DEF ServerTick, RecordTransforms
<1>3. server'.tick = t /\ log'.at = Append(log.at, h.at) /\ h.at \in States
  BY ServerTickEffect, SteppedEffect
<1>4. \A s \in 1..server.tick : log'.at[s] = log.at[s]
  BY <1>1, <1>3
<1>5. log'.at[t] = h.at
  BY <1>1, <1>3
<1>6. \A s \in 0..HistoryTicks - 1 : history'[s] = IF s = k THEN h ELSE history[s]
  BY <1>1, <1>2
<1>8. ASSUME NEW s \in 0..HistoryTicks - 1
      PROVE  \/ history'[s].tick = 0 /\ history'[s].at = Nothing
             \/ /\ history'[s].tick \in 1..t
                /\ history'[s].tick > t - HistoryTicks
                /\ history'[s].tick % HistoryTicks = s
                /\ history'[s].at = log'.at[history'[s].tick]
  <2>1. CASE s = k
    BY <1>1, <1>5, <1>6, <2>1, Constants
  <2>2. CASE s # k /\ history[s].tick = 0 /\ history[s].at = Nothing
    BY <1>6, <2>2
  <2>3. CASE /\ s # k /\ history[s].tick \in 1..server.tick
             /\ history[s].tick > server.tick - HistoryTicks
             /\ history[s].tick % HistoryTicks = s
             /\ history[s].at = log.at[history[s].tick]
    <3> DEFINE u == history[s].tick
    <3>1. history'[s] = history[s] /\ u \in 1..server.tick /\ u > server.tick - HistoryTicks
      BY <1>6, <2>3
    <3> HIDE DEF u
    <3>2. u \in Nat /\ t \in Nat /\ u >= t - HistoryTicks /\ u < t /\ u \in 1..t
      <4>1. server.tick \in Nat /\ HistoryTicks \in Nat
        BY <1>1, Constants
      <4> QED BY <3>1, <4>1
    <3>3. u > t - HistoryTicks
      <4>1. u % HistoryTicks # t % HistoryTicks
        BY <2>3 DEF u
      <4> QED BY <3>2, <4>1, Constants, SlotKept
    <3> QED BY <1>4, <2>3, <3>1, <3>2, <3>3 DEF u
  <2> QED BY <2>1, <2>2, <2>3 DEF HistoryInv
<1>9. ASSUME NEW s \in 1..t, s > t - HistoryTicks
      PROVE  history'[s % HistoryTicks].tick = s
  <2>1. s % HistoryTicks \in 0..HistoryTicks - 1
    BY <1>1, Constants, SlotOf
  <2>2. CASE s = t
    BY <1>6, <2>1, <2>2
  <2>3. CASE s # t
    <3>1. s \in 1..server.tick /\ s > server.tick - HistoryTicks
      BY <1>1, <1>9, <2>3, Constants
    <3>2. s % HistoryTicks # k
      <4>1. s \in Nat /\ t \in Nat /\ s < t
        BY <1>1, <2>3
      <4> QED BY <1>9, <4>1, Constants, SlotTaken
    <3>3. history[s % HistoryTicks].tick = s
      BY <3>1 DEF HistoryInv
    <3> QED BY <1>6, <2>1, <3>2, <3>3
  <2> QED BY <2>2, <2>3
<1> HIDE DEF k, h
<1> QED BY <1>3, <1>8, <1>9 DEF HistoryInv

(* push() takes the slot of the oldest prediction.                         *)
LEMMA PredictionTick ==
    ASSUME TypeInv, CountersInv, PredictionInv, NEW dx \in {0, 1}, ClientTick(dx)
    PROVE  PredictionInv'
<1> DEFINE t == client.tick
           k == t % PredSlots
           p == Made(dx)
<1>1. /\ t \in Nat /\ log.preds \in Seq(Int) /\ Len(log.preds) = t /\ client.x \in Int
      /\ client.preds \in [0..PredSlots - 1 -> Pred] /\ client.head = t
  BY DEF TypeInv, Client, Log, CountersInv
<1>2. client'.preds = [client.preds EXCEPT ![k] = p] /\ k \in 0..PredSlots - 1
  <2>1. k \in 0..PredSlots - 1
    BY <1>1, SlotOf, Constants
  <2>2. client.head % PredSlots = k
    BY <1>1
  <2> QED BY <2>1, <2>2, ClientTickEffect
<1>3. client'.tick = t + 1 /\ log'.preds = Append(log.preds, client.x + dx)
  BY ClientTickEffect, ClientTickLog
<1>4. \A s \in 1..t : log'.preds[s] = log.preds[s]
  BY <1>1, <1>3
<1>5. log'.preds[t + 1] = client.x + dx /\ client.x + dx \in Int
  BY <1>1, <1>3
<1>6. \A s \in 0..PredSlots - 1 : client'.preds[s] = IF s = k THEN p ELSE client.preds[s]
  BY <1>1, <1>2
<1>7. p.valid /\ p.tick = t /\ p.x = log'.preds[t + 1]
  BY <1>5 DEF Made
<1>8. ASSUME NEW s \in 0..PredSlots - 1, client'.preds[s].valid
      PROVE  /\ client'.preds[s].tick \in 0..t
             /\ client'.preds[s].tick >= t + 1 - PredSlots
             /\ client'.preds[s].tick % PredSlots = s
             /\ client'.preds[s].x = log'.preds[client'.preds[s].tick + 1]
  <2>1. CASE s = k
    <3>1. client'.preds[s] = p
      BY <1>6, <2>1
    <3> QED BY <1>1, <1>7, <2>1, <3>1, Constants
  <2>2. CASE s # k
    <3> DEFINE u == client.preds[s].tick
    <3>1. /\ client'.preds[s] = client.preds[s]
          /\ u \in 0..t - 1 /\ u >= t - PredSlots /\ u % PredSlots = s
          /\ client.preds[s].x = log.preds[u + 1]
      BY <1>6, <1>8, <2>2 DEF PredictionInv
    <3> HIDE DEF u
    <3>2. u \in Nat /\ u < t /\ u \in 0..t /\ u + 1 \in 1..t
      BY <1>1, <3>1
    <3>3. u >= t + 1 - PredSlots
      <4>1. u > t - PredSlots
        BY <1>1, <2>2, <3>1, <3>2, Constants, SlotKept
      <4> QED BY <1>1, <3>2, <4>1, Constants
    <3>4. log'.preds[u + 1] = log.preds[u + 1]
      BY <1>4, <3>2
    <3> QED BY <3>1, <3>2, <3>3, <3>4 DEF u
  <2> QED BY <2>1, <2>2
<1>9. ASSUME NEW s \in 0..t, s >= t + 1 - PredSlots
      PROVE  client'.preds[s % PredSlots].valid /\ client'.preds[s % PredSlots].tick = s
  <2>1. s % PredSlots \in 0..PredSlots - 1
    BY <1>1, Constants, SlotOf
  <2>2. CASE s = t
    <3>1. client'.preds[s % PredSlots] = p
      BY <1>6, <2>1, <2>2
    <3> QED BY <1>7, <2>2, <3>1
  <2>3. CASE s # t
    <3>1. s \in 0..t - 1 /\ s >= t - PredSlots
      BY <1>1, <1>9, <2>3, Constants
    <3>2. s % PredSlots # k
      <4>1. s \in Nat /\ s < t /\ s > t - PredSlots
        BY <1>1, <1>9, <2>3, Constants
      <4> QED BY <1>1, <4>1, Constants, SlotTaken
    <3>3. client.preds[s % PredSlots].valid /\ client.preds[s % PredSlots].tick = s
      BY <3>1 DEF PredictionInv
    <3>4. client'.preds[s % PredSlots] = client.preds[s % PredSlots]
      BY <1>6, <2>1, <3>2
    <3> QED BY <3>3, <3>4
  <2> QED BY <2>2, <2>3
<1>10. client'.tick - 1 = t
  BY <1>1, <1>3
<1>11. ASSUME NEW s \in 0..PredSlots - 1, client'.preds[s].valid
       PROVE  /\ client'.preds[s].tick \in 0..client'.tick - 1
              /\ client'.preds[s].tick >= client'.tick - PredSlots
              /\ client'.preds[s].tick % PredSlots = s
              /\ client'.preds[s].x = log'.preds[client'.preds[s].tick + 1]
  <2>1. /\ client'.preds[s].tick \in 0..t
        /\ client'.preds[s].tick >= t + 1 - PredSlots
        /\ client'.preds[s].tick % PredSlots = s
        /\ client'.preds[s].x = log'.preds[client'.preds[s].tick + 1]
    BY <1>8, <1>11
  <2>2. client'.tick = t + 1 /\ t \in Nat /\ PredSlots \in Nat
    BY <1>1, <1>3, Constants
  <2> QED BY <1>10, <2>1, <2>2
<1>12. ASSUME NEW s \in 0..client'.tick - 1, s >= client'.tick - PredSlots
       PROVE  client'.preds[s % PredSlots].valid /\ client'.preds[s % PredSlots].tick = s
  <2>1. s \in 0..t
    BY <1>10
  <2>2. s >= t + 1 - PredSlots
    <3>1. client'.tick = t + 1 /\ t \in Nat /\ PredSlots \in Nat /\ s \in Int
      BY <1>1, <1>3, <2>1, Constants
    <3> QED BY <1>12, <3>1
  <2> QED BY <1>9, <2>1, <2>2
<1> QED BY <1>11, <1>12 DEF PredictionInv

(* The inputs of a flush are the latest given.                             *)
LEMMA FlushLatest ==
    ASSUME TypeInv, CountersInv, InputsInv
    PROVE  FlushExact
<1> DEFINE n == Len(log.inputs)
           m == IF n < InputRing THEN n ELSE InputRing
           msgs == FlushInputMessages(client)
<1>1. /\ client \in Client /\ n \in Nat /\ client.tick = n /\ client.count = n
  BY DEF TypeInv, Client, CountersInv
<1>2. /\ msgs \in Seq(Input) /\ Len(msgs) = m /\ m \in Nat
      /\ \A i \in 1..m : msgs[i] = client.inputs[(n - i) % InputRing]
  BY <1>1, FlushType
<1>3. ASSUME NEW i \in 1..m
      PROVE  msgs[i] = log.inputs[n + 1 - i]
  <2>1. n - i \in 0..client.tick - 1 /\ n - i >= client.tick - InputRing
    BY <1>1, <1>2, Constants
  <2>2. client.inputs[(n - i) % InputRing] = log.inputs[(n - i) + 1]
    BY <2>1 DEF InputsInv
  <2>3. (n - i) + 1 = n + 1 - i
    BY <1>1, <1>2
  <2> QED BY <1>2, <2>2, <2>3
<1>4. DOMAIN msgs = 1..m
  BY <1>2
<1> HIDE DEF msgs
<1> QED BY <1>2, <1>3, <1>4 DEF FlushExact, msgs

(* The i-th latest of the inputs, as an index of the ring and of the       *)
(* history.                                                                *)
LEMMA StepsBack ==
    ASSUME NEW t \in Nat, NEW r \in Nat, NEW m \in Nat, m <= r, m <= t + 1, NEW i \in 1..m
    PROVE  t + 1 - i \in 0..t /\ t + 1 - i >= t + 1 - r /\ (t + 1 - i) + 1 \in 1..t + 1
OBVIOUS

(* clientTick() keeps the input ring the latest inputs given.              *)
LEMMA InputsTick ==
    ASSUME TypeInv, TypeInv', CountersInv, CountersInv', InputsInv,
           NEW dx \in {0, 1}, ClientTick(dx)
    PROVE  InputsInv'
<1> DEFINE t == client.tick
           k == t % InputRing
           g == GivenInput(dx)
           msgs == FlushInputMessages(client')
           d == [k |-> "inputs", msgs |-> msgs]
<1>1. /\ t \in Nat /\ log.inputs \in Seq(Input) /\ Len(log.inputs) = t
      /\ client.inputs \in [0..InputRing - 1 -> Input] /\ client.count = t
  BY DEF TypeInv, Client, Log, CountersInv
<1>2. client'.inputs = [client.inputs EXCEPT ![k] = g] /\ k \in 0..InputRing - 1 /\ g \in Input
  <2>1. k \in 0..InputRing - 1
    BY <1>1, SlotOf, Constants
  <2>2. client.count % InputRing = k
    BY <1>1
  <2> QED BY <2>1, <2>2, ClientTickEffect
<1>3. client'.tick = t + 1 /\ log'.inputs = Append(log.inputs, g)
  BY ClientTickEffect, ClientTickLog
<1>4. \A s \in 1..t : log'.inputs[s] = log.inputs[s]
  BY <1>1, <1>3
<1>5. log'.inputs[t + 1] = g /\ Len(log'.inputs) = t + 1 /\ DOMAIN log'.inputs = 1..t + 1
  BY <1>1, <1>2, <1>3
<1>6. \A s \in 0..InputRing - 1 : client'.inputs[s] = IF s = k THEN g ELSE client.inputs[s]
  BY <1>1, <1>2
<1>7. ASSUME NEW s \in 0..t, s >= t + 1 - InputRing
      PROVE  client'.inputs[s % InputRing] = log'.inputs[s + 1]
  <2>1. s % InputRing \in 0..InputRing - 1
    BY <1>1, Constants, SlotOf
  <2>2. CASE s = t
    BY <1>5, <1>6, <2>1, <2>2
  <2>3. CASE s # t
    <3>1. s \in 0..t - 1 /\ s >= t - InputRing /\ s + 1 \in 1..t
      BY <1>1, <1>7, <2>3, Constants
    <3>2. s % InputRing # k
      <4>1. s \in Nat /\ s < t /\ s > t - InputRing
        BY <1>1, <1>7, <2>3, Constants
      <4> QED BY <1>1, <4>1, Constants, SlotTaken
    <3>3. client.inputs[s % InputRing] = log.inputs[s + 1]
      BY <3>1 DEF InputsInv
    <3> QED BY <1>4, <1>6, <2>1, <3>1, <3>2, <3>3
  <2> QED BY <2>2, <2>3
<1>8. client'.tick - 1 = t
  BY <1>1, <1>3
<1>9. Range(log.inputs) \subseteq Range(log'.inputs)
  <2> SUFFICES ASSUME NEW s \in DOMAIN log.inputs PROVE log.inputs[s] \in Range(log'.inputs)
    BY DEF Range
  <2>1. s \in 1..t
    BY <1>1
  <2>2. s \in DOMAIN log'.inputs /\ log'.inputs[s] = log.inputs[s]
    BY <1>1, <1>4, <1>5, <2>1
  <2> QED BY <2>2 DEF Range
<1>10. \A i \in DOMAIN msgs : msgs[i] \in Range(log'.inputs)
  <2>1. /\ client' \in Client /\ client'.count = t + 1 /\ client'.tick = t + 1
    BY <1>1, <1>3, ClientTickEffect
  <2> DEFINE m == IF client'.count < InputRing THEN client'.count ELSE InputRing
  <2>2. /\ msgs \in Seq(Input) /\ Len(msgs) = m /\ m \in Nat
        /\ \A i \in 1..m : msgs[i] = client'.inputs[(client'.count - i) % InputRing]
    BY <2>1, FlushType
  <2>5. m <= InputRing /\ m <= t + 1
    BY <1>1, <2>1, Constants
  <2> HIDE DEF m, msgs
  <2>3. ASSUME NEW i \in 1..m
        PROVE  msgs[i] \in Range(log'.inputs)
    <3>1. t + 1 - i \in 0..t /\ t + 1 - i >= t + 1 - InputRing /\ (t + 1 - i) + 1 \in 1..t + 1
      <4>1. t \in Nat /\ InputRing \in Nat /\ m \in Nat
        BY <1>1, <2>2, Constants
      <4> HIDE DEF t
      <4> QED BY <2>5, <4>1, StepsBack
    <3>2. client'.inputs[(t + 1 - i) % InputRing] = log'.inputs[(t + 1 - i) + 1]
      BY <1>7, <3>1
    <3>3. msgs[i] = log'.inputs[(t + 1 - i) + 1]
      <4>1. msgs[i] = client'.inputs[(client'.count - i) % InputRing]
        BY <2>2
      <4>2. client'.count = t + 1
        BY <2>1
      <4>3. msgs[i] = client'.inputs[(t + 1 - i) % InputRing]
        <5>1. client'.count - i = t + 1 - i
          <6>1. t \in Nat /\ i \in Int
            BY <1>1, <2>2
          <6> QED BY <4>2, <6>1
        <5> QED BY <4>1, <5>1
      <4> QED BY <3>2, <4>3
    <3>4. (t + 1 - i) + 1 \in DOMAIN log'.inputs
      BY <1>5, <3>1
    <3> QED BY <3>3, <3>4 DEF Range
  <2>4. DOMAIN msgs = 1..m
    BY <2>2
  <2> QED BY <2>3, <2>4
<1>11. wire' = wire \/ wire' = wire \union {d}
  BY ClientTickEffect, SentEffect
<1>12. ASSUME NEW e \in wire', e.k = "inputs"
       PROVE  \A i \in DOMAIN e.msgs : e.msgs[i] \in Range(log'.inputs)
  <2>1. CASE e \in wire
    BY <1>9, <1>12, <2>1 DEF InputsInv
  <2>2. CASE e = d
    BY <1>10, <2>2
  <2> QED BY <1>11, <1>12, <2>1, <2>2
<1>13. server' = server
  BY DEF ClientTick, serverVars
<1>14. server'.input # NoInput => server'.input \in Range(log'.inputs)
  BY <1>9, <1>13 DEF InputsInv
<1>15. ASSUME NEW s \in 0..client'.tick - 1, s >= client'.tick - InputRing
       PROVE  client'.inputs[s % InputRing] = log'.inputs[s + 1]
  <2>1. s \in 0..t
    BY <1>8
  <2>2. s >= t + 1 - InputRing
    <3>1. client'.tick = t + 1 /\ t \in Nat /\ InputRing \in Nat /\ s \in Int
      BY <1>1, <1>3, <2>1, Constants
    <3> QED BY <1>15, <3>1
  <2> QED BY <1>7, <2>1, <2>2
<1> HIDE DEF k, g, msgs, d
<1> QED BY <1>12, <1>14, <1>15 DEF InputsInv

(* What the rings answer.                                                  *)
LEMMA HistoryIsExact ==
    ASSUME TypeInv, HistoryInv
    PROVE  HistoryExact
<1> SUFFICES ASSUME NEW t \in 1..server.tick
             PROVE  GetSnapshotAtTick(t) =
                       IF t > server.tick - HistoryTicks THEN log.at[t] ELSE Nothing
  BY DEF HistoryExact
<1> DEFINE s == t % HistoryTicks
<1>1. s \in 0..HistoryTicks - 1 /\ server.tick \in Nat
  <2>1. server.tick \in Nat
    BY DEF TypeInv, Server
  <2>2. t \in Int
    BY <2>1
  <2> QED BY <2>1, <2>2, Constants, SlotOf
<1>2. GetSnapshotAtTick(t) = IF history[s].tick # t \/ history[s].at = Nothing
                             THEN Nothing ELSE history[s].at
  BY DEF GetSnapshotAtTick
<1>3. \/ history[s].tick = 0
      \/ history[s].tick > server.tick - HistoryTicks /\ history[s].at = log.at[history[s].tick]
  BY <1>1 DEF HistoryInv
<1>4. CASE t > server.tick - HistoryTicks
  <2>1. history[s].tick = t
    BY <1>4 DEF HistoryInv
  <2>2. history[s].at = log.at[t]
    BY <1>1, <1>3, <2>1
  <2> QED BY <1>2, <1>4, <2>1, <2>2
<1>5. CASE ~(t > server.tick - HistoryTicks)
  <2>1. history[s].tick # t
    BY <1>1, <1>3, <1>5
  <2> QED BY <1>2, <1>5, <2>1
<1> QED BY <1>4, <1>5

(* The prediction buffer answers as RingsExact asks.                       *)
LEMMA PredictionIsExact ==
    ASSUME TypeInv, PredictionInv
    PROVE  PredictionExact
<1> SUFFICES ASSUME NEW t \in 0..client.tick - 1
             PROVE  Prediction(client, t) =
                       IF t >= client.tick - PredSlots
                       THEN [tick |-> t, x |-> log.preds[t + 1], valid |-> TRUE] ELSE NoPred
  BY DEF PredictionExact
<1> DEFINE s == t % PredSlots
           mine == {i \in DOMAIN client.preds :
                       client.preds[i].valid /\ client.preds[i].tick = t}
           first == CHOOSE i \in mine : \A j \in mine : i <= j
<1>1. /\ s \in 0..PredSlots - 1 /\ client.tick \in Nat
      /\ client.preds \in [0..PredSlots - 1 -> Pred]
  <2>1. client.tick \in Nat /\ client.preds \in [0..PredSlots - 1 -> Pred]
    BY DEF TypeInv, Client
  <2>2. t \in Int
    BY <2>1
  <2> QED BY <2>1, <2>2, Constants, SlotOf
<1>2. Prediction(client, t) = IF mine = {} THEN NoPred ELSE client.preds[first]
  BY DEF Prediction
<1>3. \A i \in mine : i = s /\ t >= client.tick - PredSlots
  BY <1>1 DEF PredictionInv
<1>4. CASE t >= client.tick - PredSlots
  <2>1. client.preds[s].valid /\ client.preds[s].tick = t
    BY <1>4 DEF PredictionInv
  <2>2. s \in mine
    BY <1>1, <2>1
  <2>3. \A j \in mine : s <= j
    BY <1>1, <1>3
  <2>4. first \in mine
    BY <2>2, <2>3
  <2>5. first = s /\ mine # {}
    BY <1>3, <2>2, <2>4
  <2>6. client.preds[s].x = log.preds[t + 1]
    BY <1>1, <2>1 DEF PredictionInv
  <2>7. client.preds[s] \in Pred
    BY <1>1
  <2>8. client.preds[s].valid = TRUE
    BY <2>1, <2>7 DEF Pred
  <2>9. client.preds[s] = [tick |-> t, x |-> log.preds[t + 1], valid |-> TRUE]
    BY <2>1, <2>6, <2>7, <2>8 DEF Pred
  <2> QED BY <1>2, <1>4, <2>5, <2>9
<1>5. CASE ~(t >= client.tick - PredSlots)
  BY <1>2, <1>3, <1>5
<1> QED BY <1>4, <1>5

(***************************************************************************)
(* Component updates: within half the sequence space, the newer of two     *)
(* sequence numbers is that of the later update.                           *)
(***************************************************************************)
LEMMA NewerIsLater ==
    ASSUME NEW i \in Nat, NEW j \in Nat, NEW s \in Nat,
           i < s, j < s, s - i <= SeqSpace \div 2, s - j <= SeqSpace \div 2,
           SeqNewer(i % SeqSpace, j % SeqSpace)
    PROVE  i >= j
<1> SUFFICES ASSUME i < j PROVE FALSE
  OBVIOUS
<1>1. SeqSpace \in Nat /\ SeqSpace > 1 /\ SeqSpace \div 2 \in Nat
      /\ 2 * (SeqSpace \div 2) <= SeqSpace
  BY Constants
<1>2. j - i < SeqSpace \div 2 /\ j - i <= SeqSpace
  BY <1>1
<1>3. ((i % SeqSpace) - (j % SeqSpace)) % SeqSpace = SeqSpace - (j - i)
  BY <1>1, <1>2, DiffBehind
<1>4. ((i % SeqSpace) - (j % SeqSpace)) % SeqSpace < SeqSpace \div 2
  BY DEF SeqNewer
<1> QED BY <1>1, <1>2, <1>3, <1>4

(* What is known of the updates under way and applied, through send().     *)
LEMMA UpdatesSent ==
    ASSUME TypeInv, UpdatesInv, NEW n \in 1..MaxEntities, SendUpdate(n)
    PROVE  UpdatesInv'
<1> DEFINE half == SeqSpace \div 2
           num == NextNumber(n)
<1>1. /\ half \in Nat /\ half >= 1 /\ num \in Nat
      /\ server'.sendSeq = Put(server.sendSeq, n, num + 1)
      /\ wire' = wire \/ wire' = wire \union {UpdateOf(n)}
  BY Constants, SendUpdateEffect
<1>2. client' = client
  BY DEF SendUpdate
<1>3. /\ n \in DOMAIN client.applied => num - client.applied[n].number < half
      /\ \A d \in wire : d.k = "update" /\ d.net = n => num - d.number < half
  BY DEF SendUpdate, NextNumber
<1>4. ASSUME NEW m, NEW seq, NEW number \in Nat, Counted(m, seq, number),
             m = n => num - number < half
      PROVE  Counted(m, seq, number)'
  <2>1. CASE m = n
    <3>1. num = server.sendSeq[n]
      BY <1>4, <2>1 DEF NextNumber, Counted
    <3>2. n \in DOMAIN server'.sendSeq /\ server'.sendSeq[n] = num + 1
      BY <1>1 DEF Put
    <3>3. number < num /\ num - number < half /\ seq = number % SeqSpace
      BY <1>4, <2>1, <3>1 DEF Counted
    <3> HIDE DEF num, half
    <3>4. number < num + 1 /\ (num + 1) - number <= half
      BY <1>1, <3>3
    <3> QED BY <2>1, <3>2, <3>3, <3>4 DEF Counted, half
  <2>2. CASE m # n
    <3>1. m \in DOMAIN server'.sendSeq /\ server'.sendSeq[m] = server.sendSeq[m]
      BY <1>1, <1>4, <2>2 DEF Put, Counted
    <3> QED BY <1>4, <3>1 DEF Counted
  <2> QED BY <2>1, <2>2
<1>5. ASSUME NEW m \in DOMAIN client.applied
      PROVE  Counted(m, client.applied[m].seq, client.applied[m].number)'
  <2>1. client.applied[m].number \in Nat
    <3>1. PICK S \in SUBSET Nat : client.applied \in [S -> Update]
      BY DEF TypeInv, Client
    <3> QED BY <3>1 DEF Update
  <2>2. Counted(m, client.applied[m].seq, client.applied[m].number)
    BY DEF UpdatesInv
  <2>3. m = n => num - client.applied[m].number < half
    BY <1>3
  <2> DEFINE seq == client.applied[m].seq
             number == client.applied[m].number
  <2> HIDE DEF num, half
  <2>4. PICK a, b : a = seq /\ b = number
    OBVIOUS
  <2>5. Counted(m, a, b)'
    BY <1>4, <2>1, <2>2, <2>3, <2>4
  <2>6. client'.applied = client.applied
    BY <1>2
  <2> QED BY <2>4, <2>5, <1>2 DEF Counted
<1>6. ASSUME NEW d \in wire', d.k = "update"
      PROVE  Counted(d.net, d.seq, d.number)'
  <2>1. CASE d \in wire
    <3>1. d.number \in Nat /\ Counted(d.net, d.seq, d.number)
      BY <1>6, <2>1, Kinds DEF UpdatesInv, UpdateMsg
    <3>2. d.net = n => num - d.number < half
      BY <1>3, <1>6, <2>1
    <3> HIDE DEF num, half
    <3> QED BY <1>4, <3>1, <3>2
  <2>2. CASE d = UpdateOf(n)
    <3>1. d.net = n /\ d.seq = num % SeqSpace /\ d.number = num
      BY <2>2 DEF UpdateOf
    <3>2. n \in DOMAIN server'.sendSeq /\ server'.sendSeq[n] = num + 1
      BY <1>1 DEF Put
    <3>3. num < num + 1 /\ (num + 1) - num <= half
      BY <1>1
    <3> QED BY <3>1, <3>2, <3>3 DEF Counted
  <2> QED BY <1>1, <2>1, <2>2
<1> HIDE DEF num, half
<1> QED BY <1>2, <1>5, <1>6 DEF UpdatesInv

(* The same, through poll().                                               *)
LEMMA UpdatesPolled ==
    ASSUME TypeInv, UpdatesInv, PollUpdate
    PROVE  UpdatesInv'
<1>1. PICK d \in wire :
          /\ d.k = "update"
          /\ \/ client'.applied = client.applied
             \/ client'.applied = Put(client.applied, d.net, [seq |-> d.seq, number |-> d.number])
          /\ wire' \subseteq wire
  BY PollUpdateEffect
<1>2. server' = server
  BY DEF PollUpdate, serverVars
<1>3. \A n, seq, number : Counted(n, seq, number)' <=> Counted(n, seq, number)
  BY <1>2 DEF Counted
<1>4. ASSUME NEW n \in DOMAIN client'.applied
      PROVE  Counted(n, client'.applied[n].seq, client'.applied[n].number)
  <2>1. CASE client'.applied = client.applied
    BY <2>1 DEF UpdatesInv
  <2>2. CASE client'.applied = Put(client.applied, d.net, [seq |-> d.seq, number |-> d.number])
    <3>1. CASE n = d.net
      <4>1. client'.applied[n] = [seq |-> d.seq, number |-> d.number]
        BY <2>2, <3>1 DEF Put
      <4>2. Counted(d.net, d.seq, d.number)
        BY <1>1 DEF UpdatesInv
      <4> QED BY <3>1, <4>1, <4>2
    <3>2. CASE n # d.net
      BY <2>2, <3>2 DEF Put, UpdatesInv
    <3> QED BY <3>1, <3>2
  <2> QED BY <1>1, <2>1, <2>2
<1>5. \A e \in wire' : e.k = "update" => Counted(e.net, e.seq, e.number)
  BY <1>1 DEF UpdatesInv
<1> QED BY <1>3, <1>4, <1>5 DEF UpdatesInv

(* An update that is applied is not older than the one it replaces.        *)
LEMMA PolledIsNewer ==
    ASSUME TypeInv, UpdatesInv, PollUpdate
    PROVE  NewestWins
<1>1. PICK d \in wire :
          /\ d.k = "update" /\ d \in UpdateMsg
          /\ \/ client'.applied = client.applied
             \/ /\ AcceptSequence(d.net, d.seq)
                /\ client'.applied =
                      Put(client.applied, d.net, [seq |-> d.seq, number |-> d.number])
  BY PollUpdateEffect
<1> SUFFICES ASSUME NEW n \in DOMAIN client.applied
             PROVE  client'.applied[n].number >= client.applied[n].number
  BY DEF NewestWins
<1>2. client.applied[n].number \in Nat
  <2>1. PICK S \in SUBSET Nat : client.applied \in [S -> Update]
    BY DEF TypeInv, Client
  <2> QED BY <2>1 DEF Update
<1>3. CASE client'.applied = client.applied
  BY <1>2, <1>3
<1>4. CASE /\ AcceptSequence(d.net, d.seq)
           /\ client'.applied = Put(client.applied, d.net, [seq |-> d.seq, number |-> d.number])
  <2>1. CASE n = d.net
    <3>1. client'.applied[n].number = d.number
      BY <1>4, <2>1 DEF Put
    <3>2. SeqNewer(d.seq, client.applied[n].seq)
      BY <1>4, <2>1 DEF AcceptSequence
    <3>3. Counted(n, d.seq, d.number)
      BY <1>1, <2>1 DEF UpdatesInv
    <3>4. Counted(n, client.applied[n].seq, client.applied[n].number)
      BY DEF UpdatesInv
    <3>5. d.number \in Nat
      BY <1>1 DEF UpdateMsg
    <3>6. server.sendSeq[n] \in Nat
      <4>1. PICK S \in SUBSET Nat : server.sendSeq \in [S -> Nat]
        BY DEF TypeInv, Server, Counts
      <4> QED BY <3>3, <4>1 DEF Counted
    <3>7. d.number >= client.applied[n].number
      BY <1>2, <3>2, <3>3, <3>4, <3>5, <3>6, NewerIsLater DEF Counted
    <3> QED BY <3>1, <3>7
  <2>2. CASE n # d.net
    <3>1. client'.applied[n] = client.applied[n]
      BY <1>4, <2>2 DEF Put
    <3> QED BY <1>2, <3>1
  <2> QED BY <2>1, <2>2
<1> QED BY <1>1, <1>3, <1>4

(***************************************************************************)
(* The first player's place, from the server to the client's ring.         *)
(***************************************************************************)
LEMMA PlacesType ==
    ASSUME TypeInv, PlacesInv, 1 \in DOMAIN world
    PROVE  /\ world[1].x \in Int
           /\ \A d \in wire : d.k = "snapshot" => d.states[1] \in Int /\ d.seq \in Nat
           /\ \A i \in 0..Slots - 1 : client.slots[i].valid => client.slots[i].states[1] \in Int
<1>1. ASSUME NEW s \in States, 1 \in DOMAIN s PROVE s[1] \in Int
  BY <1>1 DEF States
<1>2. world[1].x \in Int
  BY DEF TypeInv, Avatar
<1>3. ASSUME NEW d \in wire, d.k = "snapshot" PROVE d.states[1] \in Int /\ d.seq \in Nat
  <2>1. d.seq \in Nat /\ d.states \in States
    BY <1>3, Kinds DEF SnapshotMsg
  <2>2. 1 \in DOMAIN d.states
    BY <1>3 DEF PlacesInv
  <2> QED BY <1>1, <2>1, <2>2
<1>4. ASSUME NEW i \in 0..Slots - 1, client.slots[i].valid
      PROVE  client.slots[i].states[1] \in Int
  <2>1. client.slots[i].states \in States
    BY DEF TypeInv, Client, Slot
  <2>2. 1 \in DOMAIN client.slots[i].states
    BY <1>4 DEF PlacesInv
  <2> QED BY <1>1, <2>1, <2>2
<1> QED BY <1>2, <1>3, <1>4

(* A slot of the snapshot ring.                                            *)
LEMMA SlotType ==
    ASSUME TypeInv, NEW i \in 0..Slots - 1
    PROVE  client.slots[i].time \in Nat /\ client.slots[i].seq \in Nat
BY DEF TypeInv, Client, Slot

(* What is known of the first player's places in the snapshots under way   *)
(* and held, through the server's tick.                                    *)
LEMMA PlacesTick ==
    ASSUME TypeInv, IdsInv, CountersInv, PlacesInv, ServerTick
    PROVE  PlacesInv'
<1> DEFINE snaps == {d \in wire : d.k = "snapshot"}
           held == {i \in 0..Slots - 1 : client.slots[i].valid}
           Same(i, j) == client.slots[i].time <= client.slots[j].time
                         /\ client.slots[i].states[1] <= client.slots[j].states[1]
<1>1. /\ wire' = wire \/ wire' = wire \union {Snapshot}
      /\ server'.seq = server.seq \/ server'.seq = server.seq + 1
      /\ log'.came = log.came /\ log'.ordered = log.ordered
      /\ server.seq \in Nat
  BY ServerTickEffect DEF TypeInv, Server
<1>2. client' = client /\ world' = Stepped
  BY DEF ServerTick
<1>3. Snapshot.seq = server.seq + 1 /\ Snapshot.states = Positions(Stepped)
  BY DEF Snapshot
<1>4. snaps' \subseteq snaps \union {Snapshot} /\ held' = held
  BY <1>1, <1>2
<1>5. \A i, j : Older(i, j)' <=> Older(i, j)
  BY <1>2 DEF Older
<1>6. \A i \in held : /\ client.slots[i].time <= client.tick
                      /\ client.slots[i].seq <= server'.seq
                      /\ log.ordered => client.slots[i].seq <= log.came
  <2>1. \A i \in held : /\ client.slots[i].time <= client.tick
                        /\ client.slots[i].seq <= server.seq
                        /\ log.ordered => client.slots[i].seq <= log.came
    BY DEF PlacesInv
  <2> QED BY <1>1, <2>1, SlotType
<1>7. ASSUME 1 \in DOMAIN world'
      PROVE  /\ \A d \in snaps' : 1 \in DOMAIN d.states /\ d.states[1] <= world'[1].x
             /\ \A i \in held : /\ 1 \in DOMAIN client.slots[i].states
                                /\ client.slots[i].states[1] <= world'[1].x
             /\ \A d, e \in snaps' : d.seq <= e.seq => d.states[1] <= e.states[1]
             /\ \A i \in held, d \in snaps' :
                   client.slots[i].seq <= d.seq => client.slots[i].states[1] <= d.states[1]
             /\ log.ordered => \A i, j \in held : Older(i, j) => Same(i, j)
  <2>1. /\ 1 \in DOMAIN world /\ world[1].x <= world'[1].x
        /\ world'[1].x \in Int
        /\ 1 \in DOMAIN Snapshot.states /\ Snapshot.states[1] = world'[1].x
    BY <1>2, <1>3, <1>7, SteppedEffect DEF Avatar
  <2>2. /\ world[1].x \in Int
        /\ \A d \in snaps : d.states[1] \in Int /\ d.seq \in Nat
        /\ \A i \in held : client.slots[i].states[1] \in Int
    BY <2>1, PlacesType
  <2>3. /\ \A d \in snaps : 1 \in DOMAIN d.states /\ d.states[1] <= world[1].x
        /\ \A i \in held : /\ 1 \in DOMAIN client.slots[i].states
                           /\ client.slots[i].states[1] <= world[1].x
    BY <2>1 DEF PlacesInv
  <2>4. /\ \A d, e \in snaps : d.seq <= e.seq => d.states[1] <= e.states[1]
        /\ \A i \in held, d \in snaps :
              client.slots[i].seq <= d.seq => client.slots[i].states[1] <= d.states[1]
        /\ log.ordered => \A i, j \in held : Older(i, j) => Same(i, j)
    BY <2>1 DEF PlacesInv
  <2>5. \A d \in snaps : d.seq <= server.seq
    BY DEF CountersInv
  <2> HIDE DEF snaps, held
  <2>6. ASSUME NEW d \in snaps', NEW e \in snaps', d.seq <= e.seq
        PROVE  d.states[1] <= e.states[1]
    <3>1. CASE d \in snaps /\ e \in snaps
      BY <2>4, <2>6, <3>1
    <3>2. CASE e = Snapshot /\ d \in snaps
      BY <2>1, <2>2, <2>3, <3>2
    <3>3. CASE e = Snapshot /\ d = Snapshot
      BY <2>1, <3>3
    <3>4. CASE d = Snapshot /\ e \in snaps
      <4>1. e.seq <= server.seq /\ e.seq \in Nat /\ server.seq + 1 <= e.seq
        BY <1>3, <2>2, <2>5, <2>6, <3>4
      <4> QED BY <1>1, <4>1
    <3> QED BY <1>4, <3>1, <3>2, <3>3, <3>4
  <2>7. ASSUME NEW d \in snaps' PROVE 1 \in DOMAIN d.states /\ d.states[1] <= world'[1].x
    BY <1>4, <2>1, <2>2, <2>3
  <2>8. ASSUME NEW i \in held
        PROVE  1 \in DOMAIN client.slots[i].states /\ client.slots[i].states[1] <= world'[1].x
    BY <2>1, <2>2, <2>3
  <2>9. ASSUME NEW i \in held, NEW d \in snaps', client.slots[i].seq <= d.seq
        PROVE  client.slots[i].states[1] <= d.states[1]
    <3>1. CASE d \in snaps
      BY <2>4, <2>9, <3>1
    <3>2. CASE d = Snapshot
      BY <2>1, <2>8, <3>2
    <3> QED BY <1>4, <3>1, <3>2
  <2> QED BY <2>4, <2>6, <2>7, <2>8, <2>9
<1> HIDE DEF held, snaps
<1> QED BY <1>1, <1>2, <1>4, <1>5, <1>6, <1>7 DEF PlacesInv, held, snaps

(* The slot that is filled is the newest from then on; the order of the    *)
(* others stays.                                                           *)
LEMMA OlderPushed ==
    ASSUME NEW k \in 0..Slots - 1, client.next = k, client'.next = (k + 1) % Slots,
           NEW i \in 0..Slots - 1, NEW j \in 0..Slots - 1, Older(i, j)'
    PROVE  i # k /\ (j # k => Older(i, j))
<1>1. Slots \in Nat /\ Slots > 0
  BY Constants
<1>2. CASE k = Slots - 1
  <2>1. (k + 1) % Slots = 0
    <3>1. k + 1 = Slots * 1 + 0 /\ 0 \in 0..Slots - 1
      BY <1>1, <1>2
    <3>2. (Slots * 1 + 0) % Slots = 0
      BY <1>1, <3>1, ModUnique
    <3> QED BY <3>1, <3>2
  <2>2. client'.next = 0
    BY <2>1
  <2>3. i < j
    BY <1>1, <2>2 DEF Older
  <2> QED BY <1>1, <1>2, <2>3 DEF Older
<1>3. CASE k # Slots - 1
  <2>1. (k + 1) % Slots = k + 1
    <3>1. k + 1 = Slots * 0 + (k + 1) /\ k + 1 \in 0..Slots - 1 /\ 0 \in Int
      BY <1>1, <1>3
    <3>2. (Slots * 0 + (k + 1)) % Slots = k + 1
      BY <1>1, <3>1, ModUnique
    <3> QED BY <3>1, <3>2
  <2>2. client'.next = k + 1
    BY <2>1
  <2> QED BY <1>1, <2>2 DEF Older
<1> QED BY <1>2, <1>3

(* The same, through the receipt of a snapshot.                            *)
LEMMA PlacesReceived ==
    ASSUME TypeInv, TypeInv', CountersInv, PlacesInv, ReceiveSnapshot
    PROVE  PlacesInv'
<1>1. PICK d \in wire :
          /\ d \in SnapshotMsg
          /\ client.next \in 0..Slots - 1 /\ client'.tick = client.tick
          /\ client'.slots = [client.slots EXCEPT ![client.next] = SlotFor(d)]
          /\ client'.next = (client.next + 1) % Slots
          /\ log'.came = d.seq
          /\ log'.ordered <=> log.ordered /\ d.seq > log.came
          /\ wire' \subseteq wire \union {AckOf(d)} /\ AckOf(d) \in AckMsg
  BY ReceiveSnapshotEffect
<1> DEFINE k == client.next
           snaps == {e \in wire : e.k = "snapshot"}
           held == {i \in 0..Slots - 1 : client.slots[i].valid}
<1>2. world' = world /\ server' = server
  BY DEF ReceiveSnapshot, serverVars
<1>3. d \in snaps /\ d.seq \in Nat
  BY <1>1 DEF SnapshotMsg
<1>4. snaps' \subseteq snaps
  <2>1. AckOf(d).k # "snapshot"
    BY DEF AckOf
  <2> QED BY <1>1, <2>1
<1>5. /\ client.slots \in [0..Slots - 1 -> Slot] /\ client.tick \in Nat
      /\ server.seq \in Nat /\ log.came \in Nat
  BY DEF TypeInv, Client, Server, Log
<1>6. \A i \in 0..Slots - 1 :
          client'.slots[i] = IF i = k THEN SlotFor(d) ELSE client.slots[i]
  BY <1>1, <1>5
<1>7. /\ SlotFor(d).time = client.tick /\ SlotFor(d).seq = d.seq
      /\ SlotFor(d).states = d.states
  BY DEF SlotFor
<1>8. ASSUME NEW i \in held', i # k
      PROVE  i \in held /\ client'.slots[i] = client.slots[i]
  BY <1>6, <1>8
<1>9. \A i \in held : /\ client.slots[i].time <= client.tick
                      /\ client.slots[i].seq <= server.seq
                      /\ log.ordered => client.slots[i].seq <= log.came
  BY DEF PlacesInv
<1>10. d.seq <= server.seq
  BY <1>3 DEF CountersInv
<1>11. ASSUME NEW i \in held'
       PROVE  /\ client'.slots[i].time <= client.tick
              /\ client'.slots[i].seq <= server.seq
              /\ log'.ordered => client'.slots[i].seq <= d.seq
  <2>1. CASE i = k
    BY <1>1, <1>3, <1>5, <1>6, <1>7, <1>10, <2>1
  <2>2. CASE i # k
    <3>1. i \in held /\ client'.slots[i] = client.slots[i] /\ client.slots[i].seq \in Nat
      BY <1>8, <2>2, SlotType
    <3>2. log'.ordered => client.slots[i].seq <= log.came /\ log.came < d.seq
      BY <1>1, <1>9, <3>1
    <3> QED BY <1>3, <1>5, <1>9, <3>1, <3>2
  <2> QED BY <2>1, <2>2
<1>12. ASSUME 1 \in DOMAIN world
       PROVE  /\ \A e \in snaps : 1 \in DOMAIN e.states /\ e.states[1] <= world[1].x
              /\ \A i \in held' : /\ 1 \in DOMAIN client'.slots[i].states
                                  /\ client'.slots[i].states[1] <= world[1].x
              /\ \A e, f \in snaps : e.seq <= f.seq => e.states[1] <= f.states[1]
              /\ \A i \in held', e \in snaps :
                    client'.slots[i].seq <= e.seq => client'.slots[i].states[1] <= e.states[1]
              /\ log'.ordered =>
                    \A i, j \in held' : Older(i, j)' =>
                        /\ client'.slots[i].time <= client'.slots[j].time
                        /\ client'.slots[i].states[1] <= client'.slots[j].states[1]
  <2>1. /\ \A e \in snaps : 1 \in DOMAIN e.states /\ e.states[1] <= world[1].x
        /\ \A i \in held : /\ 1 \in DOMAIN client.slots[i].states
                           /\ client.slots[i].states[1] <= world[1].x
        /\ \A e, f \in snaps : e.seq <= f.seq => e.states[1] <= f.states[1]
        /\ \A i \in held, e \in snaps :
              client.slots[i].seq <= e.seq => client.slots[i].states[1] <= e.states[1]
    BY <1>12 DEF PlacesInv
  <2>2. log.ordered =>
            \A i, j \in held : Older(i, j) =>
                /\ client.slots[i].time <= client.slots[j].time
                /\ client.slots[i].states[1] <= client.slots[j].states[1]
    BY <1>12 DEF PlacesInv
  <2> HIDE DEF held, snaps
  <2>3. ASSUME NEW i \in held'
        PROVE  /\ 1 \in DOMAIN client'.slots[i].states
               /\ client'.slots[i].states[1] <= world[1].x
    <3>1. CASE i = k
      BY <1>1, <1>3, <1>6, <1>7, <2>1, <3>1
    <3>2. CASE i # k
      BY <1>8, <2>1, <3>2
    <3> QED BY <3>1, <3>2
  <2>4. ASSUME NEW i \in held', NEW e \in snaps, client'.slots[i].seq <= e.seq
        PROVE  client'.slots[i].states[1] <= e.states[1]
    <3>1. CASE i = k
      BY <1>1, <1>3, <1>6, <1>7, <2>1, <2>4, <3>1
    <3>2. CASE i # k
      BY <1>8, <2>1, <2>4, <3>2
    <3> QED BY <3>1, <3>2
  <2>5. ASSUME log'.ordered, NEW i \in held', NEW j \in held', Older(i, j)'
        PROVE  /\ client'.slots[i].time <= client'.slots[j].time
               /\ client'.slots[i].states[1] <= client'.slots[j].states[1]
    <3>1. i \in 0..Slots - 1 /\ j \in 0..Slots - 1
      BY DEF held
    <3>2. i # k /\ (j # k => Older(i, j))
      BY <1>1, <2>5, <3>1, OlderPushed
    <3>3. i \in held /\ client'.slots[i] = client.slots[i]
      BY <1>8, <3>2
    <3>4. CASE j = k
      <4>1. client'.slots[j].time = client.tick /\ client'.slots[j].states = d.states
        BY <1>1, <1>6, <1>7, <3>4
      <4>2. client.slots[i].seq <= log.came /\ log.came < d.seq /\ client.slots[i].seq \in Nat
        BY <1>1, <1>9, <2>5, <3>1, <3>3, SlotType
      <4>3. client.slots[i].seq <= d.seq
        BY <1>3, <1>5, <4>2
      <4> QED BY <1>3, <1>9, <2>1, <3>3, <4>1, <4>3
    <3>5. CASE j # k
      <4>1. j \in held /\ client'.slots[j] = client.slots[j]
        BY <1>8, <3>5
      <4> QED BY <1>1, <2>2, <2>5, <3>2, <3>3, <3>5, <4>1
    <3> QED BY <3>4, <3>5
  <2> QED BY <2>1, <2>3, <2>4, <2>5
<1>13. /\ \A i \in held' : /\ client'.slots[i].time <= client'.tick
                           /\ client'.slots[i].seq <= server'.seq
                           /\ log'.ordered => client'.slots[i].seq <= log'.came
  BY <1>1, <1>2, <1>11
<1> HIDE DEF held, snaps
<1> QED BY <1>2, <1>4, <1>12, <1>13 DEF PlacesInv, held, snaps

(***************************************************************************)
(* The counters.                                                           *)
(***************************************************************************)
LEMMA CountersTick ==
    ASSUME TypeInv, IdsInv, CountersInv, ServerTick
    PROVE  CountersInv'
<1>1. /\ server.tick \in Nat /\ server.acc \in Nat /\ server.seq \in Nat /\ server.acked \in Nat
      /\ log.at \in Seq(States) /\ log.came \in Nat
  BY DEF TypeInv, Server, Log
<1>2. client' = client
  BY DEF ServerTick
<1>3. /\ server'.tick = server.tick + 1
      /\ server'.seq = server.seq \/ server'.seq = server.seq + 1
      /\ server'.acked = server.acked
      /\ log'.at = Append(log.at, Positions(Stepped))
      /\ log'.inputs = log.inputs /\ log'.preds = log.preds /\ log'.came = log.came
  BY ServerTickEffect
<1>4. server'.acc < SnapshotEvery
  BY <1>1, ServerTickEffect, Constants DEF Due
<1>5. Len(log'.at) = Len(log.at) + 1
  BY <1>1, <1>3
<1>6. ASSUME NEW d \in wire', d.k \in {"snapshot", "ack"} PROVE d.seq <= server'.seq
  <2>1. CASE d \in wire
    <3>1. d.seq <= server.seq
      BY <1>6, <2>1 DEF CountersInv
    <3>2. d.seq \in Nat
      BY <1>6, <2>1, Kinds DEF SnapshotMsg, AckMsg
    <3> QED BY <1>1, <1>3, <3>1, <3>2
  <2>2. CASE Due /\ d = Snapshot
    <3>1. d.seq = server.seq + 1 /\ server'.seq = server.seq + 1
      BY <2>2, ServerTickEffect DEF Snapshot
    <3> QED BY <1>1, <3>1
  <2> QED BY <2>1, <2>2, ServerTickEffect
<1>7. server'.acked <= server'.seq /\ log'.came <= server'.seq
  <2>1. server.acked <= server.seq /\ log.came <= server.seq
    BY DEF CountersInv
  <2> QED BY <1>1, <1>3, <2>1
<1> QED BY <1>2, <1>3, <1>4, <1>5, <1>6, <1>7 DEF CountersInv

(* The counters through the client's tick.                                 *)
LEMMA CountersClient ==
    ASSUME TypeInv, CountersInv, NEW dx \in {0, 1}, ClientTick(dx)
    PROVE  CountersInv'
<1> DEFINE d == [k |-> "inputs", msgs |-> FlushInputMessages(client')]
<1>1. /\ client.tick \in Nat /\ log.inputs \in Seq(Input) /\ log.preds \in Seq(Int)
  BY DEF TypeInv, Client, Log
<1>2. server' = server
  BY DEF ClientTick, serverVars
<1>3. /\ client'.tick = client.tick + 1 /\ client'.count = client.count + 1
      /\ client'.head = client.head + 1
      /\ wire' = wire \/ wire' = wire \union {d}
  BY ClientTickEffect, SentEffect
<1>4. /\ log'.at = log.at /\ log'.came = log.came
      /\ Len(log'.inputs) = Len(log.inputs) + 1 /\ Len(log'.preds) = Len(log.preds) + 1
  BY <1>1, ClientTickLog
<1>5. d.k \notin {"snapshot", "ack"}
  OBVIOUS
<1> HIDE DEF d
<1>6. \A e \in wire' : e.k \in {"snapshot", "ack"} => e \in wire
  BY <1>3, <1>5
<1> QED BY <1>2, <1>3, <1>4, <1>6 DEF CountersInv

(* The counters through an acknowledgement, late or not.                   *)
LEMMA CountersAck ==
    ASSUME TypeInv, CountersInv, AcknowledgeSnapshot
    PROVE  CountersInv'
<1>1. PICK d \in wire :
          /\ d.k = "ack" /\ Received(d)
          /\ server' = [server EXCEPT !.acked = IF d.seq > server.acked THEN d.seq ELSE server.acked]
  BY DEF AcknowledgeSnapshot
<1>2. /\ server'.tick = server.tick /\ server'.seq = server.seq /\ server'.acc = server.acc
      /\ server'.acked \in {d.seq, server.acked} /\ wire' \subseteq wire
  BY <1>1, AcknowledgeEffect
<1>3. client' = client /\ log' = log
  BY DEF AcknowledgeSnapshot
<1> QED BY <1>1, <1>2, <1>3 DEF CountersInv

(* The counters through the receipt of a snapshot.                         *)
LEMMA CountersReceived ==
    ASSUME TypeInv, CountersInv, ReceiveSnapshot
    PROVE  CountersInv'
<1>1. PICK d \in wire :
          /\ d \in SnapshotMsg
          /\ client'.tick = client.tick /\ client'.count = client.count
          /\ client'.head = client.head
          /\ log'.at = log.at /\ log'.inputs = log.inputs
          /\ log'.preds = log.preds /\ log'.came = d.seq
          /\ wire' \subseteq wire \union {AckOf(d)}
  BY ReceiveSnapshotEffect
<1>2. server' = server
  BY DEF ReceiveSnapshot, serverVars
<1>3. d.seq <= server.seq
  BY <1>1 DEF CountersInv, SnapshotMsg
<1>4. AckOf(d).seq = d.seq
  BY DEF AckOf
<1>5. \A e \in wire' : e.k \in {"snapshot", "ack"} => e.seq <= server.seq
  BY <1>1, <1>3, <1>4 DEF CountersInv
<1> QED BY <1>1, <1>2, <1>3, <1>5 DEF CountersInv

(***************************************************************************)
(* Each action keeps the invariant.                                        *)
(***************************************************************************)
LEMMA IdsFrame ==
    ASSUME IdsInv, world' = world, ids' = ids, registry' = registry
    PROVE  IdsInv'
BY DEF IdsInv

(* The invariant through each action, from what the action does to each    *)
(* part.                                                                   *)
LEMMA JoinStep ==
    ASSUME NetplayInv, NEW team \in {1, 2}, Join(team)
    PROVE  NetplayInv'
<1>1. TypeInv /\ IdsInv
  BY DEF NetplayInv
<1>2. TypeInv' /\ IdsInv'
  BY <1>1, JoinTypes, JoinIds
<1>3. UNCHANGED <<server, history, client, wire>> /\ log' = Moved(log)
  BY DEF Join
<1>4. /\ log'.at = log.at /\ log'.inputs = log.inputs /\ log'.preds = log.preds
      /\ log'.came = log.came /\ log'.ordered = log.ordered
  BY <1>1, <1>3, LogMoved
<1>5. 1 \in DOMAIN world' => 1 \in DOMAIN world /\ world[1].x <= world'[1].x
  <2>1. /\ DOMAIN world' = DOMAIN world \union {made + 1} /\ made + 1 # 1
        /\ \A o \in DOMAIN world : world'[o] = world[o]
    BY <1>1, JoinEffect DEF TypeInv
  <2>2. 1 \in DOMAIN world => world[1].x \in Int
    BY <1>1 DEF TypeInv, Avatar
  <2> QED BY <2>1, <2>2
<1>6. client.tick \in Nat /\ server.seq \in Nat
  BY <1>1 DEF TypeInv, Client, Server
<1>7. PlacesInv'
  BY <1>1, <1>2, <1>3, <1>4, <1>5, <1>6, PlacesFrame DEF NetplayInv
<1>8. HistoryInv' /\ PredictionInv'
  BY <1>3, <1>4, HistoryFrame, PredictionFrame DEF NetplayInv
<1>9. InputsInv' /\ UpdatesInv' /\ CountersInv'
  BY <1>3, <1>4, InputsFrame, UpdatesFrame, CountersFrame DEF NetplayInv
<1> QED BY <1>2, <1>7, <1>8, <1>9 DEF NetplayInv

LEMMA LeaveStep ==
    ASSUME NetplayInv, NEW e \in 1..made, Leave(e)
    PROVE  NetplayInv'
<1>1. TypeInv /\ IdsInv
  BY DEF NetplayInv
<1>2. TypeInv' /\ IdsInv'
  BY <1>1, LeaveTypes, LeaveIds
<1>3. /\ UNCHANGED <<server, history, client, wire>> /\ log' = Moved(log)
      /\ world' = [o \in DOMAIN world \ {e} |-> world[o]]
  BY DEF Leave
<1>4. /\ log'.at = log.at /\ log'.inputs = log.inputs /\ log'.preds = log.preds
      /\ log'.came = log.came /\ log'.ordered = log.ordered
  BY <1>1, <1>3, LogMoved
<1>5. 1 \in DOMAIN world' => 1 \in DOMAIN world /\ world[1].x <= world'[1].x
  <2>1. 1 \in DOMAIN world => world[1].x \in Int
    BY <1>1 DEF TypeInv, Avatar
  <2> QED BY <1>3, <2>1
<1>6. client.tick \in Nat /\ server.seq \in Nat
  BY <1>1 DEF TypeInv, Client, Server
<1>7. PlacesInv'
  BY <1>1, <1>2, <1>3, <1>4, <1>5, <1>6, PlacesFrame DEF NetplayInv
<1>8. HistoryInv' /\ PredictionInv'
  BY <1>3, <1>4, HistoryFrame, PredictionFrame DEF NetplayInv
<1>9. InputsInv' /\ UpdatesInv' /\ CountersInv'
  BY <1>3, <1>4, InputsFrame, UpdatesFrame, CountersFrame DEF NetplayInv
<1> QED BY <1>2, <1>7, <1>8, <1>9 DEF NetplayInv

LEMMA ServerTickStep ==
    ASSUME NetplayInv, ServerTick
    PROVE  NetplayInv'
<1>1. TypeInv /\ IdsInv /\ CountersInv /\ HistoryInv /\ PlacesInv
  BY DEF NetplayInv
<1>2. TypeInv' /\ IdsInv'
  BY <1>1, ServerTickTypes
<1>3. CountersInv' /\ HistoryInv' /\ PlacesInv'
  BY <1>1, CountersTick, HistoryTick, PlacesTick
<1>4. client' = client
  BY DEF ServerTick
<1>5. /\ server'.input = server.input /\ server'.sendSeq = server.sendSeq
      /\ log'.inputs = log.inputs /\ log'.preds = log.preds
      /\ wire' \subseteq wire \union {Snapshot}
  BY <1>1, ServerTickEffect
<1>6. \A d \in wire' : d.k \in {"inputs", "update"} => d \in wire
  BY <1>5 DEF Snapshot
<1>7. PredictionInv' /\ InputsInv' /\ UpdatesInv'
  BY <1>4, <1>5, <1>6, PredictionFrame, InputsFrame, UpdatesFrame DEF NetplayInv
<1> QED BY <1>2, <1>3, <1>7 DEF NetplayInv

LEMMA SendUpdateStep ==
    ASSUME NetplayInv, NEW n \in 1..MaxEntities, SendUpdate(n)
    PROVE  NetplayInv'
<1>1. TypeInv /\ UpdatesInv
  BY DEF NetplayInv
<1>2. TypeInv' /\ UpdatesInv'
  BY <1>1, SendUpdateTypes, UpdatesSent
<1>3. UNCHANGED <<world, made, ids, registry, history, client>> /\ log' = Moved(log)
  BY DEF SendUpdate
<1>4. /\ log'.at = log.at /\ log'.inputs = log.inputs /\ log'.preds = log.preds
      /\ log'.came = log.came /\ log'.ordered = log.ordered
  BY <1>1, <1>3, LogMoved
<1>5. /\ server'.tick = server.tick /\ server'.seq = server.seq
      /\ server'.acc = server.acc /\ server'.acked = server.acked
      /\ server'.input = server.input /\ wire' \subseteq wire \union {UpdateOf(n)}
  BY <1>1, SendUpdateEffect
<1>6. \A d \in wire' : d.k \in {"inputs", "snapshot", "ack"} => d \in wire
  BY <1>5 DEF UpdateOf
<1>7. IdsInv' /\ HistoryInv' /\ PredictionInv' /\ InputsInv'
  BY <1>3, <1>4, <1>5, <1>6, IdsFrame, HistoryFrame, PredictionFrame, InputsFrame DEF NetplayInv
<1>8. CountersInv'
  BY <1>3, <1>4, <1>5, <1>6, CountersFrame DEF NetplayInv
<1>9. client.tick \in Nat /\ server.seq \in Nat /\ (1 \in DOMAIN world => world[1].x \in Int)
  BY <1>1 DEF TypeInv, Client, Server, Avatar
<1>10. PlacesInv'
  BY <1>1, <1>2, <1>3, <1>4, <1>5, <1>6, <1>9, PlacesFrame DEF NetplayInv
<1> QED BY <1>2, <1>7, <1>8, <1>10 DEF NetplayInv

LEMMA ReceiveInputsStep ==
    ASSUME NetplayInv, ReceiveInputs
    PROVE  NetplayInv'
<1>1. TypeInv /\ InputsInv
  BY DEF NetplayInv
<1>2. TypeInv'
  BY <1>1, ServerReceivesTypes
<1>3. PICK d \in wire : /\ d.k = "inputs" /\ Received(d)
                        /\ server' = [server EXCEPT !.input = Last(d.msgs)]
  BY DEF ReceiveInputs
<1>4. UNCHANGED <<world, made, ids, registry, history, client, log>>
  BY DEF ReceiveInputs
<1>5. /\ server'.tick = server.tick /\ server'.seq = server.seq
      /\ server'.acc = server.acc /\ server'.acked = server.acked
      /\ server'.sendSeq = server.sendSeq
      /\ \E i \in DOMAIN d.msgs : server'.input = d.msgs[i]
      /\ wire' \subseteq wire
  BY <1>1, <1>3, ReceiveInputsEffect
<1>6. InputsInv'
  <2>1. server'.input \in Range(log.inputs)
    BY <1>1, <1>3, <1>5 DEF InputsInv
  <2> QED BY <1>1, <1>4, <1>5, <2>1 DEF InputsInv
<1>7. IdsInv' /\ HistoryInv' /\ PredictionInv' /\ UpdatesInv'
  BY <1>4, <1>5, IdsFrame, HistoryFrame, PredictionFrame, UpdatesFrame DEF NetplayInv
<1>8. CountersInv'
  BY <1>4, <1>5, CountersFrame DEF NetplayInv
<1>9. client.tick \in Nat /\ server.seq \in Nat /\ (1 \in DOMAIN world => world[1].x \in Int)
  BY <1>1 DEF TypeInv, Client, Server, Avatar
<1>10. PlacesInv'
  BY <1>1, <1>2, <1>4, <1>5, <1>9, PlacesFrame DEF NetplayInv
<1> QED BY <1>2, <1>6, <1>7, <1>8, <1>10 DEF NetplayInv

LEMMA AcknowledgeStep ==
    ASSUME NetplayInv, AcknowledgeSnapshot
    PROVE  NetplayInv'
<1>1. TypeInv /\ CountersInv
  BY DEF NetplayInv
<1>2. TypeInv' /\ CountersInv'
  BY <1>1, ServerReceivesTypes, CountersAck
<1>3. PICK d \in wire :
          /\ d.k = "ack" /\ Received(d)
          /\ server' = [server EXCEPT !.acked = IF d.seq > server.acked THEN d.seq ELSE server.acked]
  BY DEF AcknowledgeSnapshot
<1>4. UNCHANGED <<world, made, ids, registry, history, client, log>>
  BY DEF AcknowledgeSnapshot
<1>5. /\ server'.tick = server.tick /\ server'.seq = server.seq
      /\ server'.input = server.input /\ server'.sendSeq = server.sendSeq
      /\ wire' \subseteq wire
  BY <1>1, <1>3, AcknowledgeEffect
<1>6. IdsInv' /\ HistoryInv' /\ PredictionInv' /\ InputsInv' /\ UpdatesInv'
  BY <1>4, <1>5, IdsFrame, HistoryFrame, PredictionFrame, InputsFrame, UpdatesFrame
  DEF NetplayInv
<1>7. client.tick \in Nat /\ server.seq \in Nat /\ (1 \in DOMAIN world => world[1].x \in Int)
  BY <1>1 DEF TypeInv, Client, Server, Avatar
<1>8. PlacesInv'
  BY <1>1, <1>2, <1>4, <1>5, <1>7, PlacesFrame DEF NetplayInv
<1> QED BY <1>2, <1>6, <1>8 DEF NetplayInv

LEMMA ClientTickStep ==
    ASSUME NetplayInv, NEW dx \in {0, 1}, ClientTick(dx)
    PROVE  NetplayInv'
<1> DEFINE d == [k |-> "inputs", msgs |-> FlushInputMessages(client')]
<1>1. TypeInv /\ CountersInv /\ PredictionInv /\ InputsInv
  BY DEF NetplayInv
<1>2. TypeInv' /\ CountersInv' /\ PredictionInv'
  BY <1>1, ClientTickTypes, CountersClient, PredictionTick
<1>3. InputsInv'
  BY <1>1, <1>2, InputsTick
<1>4. UNCHANGED <<world, made, ids, registry, server, history>>
  BY DEF ClientTick, serverVars
<1>5. /\ client'.tick = client.tick + 1 /\ client'.slots = client.slots
      /\ client'.next = client.next /\ client'.applied = client.applied
      /\ wire' = wire \/ wire' = wire \union {d}
  BY <1>1, ClientTickEffect, SentEffect
<1>6. log'.at = log.at /\ log'.came = log.came /\ log'.ordered = log.ordered
  BY <1>1, ClientTickLog
<1>7. d.k \notin {"snapshot", "update"}
  OBVIOUS
<1> HIDE DEF d
<1>8. \A e \in wire' : e.k \in {"snapshot", "update"} => e \in wire
  BY <1>5, <1>7
<1>9. IdsInv' /\ HistoryInv' /\ UpdatesInv'
  BY <1>4, <1>5, <1>6, <1>8, IdsFrame, HistoryFrame, UpdatesFrame DEF NetplayInv
<1>10. client.tick <= client'.tick /\ server.seq <= server'.seq
       /\ (1 \in DOMAIN world => world[1].x \in Int)
  BY <1>1, <1>4, <1>5 DEF TypeInv, Client, Server, Avatar
<1>11. PlacesInv'
  BY <1>1, <1>2, <1>4, <1>5, <1>6, <1>8, <1>10, PlacesFrame DEF NetplayInv
<1> QED BY <1>2, <1>3, <1>9, <1>11 DEF NetplayInv

LEMMA ReceiveSnapshotStep ==
    ASSUME NetplayInv, ReceiveSnapshot
    PROVE  NetplayInv'
<1>1. TypeInv /\ CountersInv /\ PlacesInv
  BY DEF NetplayInv
<1>2. TypeInv' /\ CountersInv'
  BY <1>1, ReceiveSnapshotTypes, CountersReceived
<1>3. PlacesInv'
  BY <1>1, <1>2, PlacesReceived
<1>4. UNCHANGED <<world, made, ids, registry, server, history>>
  BY DEF ReceiveSnapshot, serverVars
<1>5. PICK d \in wire :
          /\ client'.tick = client.tick /\ client'.inputs = client.inputs
          /\ client'.preds = client.preds /\ client'.applied = client.applied
          /\ log'.at = log.at /\ log'.inputs = log.inputs /\ log'.preds = log.preds
          /\ wire' \subseteq wire \union {AckOf(d)}
  BY <1>1, ReceiveSnapshotEffect
<1>6. \A e \in wire' : e.k \in {"inputs", "update"} => e \in wire
  BY <1>5 DEF AckOf
<1>7. IdsInv' /\ HistoryInv' /\ PredictionInv' /\ InputsInv' /\ UpdatesInv'
  BY <1>4, <1>5, <1>6, IdsFrame, HistoryFrame, PredictionFrame, InputsFrame, UpdatesFrame
  DEF NetplayInv
<1> QED BY <1>2, <1>3, <1>7 DEF NetplayInv

LEMMA PollUpdateStep ==
    ASSUME NetplayInv, PollUpdate
    PROVE  NetplayInv'
<1>1. TypeInv /\ UpdatesInv
  BY DEF NetplayInv
<1>2. TypeInv' /\ UpdatesInv'
  BY <1>1, PollUpdateTypes, UpdatesPolled
<1>3. UNCHANGED <<world, made, ids, registry, server, history, log>>
  BY DEF PollUpdate, serverVars
<1>4. /\ client'.tick = client.tick /\ client'.count = client.count
      /\ client'.inputs = client.inputs /\ client'.preds = client.preds
      /\ client'.head = client.head /\ client'.slots = client.slots
      /\ client'.next = client.next /\ wire' \subseteq wire
  BY <1>1, PollUpdateEffect
<1>5. IdsInv' /\ HistoryInv' /\ PredictionInv' /\ InputsInv'
  BY <1>3, <1>4, IdsFrame, HistoryFrame, PredictionFrame, InputsFrame DEF NetplayInv
<1>6. CountersInv'
  BY <1>3, <1>4, CountersFrame DEF NetplayInv
<1>7. client.tick \in Nat /\ server.seq \in Nat /\ (1 \in DOMAIN world => world[1].x \in Int)
  BY <1>1 DEF TypeInv, Client, Server, Avatar
<1>8. PlacesInv'
  BY <1>1, <1>2, <1>3, <1>4, <1>7, PlacesFrame DEF NetplayInv
<1> QED BY <1>2, <1>5, <1>6, <1>8 DEF NetplayInv

(* The invariant speaks of nothing but the variables.                      *)
LEMMA StutterStep ==
    ASSUME NetplayInv, UNCHANGED vars
    PROVE  NetplayInv'
<1>1. UNCHANGED <<world, made, ids, registry, server, history, client, wire, log>>
  BY DEF vars
<1>2. TypeInv' /\ IdsInv' /\ HistoryInv' /\ PredictionInv' /\ InputsInv' /\ UpdatesInv'
  BY <1>1, IdsFrame, HistoryFrame, PredictionFrame, InputsFrame, UpdatesFrame
  DEF NetplayInv, TypeInv
<1>3. CountersInv'
  BY <1>1, CountersFrame DEF NetplayInv
<1>4. client.tick \in Nat /\ server.seq \in Nat /\ (1 \in DOMAIN world => world[1].x \in Int)
  BY DEF NetplayInv, TypeInv, Client, Server, Avatar
<1>5. PlacesInv'
  BY <1>1, <1>2, <1>4, PlacesFrame DEF NetplayInv
<1> QED BY <1>2, <1>3, <1>5 DEF NetplayInv

(* Every step keeps the invariant.                                         *)
LEMMA NetplayStep ==
    ASSUME NetplayInv, [Next]_vars
    PROVE  NetplayInv'
<1>1. ASSUME NEW team \in {1, 2}, Join(team) PROVE NetplayInv'
  BY <1>1, JoinStep
<1>2. ASSUME NEW e \in 1..made, Leave(e) PROVE NetplayInv'
  BY <1>2, LeaveStep
<1>3. CASE ServerTick
  BY <1>3, ServerTickStep
<1>4. ASSUME NEW n \in 1..MaxEntities, SendUpdate(n) PROVE NetplayInv'
  BY <1>4, SendUpdateStep
<1>5. CASE ReceiveInputs
  BY <1>5, ReceiveInputsStep
<1>6. CASE AcknowledgeSnapshot
  BY <1>6, AcknowledgeStep
<1>7. ASSUME NEW dx \in {0, 1}, ClientTick(dx) PROVE NetplayInv'
  BY <1>7, ClientTickStep
<1>8. CASE ReceiveSnapshot
  BY <1>8, ReceiveSnapshotStep
<1>9. CASE PollUpdate
  BY <1>9, PollUpdateStep
<1>10. CASE UNCHANGED vars
  BY <1>10, StutterStep
<1> QED BY <1>1, <1>2, <1>3, <1>4, <1>5, <1>6, <1>7, <1>8, <1>9, <1>10 DEF Next

(* The ids, the rings, the inputs, the updates and the places of a match   *)
(* hang together in every state: the invariant the theorems rest on.       *)
THEOREM NetplayInductive == Spec => []NetplayInv
<1>1. Init => NetplayInv
  BY InitInv
<1>2. NetplayInv /\ [Next]_vars => NetplayInv'
  BY NetplayStep
<1> QED BY <1>1, <1>2, PTL DEF Spec

(* A net id of the registry is that of one living entity and is not free   *)
(* to be given to another, whatever players join and leave                 *)
(* (NetworkIdAllocator, NetworkRegistry).                                  *)
THEOREM IdsAreUnique == Spec => []LiveIdsUnique
<1>1. NetplayInv => LiveIdsUnique
  <2> SUFFICES ASSUME NetplayInv PROVE LiveIdsUnique
    OBVIOUS
  <2>1. TypeInv /\ IdsInv /\ CountersInv
    BY DEF NetplayInv
  <2>2. server.acc \in Nat /\ client.next \in 0..Slots - 1
    BY <2>1 DEF TypeInv, Server, Client
  <2>3. server.acc \in 0..SnapshotEvery - 1
    BY <2>1, <2>2, Constants DEF CountersInv
  <2>4. TypeOK
    <3>1. /\ DOMAIN world \subseteq 1..made /\ made \in 0..MaxEntities
          /\ Cardinality(wire) <= MaxWire
      BY <2>1, Constants DEF TypeInv
    <3>2. /\ server.acked <= server.seq /\ server.tick = Len(log.at)
          /\ client.tick = Len(log.inputs) /\ client.head = client.tick
      BY <2>1 DEF CountersInv
    <3> QED BY <2>2, <2>3, <3>1, <3>2 DEF TypeOK
  <2> QED BY <2>1, <2>4 DEF LiveIdsUnique, IdsInv
<1> QED BY <1>1, NetplayInductive, PTL

(* The lag compensator answers for each of the latest ticks with what was  *)
(* recorded in it and for no other tick, and so does the prediction        *)
(* buffer.                                                                 *)
THEOREM RingsAnswerExactly == Spec => []RingsExact
<1>1. NetplayInv => RingsExact
  BY HistoryIsExact, PredictionIsExact DEF NetplayInv, RingsExact
<1> QED BY <1>1, NetplayInductive, PTL

(* A flush of the input ring holds the latest inputs, newest first, and    *)
(* the input the server acts on is one that the client gave                *)
(* (GameLoop::flushInputMessages, receiveInputMessage).                    *)
THEOREM InputsAreGiven == Spec => []InputsExact
<1>1. NetplayInv => InputsExact
  BY FlushLatest DEF NetplayInv, InputsExact, InputsInv
<1> QED BY <1>1, NetplayInductive, PTL

(***************************************************************************)
(* What the client shows.  The place between two snapshots lies between    *)
(* theirs, and grows with them and with the time.                          *)
(***************************************************************************)
LEMMA Product ==
    ASSUME NEW u \in Int, NEW v \in Int, u >= 0, v >= 0
    PROVE  u * v \in Int /\ u * v >= 0
OBVIOUS

(* Division rounds down: it keeps the order, also of sums.                 *)
LEMMA FloorOrder ==
    ASSUME NEW m \in Nat, m > 0, NEW a \in Int, NEW y \in Int, NEW b \in Int, NEW z \in Int,
           m * a + y <= m * b + z
    PROVE  a + y \div m <= b + z \div m
<1> DEFINE f == y \div m
           g == z \div m
<1>1. f \in Int /\ y % m \in 0..m - 1 /\ y = m * f + (y % m)
  BY DivMod
<1>2. g \in Int /\ z % m \in 0..m - 1 /\ z = m * g + (z % m)
  BY DivMod
<1> DEFINE h == (b + g) - (a + f)
<1> SUFFICES ASSUME h <= -1 PROVE FALSE
  BY <1>1, <1>2
<1> HIDE DEF f, g
<1>3. h \in Int /\ (-1) - h >= 0
  BY <1>1, <1>2
<1>4. m * h <= -m
  <2>1. m * ((-1) - h) >= 0
    BY <1>3, Product
  <2> HIDE DEF h
  <2> QED BY <1>3, <2>1
<1>5. m * h = (m * b + m * g) - (m * a + m * f)
  BY <1>1, <1>2
<1>6. m * a + m * f <= m * b + m * g + (m - 1)
  BY <1>1, <1>2
<1> HIDE DEF h
<1> QED BY <1>1, <1>2, <1>3, <1>4, <1>5, <1>6

(* Interpolation grows with either of its places.                          *)
LEMMA BetweenGrows ==
    ASSUME NEW a \in Int, NEW b \in Int, NEW c \in Int, NEW d \in Int, a <= c, b <= d,
           NEW target \in Int, NEW prev \in Int, NEW next \in Int,
           prev <= target, target < next
    PROVE  Between(a, b, target, prev, next) <= Between(c, d, target, prev, next)
<1> DEFINE k == target - prev
           m == next - prev
<1>1. k \in Int /\ k >= 0 /\ m \in Nat /\ m > 0 /\ m - k >= 0
  OBVIOUS
<1> HIDE DEF k, m
<1>2. (d - b) * k >= 0 /\ (c - a) * (m - k) >= 0
  BY <1>1, Product
<1>3. m * a + (b - a) * k <= m * c + (d - c) * k
  BY <1>1, <1>2
<1>4. (b - a) * k \in Int /\ (d - c) * k \in Int
  BY <1>1
<1>5. a + ((b - a) * k) \div m <= c + ((d - c) * k) \div m
  BY <1>1, <1>3, <1>4, FloorOrder
<1> QED BY <1>5 DEF Between, k, m

(* Between places in order, it grows with the time.                        *)
LEMMA BetweenLater ==
    ASSUME NEW a \in Int, NEW b \in Int, a <= b,
           NEW target \in Int, NEW prev \in Int, NEW next \in Int,
           prev <= target, target < next
    PROVE  Between(a, b, target, prev, next) <= Between(a, b, target + 1, prev, next)
<1> DEFINE k == target - prev
           m == next - prev
<1>1. k \in Int /\ k >= 0 /\ m \in Nat /\ m > 0 /\ (target + 1) - prev = k + 1
  OBVIOUS
<1> HIDE DEF k, m
<1>2. m * a + (b - a) * k <= m * a + (b - a) * (k + 1)
  BY <1>1
<1>3. (b - a) * k \in Int /\ (b - a) * (k + 1) \in Int
  BY <1>1
<1>4. a + ((b - a) * k) \div m <= a + ((b - a) * (k + 1)) \div m
  BY <1>1, <1>2, <1>3, FloorOrder
<1>5. Between(a, b, target, prev, next) = a + ((b - a) * k) \div m
  BY DEF Between, k, m
<1>6. Between(a, b, target + 1, prev, next) = a + ((b - a) * (k + 1)) \div m
  BY <1>1 DEF Between, m
<1> QED BY <1>4, <1>5, <1>6

(* It lies between its two places.                                         *)
LEMMA BetweenBounds ==
    ASSUME NEW a \in Int, NEW b \in Int, a <= b,
           NEW target \in Int, NEW prev \in Int, NEW next \in Int,
           prev <= target, target < next
    PROVE  /\ Between(a, b, target, prev, next) \in Int
           /\ a <= Between(a, b, target, prev, next)
           /\ Between(a, b, target, prev, next) <= b
<1> DEFINE k == target - prev
           m == next - prev
           f == ((b - a) * k) \div m
<1>1. k \in Int /\ k >= 0 /\ m \in Nat /\ m > 0 /\ m - k >= 0
  OBVIOUS
<1> HIDE DEF k, m
<1>2. (b - a) * k \in Int /\ (b - a) * k >= 0 /\ (b - a) * (m - k) >= 0
  BY <1>1, Product
<1>3. f \in Int /\ (b - a) * k = m * f + (((b - a) * k) % m)
  BY <1>1, <1>2, DivMod
<1>4. 0 \div m = 0
  <2>1. 0 \div m \in Int /\ 0 % m \in 0..m - 1 /\ 0 = m * (0 \div m) + (0 % m)
    BY <1>1, DivMod
  <2> QED BY <1>1, <2>1
<1>5. a <= a + f
  <2>1. m * a + 0 <= m * a + (b - a) * k
    BY <1>1, <1>2
  <2>2. a + 0 \div m <= a + f
    BY <1>1, <1>2, <2>1, FloorOrder
  <2> HIDE DEF f
  <2> QED BY <1>3, <1>4, <2>2
<1>6. a + f <= b
  <2>1. m * a + (b - a) * k <= m * b + 0
    BY <1>1, <1>2
  <2>2. a + f <= b + 0 \div m
    BY <1>1, <1>2, <2>1, FloorOrder
  <2> HIDE DEF f
  <2> QED BY <1>3, <1>4, <2>2
<1>7. Between(a, b, target, prev, next) = a + f
  BY DEF Between, k, m
<1> HIDE DEF f
<1> QED BY <1>3, <1>5, <1>6, <1>7

(* The entries of a ring of snapshots that are used for a time, and what   *)
(* is shown of net id 1.                                                   *)
Held(s) == {i \in 0..Slots - 1 : s[i].valid}
Before(s, target) == {i \in Held(s) : s[i].time <= target}
After(s, target) == Held(s) \ Before(s, target)
Latest(s, S, i) ==
    i \in S /\ \A j \in S : \/ s[j].time < s[i].time
                            \/ s[j].time = s[i].time /\ i <= j
Earliest(s, S, i) ==
    i \in S /\ \A j \in S : \/ s[j].time > s[i].time
                            \/ s[j].time = s[i].time /\ i <= j
Place(s, i) == s[i].states[1]
Shows(s, target, v) ==
    \E p \in Before(s, target) :
        /\ Latest(s, Before(s, target), p)
        /\ \/ After(s, target) = {} /\ v = Place(s, p)
           \/ \E q \in After(s, target) :
                 /\ Earliest(s, After(s, target), q)
                 /\ v = Between(Place(s, p), Place(s, q), target, s[p].time, s[q].time)

(* The places are numbers, and grow with the times.                        *)
InOrder(s) ==
    /\ \A i \in Held(s) : 1 \in DOMAIN s[i].states /\ Place(s, i) \in Int
    /\ \A i, j \in Held(s) : s[i].time < s[j].time => Place(s, i) <= Place(s, j)

(* The types of what the snapshot ring holds.                              *)
LEMMA HeldType ==
    ASSUME NEW s \in [0..Slots - 1 -> Slot], NEW i \in Held(s)
    PROVE  i \in 0..Slots - 1 /\ i \in Int /\ s[i].valid /\ s[i].time \in Nat
BY Constants DEF Held, Slot

(* It holds finitely many.                                                 *)
LEMMA HeldFinite ==
    ASSUME NEW s, NEW S, S \subseteq Held(s)
    PROVE  IsFiniteSet(S)
<1>1. IsFiniteSet(0..Slots - 1)
  BY Constants, FS_Interval
<1>2. S \subseteq 0..Slots - 1
  BY DEF Held
<1> QED BY <1>1, <1>2, FS_Subset

(* One of any that are held is the latest.                                 *)
LEMMA LatestExists ==
    ASSUME NEW s \in [0..Slots - 1 -> Slot], NEW S, S \subseteq Held(s), S # {}
    PROVE  \E i \in S : Latest(s, S, i)
<1> DEFINE f == [i \in S |-> s[i].time * Slots - i]
<1>1. \A i \in S : i \in 0..Slots - 1 /\ s[i].time \in Nat
  BY HeldType
<1>2. f \in [S -> Int] /\ IsFiniteSet(S)
  BY <1>1, Constants, HeldFinite
<1>3. PICK i \in S : \A j \in S : f[j] <= f[i]
  BY <1>2, FiniteMax
<1>4. ASSUME NEW j \in S
      PROVE  \/ s[j].time < s[i].time
             \/ s[j].time = s[i].time /\ i <= j
  <2> DEFINE u == s[i].time
             v == s[j].time
  <2>1. v * Slots - j <= u * Slots - i
    BY <1>3
  <2>2. u \in Nat /\ v \in Nat /\ i \in 0..Slots - 1 /\ j \in 0..Slots - 1
    BY <1>1
  <2>3. Slots \in Nat
    BY Constants
  <2> HIDE DEF u, v, f
  <2>4. CASE v > u
    <3>1. (v - u) - 1 >= 0 /\ (v - u) - 1 \in Int
      BY <2>2, <2>4
    <3>2. ((v - u) - 1) * Slots >= 0
      BY <2>3, <3>1, Product
    <3>3. v * Slots - u * Slots >= Slots
      BY <2>2, <2>3, <3>2
    <3> QED BY <2>1, <2>2, <2>3, <3>3
  <2>5. CASE v = u
    BY <2>1, <2>2, <2>3, <2>5 DEF u, v
  <2>6. CASE v < u
    BY <2>6 DEF u, v
  <2> QED BY <2>2, <2>4, <2>5, <2>6
<1> QED BY <1>4 DEF Latest

(* One of any that are held is the earliest.                               *)
LEMMA EarliestExists ==
    ASSUME NEW s \in [0..Slots - 1 -> Slot], NEW S, S \subseteq Held(s), S # {}
    PROVE  \E i \in S : Earliest(s, S, i)
<1> DEFINE f == [i \in S |-> -(s[i].time * Slots + i)]
<1>1. \A i \in S : i \in 0..Slots - 1 /\ s[i].time \in Nat
  BY HeldType
<1>2. f \in [S -> Int] /\ IsFiniteSet(S)
  BY <1>1, Constants, HeldFinite
<1>3. PICK i \in S : \A j \in S : f[j] <= f[i]
  BY <1>2, FiniteMax
<1>4. ASSUME NEW j \in S
      PROVE  \/ s[j].time > s[i].time
             \/ s[j].time = s[i].time /\ i <= j
  <2> DEFINE u == s[i].time
             v == s[j].time
  <2>1. -(v * Slots + j) <= -(u * Slots + i)
    BY <1>3
  <2>2. u \in Nat /\ v \in Nat /\ i \in 0..Slots - 1 /\ j \in 0..Slots - 1
    BY <1>1
  <2>3. Slots \in Nat
    BY Constants
  <2> HIDE DEF u, v, f
  <2>4. CASE v < u
    <3>1. (u - v) - 1 >= 0 /\ (u - v) - 1 \in Int
      BY <2>2, <2>4
    <3>2. ((u - v) - 1) * Slots >= 0
      BY <2>3, <3>1, Product
    <3>3. u * Slots - v * Slots >= Slots
      BY <2>2, <2>3, <3>2
    <3>4. v * Slots + j >= u * Slots + i
      BY <2>1, <2>2, <2>3
    <3> QED BY <2>2, <2>3, <3>3, <3>4
  <2>5. CASE v = u
    BY <2>1, <2>2, <2>3, <2>5 DEF u, v
  <2>6. CASE v > u
    BY <2>6 DEF u, v
  <2> QED BY <2>2, <2>4, <2>5, <2>6
<1> QED BY <1>4 DEF Earliest

(* What sample answers.                                                    *)
LEMMA SampleShows ==
    ASSUME NEW c \in Client, NEW now \in Int, InOrder(c.slots), Sample(c, now, 1) # Nothing
    PROVE  Shows(c.slots, now - Delay, Sample(c, now, 1)[1])
<1> DEFINE s == c.slots
           target == now - Delay
           valid == {i \in DOMAIN s : s[i].valid}
           B == {i \in valid : s[i].time <= target}
           A == valid \ B
           p == CHOOSE i \in B : \A j \in B : \/ s[j].time < s[i].time
                                              \/ s[j].time = s[i].time /\ i <= j
           q == CHOOSE i \in A : \A j \in A : \/ s[j].time > s[i].time
                                              \/ s[j].time = s[i].time /\ i <= j
<1>1. s \in [0..Slots - 1 -> Slot] /\ DOMAIN s = 0..Slots - 1
  BY DEF Client
<1>2. valid = Held(s)
  BY <1>1 DEF Held
<1>3. B = Before(s, target) /\ A = After(s, target) /\ B \subseteq Held(s) /\ A \subseteq Held(s)
  BY <1>2 DEF Before, After
<1>4. Sample(c, now, 1) =
          IF B = {} THEN Nothing
          ELSE IF 1 \notin DOMAIN s[p].states THEN Nothing
          ELSE IF A = {} THEN <<s[p].states[1]>>
          ELSE IF 1 \notin DOMAIN s[q].states THEN <<s[p].states[1]>>
          ELSE <<Between(s[p].states[1], s[q].states[1], target, s[p].time, s[q].time)>>
  BY DEF Sample
<1>5. B # {}
  BY <1>4
<1> HIDE DEF A, B
<1>6. p \in B /\ Latest(s, B, p)
  BY <1>1, <1>3, <1>5, LatestExists DEF Latest
<1>7. A # {} => q \in A /\ Earliest(s, A, q)
  BY <1>1, <1>3, EarliestExists DEF Earliest
<1> HIDE DEF p, q
<1>8. 1 \in DOMAIN s[p].states
  BY <1>3, <1>6 DEF InOrder
<1>9. CASE A = {}
  <2>1. Sample(c, now, 1) = <<s[p].states[1]>>
    BY <1>4, <1>5, <1>8, <1>9
  <2>2. Sample(c, now, 1)[1] = Place(s, p)
    BY <2>1 DEF Place
  <2> QED BY <1>3, <1>6, <1>9, <2>2 DEF Shows
<1>10. CASE A # {}
  <2>1. q \in A /\ Earliest(s, A, q)
    BY <1>7, <1>10
  <2>2. 1 \in DOMAIN s[q].states
    BY <1>3, <2>1 DEF InOrder
  <2>3. Sample(c, now, 1) =
            <<Between(s[p].states[1], s[q].states[1], target, s[p].time, s[q].time)>>
    BY <1>4, <1>5, <1>8, <1>10, <2>2
  <2>4. Sample(c, now, 1)[1] =
            Between(Place(s, p), Place(s, q), target, s[p].time, s[q].time)
    BY <2>3 DEF Place
  <2> QED BY <1>3, <1>6, <2>1, <2>4 DEF Shows
<1> QED BY <1>9, <1>10

(* The types of an entry that is held.                                     *)
LEMMA EntryFacts ==
    ASSUME NEW s \in [0..Slots - 1 -> Slot], InOrder(s), NEW i \in Held(s)
    PROVE  s[i].time \in Nat /\ i \in 0..Slots - 1 /\ i \in Int /\ Place(s, i) \in Int
BY HeldType DEF InOrder

(* Two entries in order tell places in order.                              *)
LEMMA EntryPair ==
    ASSUME NEW s \in [0..Slots - 1 -> Slot], InOrder(s), NEW target \in Int,
           NEW p \in Before(s, target), NEW q \in After(s, target)
    PROVE  /\ s[p].time \in Int /\ s[q].time \in Int
           /\ s[p].time <= target /\ target < s[q].time
           /\ Place(s, p) \in Int /\ Place(s, q) \in Int /\ Place(s, p) <= Place(s, q)
<1>1. p \in Held(s) /\ q \in Held(s) /\ s[p].time <= target /\ ~(s[q].time <= target)
  BY DEF Before, After
<1>2. /\ s[p].time \in Nat /\ s[q].time \in Nat /\ Place(s, p) \in Int /\ Place(s, q) \in Int
  BY <1>1, EntryFacts
<1>3. s[p].time < s[q].time
  BY <1>1, <1>2
<1>4. s[p].time \in Int /\ s[q].time \in Int /\ target < s[q].time
  BY <1>1, <1>2
<1> QED BY <1>1, <1>2, <1>3, <1>4 DEF InOrder

(* What is shown lies between the latest place that is due and the next.   *)
LEMMA ShownBounds ==
    ASSUME NEW s \in [0..Slots - 1 -> Slot], InOrder(s), NEW target \in Int,
           NEW p \in Before(s, target), NEW q \in After(s, target)
    PROVE  LET b == Between(Place(s, p), Place(s, q), target, s[p].time, s[q].time)
           IN  b \in Int /\ Place(s, p) <= b /\ b <= Place(s, q)
<1>1. /\ s[p].time \in Int /\ s[q].time \in Int
      /\ s[p].time <= target /\ target < s[q].time
      /\ Place(s, p) \in Int /\ Place(s, q) \in Int /\ Place(s, p) <= Place(s, q)
  BY EntryPair
<1> QED BY <1>1, BetweenBounds

(* As a tick goes by: the same pair a tick later, or the next pair.        *)
LEMMA ShownTick ==
    ASSUME NEW s \in [0..Slots - 1 -> Slot], InOrder(s), NEW target \in Int,
           NEW v, NEW w, Shows(s, target, v), Shows(s, target + 1, w)
    PROVE  v <= w
<1> DEFINE B == Before(s, target)
           A == After(s, target)
           C == Before(s, target + 1)
           D == After(s, target + 1)
<1>1. PICK p \in B :
          /\ Latest(s, B, p)
          /\ \/ A = {} /\ v = Place(s, p)
             \/ \E q \in A : /\ Earliest(s, A, q)
                             /\ v = Between(Place(s, p), Place(s, q), target, s[p].time, s[q].time)
  BY DEF Shows
<1>2. PICK r \in C :
          /\ Latest(s, C, r)
          /\ \/ D = {} /\ w = Place(s, r)
             \/ \E q \in D : /\ Earliest(s, D, q)
                             /\ w = Between(Place(s, r), Place(s, q), target + 1, s[r].time, s[q].time)
  BY DEF Shows
<1>3. \A i \in Held(s) : s[i].time \in Nat /\ i \in Int /\ Place(s, i) \in Int
  BY EntryFacts
<1>4. /\ \A i : i \in B <=> i \in Held(s) /\ s[i].time <= target
      /\ \A i : i \in A <=> i \in Held(s) /\ s[i].time > target
      /\ \A i : i \in C <=> i \in Held(s) /\ s[i].time <= target + 1
      /\ \A i : i \in D <=> i \in Held(s) /\ s[i].time > target + 1
  BY <1>3 DEF Before, After
<1>5. target + 1 \in Int
  OBVIOUS
<1>6. Place(s, r) <= w /\ w \in Int
  <2>1. CASE D = {} /\ w = Place(s, r)
    BY <1>3, <1>4, <2>1
  <2>2. ASSUME NEW q \in D,
               w = Between(Place(s, r), Place(s, q), target + 1, s[r].time, s[q].time)
        PROVE  Place(s, r) <= w /\ w \in Int
    BY <1>5, <2>2, ShownBounds
  <2> QED BY <1>2, <2>1, <2>2
<1> HIDE DEF A, B, C, D
<1>7. CASE r \in B
  <2>1. p \in C
    BY <1>3, <1>4
  <2>2. r = p
    BY <1>1, <1>2, <1>3, <1>4, <1>7, <2>1 DEF Latest
  <2>3. ASSUME NEW i \in C PROVE i \in B
    <3>1. s[i].time <= s[p].time
      BY <1>2, <1>3, <1>4, <2>2 DEF Latest
    <3> QED BY <1>3, <1>4, <3>1
  <2>4. \A i : i \in A <=> i \in D
    BY <1>3, <1>4, <2>3
  <2>5. A = D
    BY <2>4
  <2>6. CASE A = {}
    BY <1>1, <1>6, <2>2, <2>6
  <2>7. CASE A # {}
    <3>1. PICK q \in A :
              /\ Earliest(s, A, q)
              /\ v = Between(Place(s, p), Place(s, q), target, s[p].time, s[q].time)
      BY <1>1, <2>7
    <3>2. PICK u \in D :
              /\ Earliest(s, D, u)
              /\ w = Between(Place(s, r), Place(s, u), target + 1, s[r].time, s[u].time)
      BY <1>2, <2>5, <2>7
    <3>3. u = q
      BY <1>3, <1>4, <2>5, <3>1, <3>2 DEF Earliest
    <3>4. /\ s[p].time \in Int /\ s[q].time \in Int
          /\ s[p].time <= target /\ target < s[q].time
          /\ Place(s, p) \in Int /\ Place(s, q) \in Int /\ Place(s, p) <= Place(s, q)
      BY EntryPair DEF A, B
    <3> QED BY <2>2, <3>1, <3>2, <3>3, <3>4, BetweenLater
  <2> QED BY <2>6, <2>7
<1>8. CASE r \notin B
  <2>1. r \in A /\ s[r].time = target + 1
    BY <1>3, <1>4, <1>8
  <2>2. PICK q \in A :
            /\ Earliest(s, A, q)
            /\ v = Between(Place(s, p), Place(s, q), target, s[p].time, s[q].time)
    BY <1>1, <2>1
  <2>3. s[q].time = target + 1
    BY <1>3, <1>4, <2>1, <2>2 DEF Earliest
  <2>4. q \in C
    BY <1>3, <1>4, <2>3
  <2>5. q = r
    BY <1>2, <1>3, <1>4, <2>1, <2>2, <2>3, <2>4 DEF Latest, Earliest
  <2>6. v \in Int /\ v <= Place(s, q)
    BY <2>2, ShownBounds DEF A, B
  <2>7. Place(s, r) \in Int
    BY <1>3, <1>4
  <2> QED BY <1>6, <2>5, <2>6, <2>7
<1> QED BY <1>7, <1>8

(* As a snapshot comes: it is the newest, and takes the place of the       *)
(* oldest.                                                                 *)
LEMMA ShownPush ==
    ASSUME NEW s \in [0..Slots - 1 -> Slot], InOrder(s), NEW target \in Int,
           NEW k \in 0..Slots - 1, NEW z \in Slot, z.valid,
           NEW s2 \in [0..Slots - 1 -> Slot], InOrder(s2),
           \A i \in 0..Slots - 1 : s2[i] = IF i = k THEN z ELSE s[i],
           \A i \in Held(s) : s[i].time <= z.time /\ Place(s, i) <= z.states[1],
           k \in Held(s) => \A i \in Held(s) : /\ s[k].time <= s[i].time
                                               /\ Place(s, k) <= Place(s, i),
           NEW v, NEW w, Shows(s, target, v), Shows(s2, target, w)
    PROVE  v <= w
<1> DEFINE B == Before(s, target)
           A == After(s, target)
           C == Before(s2, target)
           D == After(s2, target)
<1>1. PICK p \in B :
          /\ Latest(s, B, p)
          /\ \/ A = {} /\ v = Place(s, p)
             \/ \E q \in A : /\ Earliest(s, A, q)
                             /\ v = Between(Place(s, p), Place(s, q), target, s[p].time, s[q].time)
  BY DEF Shows
<1>2. PICK r \in C :
          /\ Latest(s2, C, r)
          /\ \/ D = {} /\ w = Place(s2, r)
             \/ \E q \in D : /\ Earliest(s2, D, q)
                             /\ w = Between(Place(s2, r), Place(s2, q), target, s2[r].time, s2[q].time)
  BY DEF Shows
<1>3. \A i \in Held(s) : s[i].time \in Nat /\ i \in Int /\ Place(s, i) \in Int
  BY EntryFacts
<1>4. \A i \in Held(s2) : s2[i].time \in Nat /\ i \in Int /\ Place(s2, i) \in Int
  BY EntryFacts
<1>5. /\ \A i : i \in B <=> i \in Held(s) /\ s[i].time <= target
      /\ \A i : i \in A <=> i \in Held(s) /\ s[i].time > target
      /\ \A i : i \in C <=> i \in Held(s2) /\ s2[i].time <= target
      /\ \A i : i \in D <=> i \in Held(s2) /\ s2[i].time > target
  BY <1>3, <1>4 DEF Before, After
<1>6. /\ k \in Held(s2) /\ s2[k].time = z.time /\ Place(s2, k) = z.states[1]
      /\ \A i : i # k => (i \in Held(s2) <=> i \in Held(s))
      /\ \A i \in Held(s2) : i # k => s2[i].time = s[i].time /\ Place(s2, i) = Place(s, i)
  BY DEF Held, Place
<1>7. Place(s2, r) <= w /\ w \in Int
  <2>1. CASE D = {} /\ w = Place(s2, r)
    BY <1>4, <1>5, <2>1
  <2>2. ASSUME NEW q \in D,
               w = Between(Place(s2, r), Place(s2, q), target, s2[r].time, s2[q].time)
        PROVE  Place(s2, r) <= w /\ w \in Int
    BY <2>2, ShownBounds
  <2> QED BY <1>2, <2>1, <2>2
<1> HIDE DEF A, B, C, D
<1>8. p \in Held(s) /\ r \in Held(s2)
  BY <1>5
<1>9. CASE z.time <= target
  <2>1. k \in C /\ A = {}
    <3>1. k \in C
      BY <1>5, <1>6, <1>9
    <3>2. ASSUME NEW i \in A PROVE FALSE
      <4>1. i \in Held(s) /\ s[i].time > target
        BY <1>5
      <4>2. s[i].time <= z.time /\ z.time \in Nat /\ s[i].time \in Nat
        BY <1>3, <4>1 DEF Slot
      <4> QED BY <1>9, <4>1, <4>2
    <3> QED BY <3>1, <3>2
  <2>2. v = Place(s, p)
    BY <1>1, <2>1
  <2>3. Place(s, p) <= Place(s2, r)
    <3>1. CASE r = k
      BY <1>6, <1>8, <3>1
    <3>2. CASE r # k
      <4>1. r \in Held(s) /\ s2[r].time = s[r].time /\ Place(s2, r) = Place(s, r)
        BY <1>6, <1>8, <3>2
      <4>2. s2[k].time <= s2[r].time
        BY <1>2, <1>4, <1>6, <1>8, <2>1 DEF Latest
      <4>3. s[r].time = z.time /\ r \in B
        BY <1>3, <1>4, <1>5, <1>6, <1>8, <1>9, <4>1, <4>2
      <4>4. s[p].time = z.time /\ p <= r
        BY <1>1, <1>3, <1>4, <1>6, <1>8, <4>1, <4>3 DEF Latest
      <4>5. CASE p = k
        BY <1>8, <4>1, <4>5
      <4>6. CASE p # k
        <5>1. p \in Held(s2) /\ s2[p].time = s2[r].time /\ p \in C
          BY <1>3, <1>4, <1>5, <1>6, <1>8, <1>9, <4>1, <4>3, <4>4, <4>6
        <5>2. r <= p
          BY <1>2, <1>4, <1>8, <5>1 DEF Latest
        <5>3. r = p
          BY <1>3, <1>4, <1>8, <4>4, <5>1, <5>2
        <5> QED BY <1>3, <1>8, <4>1, <5>3
      <4> QED BY <4>5, <4>6
    <3> QED BY <3>1, <3>2
  <2> QED BY <1>3, <1>4, <1>7, <1>8, <2>2, <2>3
<1>10. CASE z.time > target
  <2>1. k \in D /\ k \notin C /\ r # k
    BY <1>4, <1>5, <1>6, <1>10
  <2>2. /\ r \in Held(s) /\ s2[r].time = s[r].time /\ Place(s2, r) = Place(s, r)
        /\ r \in B
    BY <1>5, <1>6, <1>8, <2>1
  <2>3. s2[r].time = s[p].time /\ Place(s, p) <= Place(s2, r)
    <3>1. CASE p = k
      <4>1. s[p].time <= s[r].time /\ Place(s, p) <= Place(s, r)
        BY <1>8, <2>2, <3>1
      <4>2. s[r].time <= s[p].time
        BY <1>1, <1>3, <1>8, <2>2 DEF Latest
      <4> QED BY <1>3, <1>8, <2>2, <4>1, <4>2
    <3>2. CASE p # k
      <4>1. p \in Held(s2) /\ s2[p].time = s[p].time /\ p \in C
        BY <1>5, <1>6, <1>8, <3>2
      <4>2. p = r
        BY <1>1, <1>2, <1>3, <1>4, <1>8, <2>2, <4>1 DEF Latest
      <4> QED BY <1>3, <1>8, <2>2, <4>2
    <3> QED BY <3>1, <3>2
  <2>4. CASE A = {}
    <3>1. v = Place(s, p)
      BY <1>1, <2>4
    <3> QED BY <1>3, <1>4, <1>7, <1>8, <2>3, <3>1
  <2>5. CASE A # {}
    <3>1. PICK q \in A :
              /\ Earliest(s, A, q)
              /\ v = Between(Place(s, p), Place(s, q), target, s[p].time, s[q].time)
      BY <1>1, <2>5
    <3>2. PICK u \in D :
              /\ Earliest(s2, D, u)
              /\ w = Between(Place(s2, r), Place(s2, u), target, s2[r].time, s2[u].time)
      BY <1>2, <2>1
    <3>3. q \in Held(s) /\ u \in Held(s2)
      BY <1>5
    <3>4. q # k
      <4> SUFFICES ASSUME q = k PROVE FALSE
        OBVIOUS
      <4>1. s[q].time <= s[p].time
        BY <1>8, <3>3
      <4> QED BY <1>3, <1>5, <1>8, <3>3, <4>1
    <3>5. q \in Held(s2) /\ s2[q].time = s[q].time /\ Place(s2, q) = Place(s, q) /\ q \in D
      BY <1>5, <1>6, <3>3, <3>4
    <3>6. s2[u].time = s[q].time /\ Place(s, q) <= Place(s2, u)
      <4>1. CASE u = k
        <5>1. s2[u].time <= s2[q].time
          BY <1>4, <3>2, <3>3, <3>5 DEF Earliest
        <5>2. s[q].time <= z.time /\ Place(s, q) <= z.states[1]
          BY <3>3
        <5> QED BY <1>3, <1>4, <1>6, <3>3, <3>5, <4>1, <5>1, <5>2
      <4>2. CASE u # k
        <5>1. u \in Held(s) /\ s2[u].time = s[u].time /\ u \in A
          BY <1>5, <1>6, <3>3, <4>2
        <5>2. u = q
          BY <1>3, <1>4, <3>1, <3>2, <3>3, <3>5, <5>1 DEF Earliest
        <5> QED BY <1>3, <3>3, <3>5, <5>2
      <4> QED BY <4>1, <4>2
    <3>7. /\ s[p].time \in Int /\ s[q].time \in Int
          /\ s[p].time <= target /\ target < s[q].time
          /\ Place(s, p) \in Int /\ Place(s, q) \in Int
      BY <1>3, <1>5, <1>8, <3>3
    <3>8. Place(s2, r) \in Int /\ Place(s2, u) \in Int
      BY <1>4, <1>8, <3>3
    <3>9. v <= Between(Place(s2, r), Place(s2, u), target, s[p].time, s[q].time)
      BY <2>3, <3>1, <3>6, <3>7, <3>8, BetweenGrows
    <3> QED BY <2>3, <3>2, <3>6, <3>9
  <2> QED BY <2>4, <2>5
<1>11. z.time \in Nat
  BY DEF Slot
<1> QED BY <1>9, <1>10, <1>11

(* While snapshots come in order, the ring tells the first player's places *)
(* in order.                                                               *)
LEMMA OlderTotal ==
    ASSUME TypeInv, NEW i \in 0..Slots - 1, NEW j \in 0..Slots - 1, i # j
    PROVE  Older(i, j) \/ Older(j, i)
<1>1. client.next \in 0..Slots - 1
  BY DEF TypeInv, Client
<1> QED BY <1>1, Constants DEF Older

(* While snapshots have come in order, a later one in the ring has the     *)
(* first player no further back.                                           *)
LEMMA RingInOrder ==
    ASSUME NetplayInv, log.ordered, 1 \in DOMAIN world
    PROVE  InOrder(client.slots)
<1> DEFINE s == client.slots
<1>1. TypeInv /\ PlacesInv
  BY DEF NetplayInv
<1>2. \A i \in Held(s) : i \in 0..Slots - 1 /\ s[i].valid
  BY DEF Held
<1>3. \A i \in Held(s) : 1 \in DOMAIN s[i].states /\ Place(s, i) \in Int
  BY <1>1, <1>2, PlacesType DEF PlacesInv, Place
<1>4. ASSUME NEW i \in Held(s), NEW j \in Held(s), s[i].time < s[j].time
      PROVE  Place(s, i) <= Place(s, j)
  <2>1. s[i].time \in Nat /\ s[j].time \in Nat
    BY <1>1, <1>2, SlotType
  <2>2. \A a, b \in {c \in 0..Slots - 1 : s[c].valid} : Older(a, b) =>
            s[a].time <= s[b].time /\ s[a].states[1] <= s[b].states[1]
    BY <1>1 DEF PlacesInv
  <2>3. ~Older(j, i)
    BY <1>2, <1>4, <2>1, <2>2
  <2>4. i # j
    BY <1>4, <2>1
  <2>5. Older(i, j)
    BY <1>1, <1>2, <2>3, <2>4, OlderTotal
  <2> QED BY <1>2, <2>2, <2>5 DEF Place
<1> QED BY <1>3, <1>4 DEF InOrder

(* The same of the state after a step.                                     *)
LEMMA RingStaysInOrder ==
    (NetplayInv /\ log.ordered /\ 1 \in DOMAIN world => InOrder(client.slots))'
<1>1. NetplayInv /\ log.ordered /\ 1 \in DOMAIN world => InOrder(client.slots)
  BY RingInOrder
<1> QED BY <1>1, PTL

(* As time goes on, sample() does not go back.                             *)
LEMMA TickShows ==
    ASSUME NetplayInv, NEW dx \in {0, 1}, ClientTick(dx)
    PROVE  ShownInOrder
<1> SUFFICES ASSUME log'.ordered, 1 \in DOMAIN world,
                    Sample(client, client.tick, world[1].net) # Nothing,
                    Sample(client', client'.tick, world[1].net) # Nothing
             PROVE  Sample(client, client.tick, world[1].net)[1]
                        <= Sample(client', client'.tick, world[1].net)[1]
  BY DEF ShownInOrder
<1>1. TypeInv /\ IdsInv
  BY DEF NetplayInv
<1>2. world[1].net = 1
  BY <1>1 DEF IdsInv
<1>3. log.ordered
  BY <1>1, ClientTickLog
<1>4. InOrder(client.slots)
  BY <1>3, RingInOrder
<1>5. /\ client \in Client /\ client' \in Client
      /\ client'.slots = client.slots /\ client'.tick = client.tick + 1
  BY <1>1, ClientTickEffect DEF TypeInv
<1>6. /\ client.slots \in [0..Slots - 1 -> Slot] /\ client.tick \in Int
  BY <1>5 DEF Client
<1>7. client'.tick \in Int /\ InOrder(client'.slots)
  BY <1>4, <1>5, <1>6
<1> DEFINE v == Sample(client, client.tick, 1)[1]
           w == Sample(client', client'.tick, 1)[1]
           target == client.tick - Delay
<1>8. Shows(client.slots, target, v)
  BY <1>2, <1>4, <1>5, <1>6, SampleShows
<1>9. Shows(client'.slots, client'.tick - Delay, w)
  BY <1>2, <1>5, <1>7, SampleShows
<1>10. client'.tick - Delay = target + 1 /\ target \in Int
  BY <1>5, <1>6, Constants
<1>11. Shows(client.slots, target + 1, w)
  BY <1>5, <1>9, <1>10
<1> HIDE DEF v, w, target
<1>12. v <= w
  BY <1>4, <1>6, <1>8, <1>10, <1>11, ShownTick
<1> QED BY <1>2, <1>12 DEF v, w

(* Nor when a snapshot arrives, as long as they come in order.             *)
LEMMA SnapshotShows ==
    ASSUME NetplayInv, NetplayInv', ReceiveSnapshot
    PROVE  ShownInOrder
<1> SUFFICES ASSUME log'.ordered, 1 \in DOMAIN world,
                    Sample(client, client.tick, world[1].net) # Nothing,
                    Sample(client', client'.tick, world[1].net) # Nothing
             PROVE  Sample(client, client.tick, world[1].net)[1]
                        <= Sample(client', client'.tick, world[1].net)[1]
  BY DEF ShownInOrder
<1>1. TypeInv /\ IdsInv /\ PlacesInv
  BY DEF NetplayInv
<1>2. world[1].net = 1
  BY <1>1 DEF IdsInv
<1>3. world' = world
  BY DEF ReceiveSnapshot, serverVars
<1>4. PICK d \in wire :
          /\ d \in SnapshotMsg /\ client' \in Client
          /\ client.next \in 0..Slots - 1 /\ client'.tick = client.tick
          /\ client'.slots = [client.slots EXCEPT ![client.next] = SlotFor(d)]
          /\ log'.ordered <=> log.ordered /\ d.seq > log.came
  BY <1>1, ReceiveSnapshotEffect
<1> DEFINE s == client.slots
           s2 == client'.slots
           k == client.next
           z == SlotFor(d)
           target == client.tick - Delay
           v == Sample(client, client.tick, 1)[1]
           w == Sample(client', client'.tick, 1)[1]
<1>5. log.ordered /\ d.seq > log.came
  BY <1>4
<1>6. InOrder(s)
  BY <1>5, RingInOrder
<1>7. InOrder(s2)
  <2>1. log'.ordered /\ 1 \in DOMAIN world'
    BY <1>3
  <2> QED BY <2>1, RingStaysInOrder
<1>8. /\ client \in Client /\ s \in [0..Slots - 1 -> Slot]
      /\ client.tick \in Int /\ client.tick \in Nat /\ log.came \in Nat
  BY <1>1 DEF TypeInv, Client, Log
<1>9. s2 \in [0..Slots - 1 -> Slot] /\ client'.tick \in Int
  <2>1. s2 \in [0..Slots - 1 -> Slot]
    BY <1>4 DEF Client
  <2> QED BY <1>4, <1>8, <2>1
<1>10. d.k = "snapshot" /\ d.seq \in Nat /\ d.states \in States
  BY <1>4 DEF SnapshotMsg
<1>11. z \in Slot /\ z.valid /\ z.time = client.tick /\ z.states = d.states
  BY <1>8, <1>10 DEF SlotFor, Slot
<1>12. \A i \in 0..Slots - 1 : s2[i] = IF i = k THEN z ELSE s[i]
  BY <1>4, <1>8
<1>13. ASSUME NEW i \in Held(s)
       PROVE  s[i].time <= z.time /\ Place(s, i) <= z.states[1]
  <2>1. i \in {a \in 0..Slots - 1 : client.slots[a].valid}
    BY DEF Held
  <2>2. s[i].time <= client.tick /\ s[i].seq <= log.came
    BY <1>1, <1>5, <2>1 DEF PlacesInv
  <2>3. s[i].seq \in Nat
    BY <1>1, <2>1, SlotType
  <2>4. s[i].seq <= d.seq
    BY <1>5, <1>8, <1>10, <2>2, <2>3
  <2>5. s[i].states[1] <= d.states[1]
    BY <1>1, <1>10, <2>1, <2>4 DEF PlacesInv
  <2> QED BY <1>11, <2>2, <2>5 DEF Place
<1>14. ASSUME k \in Held(s), NEW i \in Held(s)
       PROVE  s[k].time <= s[i].time /\ Place(s, k) <= Place(s, i)
  <2>1. /\ k \in {a \in 0..Slots - 1 : client.slots[a].valid}
        /\ i \in {a \in 0..Slots - 1 : client.slots[a].valid}
    BY <1>14 DEF Held
  <2>2. CASE i = k
    BY <1>6, <1>8, <1>14, <2>2, EntryFacts
  <2>3. CASE i # k
    <3>1. Older(k, i)
      BY <1>4, <2>1, <2>3, Constants DEF Older
    <3> QED BY <1>1, <1>5, <2>1, <3>1 DEF PlacesInv, Place
  <2> QED BY <2>2, <2>3
<1>15. Shows(s, target, v)
  BY <1>2, <1>6, <1>8, SampleShows
<1>16. Shows(s2, target, w)
  <2>1. Shows(s2, client'.tick - Delay, w)
    BY <1>2, <1>4, <1>7, <1>9, SampleShows
  <2> QED BY <1>4, <2>1
<1>17. target \in Int
  BY <1>8, Constants
<1> HIDE DEF s, s2, k, z, target, v, w
<1>18. v <= w
  <2>1. k \in 0..Slots - 1
    BY <1>4 DEF k
  <2> QED BY <2>1, <1>6, <1>7, <1>8, <1>9, <1>11, <1>12, <1>13, <1>14, <1>15, <1>16, <1>17, ShownPush
<1> QED BY <1>2, <1>18 DEF v, w

(* What is shown at a time is one place.                                   *)
LEMMA ShownOnce ==
    ASSUME NEW s \in [0..Slots - 1 -> Slot], InOrder(s), NEW target \in Int,
           NEW v, NEW w, Shows(s, target, v), Shows(s, target, w)
    PROVE  v <= w
<1> DEFINE B == Before(s, target)
           A == After(s, target)
           At(p, q) == Between(Place(s, p), Place(s, q), target, s[p].time, s[q].time)
<1>1. PICK p \in B :
          /\ Latest(s, B, p)
          /\ \/ A = {} /\ v = Place(s, p)
             \/ \E q \in A : Earliest(s, A, q) /\ v = At(p, q)
  BY DEF Shows
<1>2. PICK r \in B :
          /\ Latest(s, B, r)
          /\ \/ A = {} /\ w = Place(s, r)
             \/ \E q \in A : Earliest(s, A, q) /\ w = At(r, q)
  BY DEF Shows
<1>3. \A i \in Held(s) : s[i].time \in Nat /\ i \in Int /\ Place(s, i) \in Int
  BY EntryFacts
<1>4. B \subseteq Held(s) /\ A \subseteq Held(s)
  BY DEF Before, After
<1>5. \A q \in A : At(p, q) \in Int
  BY ShownBounds
<1> HIDE DEF A, B, At
<1>6. p = r
  BY <1>1, <1>2, <1>3, <1>4 DEF Latest
<1>7. CASE A = {}
  BY <1>1, <1>2, <1>3, <1>4, <1>6, <1>7
<1>8. CASE A # {}
  <2>1. PICK q \in A : Earliest(s, A, q) /\ v = At(p, q)
    BY <1>1, <1>8
  <2>2. PICK u \in A : Earliest(s, A, u) /\ w = At(r, u)
    BY <1>2, <1>8
  <2>3. q = u
    BY <1>3, <1>4, <2>1, <2>2 DEF Earliest
  <2> QED BY <1>5, <1>6, <2>1, <2>2, <2>3
<1> QED BY <1>7, <1>8

(* A step that leaves the ring and the clock shows the same.               *)
LEMMA SameShown ==
    ASSUME NetplayInv, client' \in Client, client'.slots = client.slots,
           client'.tick = client.tick, log'.ordered = log.ordered
    PROVE  ShownInOrder
<1> SUFFICES ASSUME log.ordered, 1 \in DOMAIN world,
                    Sample(client, client.tick, world[1].net) # Nothing,
                    Sample(client', client'.tick, world[1].net) # Nothing
             PROVE  Sample(client, client.tick, world[1].net)[1]
                        <= Sample(client', client'.tick, world[1].net)[1]
  BY DEF ShownInOrder
<1>1. TypeInv /\ IdsInv
  BY DEF NetplayInv
<1>2. world[1].net = 1
  BY <1>1 DEF IdsInv
<1>3. InOrder(client.slots)
  BY RingInOrder
<1>4. /\ client \in Client /\ client.tick \in Int /\ client.slots \in [0..Slots - 1 -> Slot]
  BY <1>1 DEF TypeInv, Client
<1> DEFINE v == Sample(client, client.tick, 1)[1]
           w == Sample(client', client'.tick, 1)[1]
           target == client.tick - Delay
<1>5. Shows(client.slots, target, v)
  BY <1>2, <1>3, <1>4, SampleShows
<1>6. Shows(client'.slots, client'.tick - Delay, w)
  BY <1>2, <1>3, <1>4, SampleShows
<1>7. Shows(client.slots, target, w) /\ target \in Int
  BY <1>4, <1>6, Constants
<1> HIDE DEF v, w, target
<1>8. v <= w
  BY <1>3, <1>4, <1>5, <1>7, ShownOnce
<1> QED BY <1>2, <1>8 DEF v, w

(* Where the applied updates stay, none is replaced by an older one.       *)
LEMMA SameUpdates ==
    ASSUME TypeInv, client'.applied = client.applied
    PROVE  NewestWins
<1>1. PICK S \in SUBSET Nat : client.applied \in [S -> Update]
  BY DEF TypeInv, Client
<1>2. \A n \in DOMAIN client.applied : client.applied[n].number \in Nat
  BY <1>1 DEF Update
<1> QED BY <1>2 DEF NewestWins

(* No step takes what is shown back.                                       *)
LEMMA NeverBackStep ==
    ASSUME NetplayInv, NetplayInv', [Next]_vars
    PROVE  NewestWins /\ ShownInOrder
<1>1. TypeInv /\ UpdatesInv
  BY DEF NetplayInv
<1>2. ASSUME client' = client, log'.ordered = log.ordered PROVE NewestWins /\ ShownInOrder
  BY <1>1, <1>2, SameShown, SameUpdates DEF TypeInv
<1>3. ASSUME client' = client, log' = Moved(log) \/ log' = log
      PROVE  NewestWins /\ ShownInOrder
  BY <1>1, <1>2, <1>3, LogMoved
<1>4. ASSUME NEW team \in {1, 2}, Join(team) PROVE NewestWins /\ ShownInOrder
  BY <1>3, <1>4 DEF Join
<1>5. ASSUME NEW e \in 1..made, Leave(e) PROVE NewestWins /\ ShownInOrder
  BY <1>3, <1>5 DEF Leave
<1>6. CASE ServerTick
  <2>1. IdsInv
    BY DEF NetplayInv
  <2>2. client' = client /\ log'.ordered = log.ordered
    BY <1>1, <1>6, <2>1, ServerTickEffect DEF ServerTick
  <2> QED BY <1>2, <2>2
<1>7. ASSUME NEW n \in 1..MaxEntities, SendUpdate(n) PROVE NewestWins /\ ShownInOrder
  BY <1>3, <1>7 DEF SendUpdate
<1>8. CASE ReceiveInputs \/ AcknowledgeSnapshot
  BY <1>3, <1>8 DEF ReceiveInputs, AcknowledgeSnapshot
<1>9. ASSUME NEW dx \in {0, 1}, ClientTick(dx) PROVE NewestWins /\ ShownInOrder
  BY <1>1, <1>9, TickShows, ClientTickEffect, SameUpdates
<1>10. CASE ReceiveSnapshot
  <2>1. client'.applied = client.applied
    BY <1>1, <1>10, ReceiveSnapshotEffect
  <2> QED BY <1>1, <1>10, <2>1, SnapshotShows, SameUpdates
<1>11. CASE PollUpdate
  <2>1. client' \in Client /\ client'.slots = client.slots /\ client'.tick = client.tick
    BY <1>1, <1>11, PollUpdateEffect
  <2>2. log' = log
    BY <1>11 DEF PollUpdate
  <2> QED BY <1>1, <1>11, <2>1, <2>2, PolledIsNewer, SameShown
<1>12. CASE UNCHANGED vars
  BY <1>3, <1>12 DEF vars
<1> QED BY <1>4, <1>5, <1>6, <1>7, <1>8, <1>9, <1>10, <1>11, <1>12 DEF Next

(* What the client shows never turns back: an update is not replaced by an *)
(* older one (UnreliableOrderedChannel), for every sequence space, and     *)
(* while snapshots come in order the first player is not shown to go back  *)
(* (SnapshotBuffer), for every ring and delay.                             *)
THEOREM ClientNeverGoesBack == Spec => NeverGoesBack
<1>1. NetplayInv /\ NetplayInv' /\ [Next]_vars => [NewestWins /\ ShownInOrder]_vars
  BY NeverBackStep
<1> QED BY <1>1, NetplayInductive, PTL DEF Spec, NeverGoesBack
==============================================================================
