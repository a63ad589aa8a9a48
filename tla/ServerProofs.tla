----------------------------- MODULE ServerProofs -----------------------------
(***************************************************************************)
(* Proofs about what a game server must not get wrong: who is hit, and     *)
(* what is saved.                                                          *)
(*                                                                         *)
(* DamageSystem, for every number of clients, serials and targets, every   *)
(* weapon, shield and memory of the dedup map: every life ends once        *)
(* (OneDeathPerLife), and a request does its damage once (HitOnce).        *)
(*                                                                         *)
(* SaveSystem, for any number of files and writes: a target is only ever   *)
(* replaced by the complete write under way, whatever fails; and, until a  *)
(* rename of a file is refused or its .tmp removed by another, every crash *)
(* leaves at least the content last reported saved.  With what ServerData  *)
(* saves, a file holds what was saved for a file of its kind, and a load   *)
(* gives it back field by field: the lists are read back by induction over *)
(* their length (SetInduction), a container cut short is refused for its   *)
(* size.                                                                   *)
(***************************************************************************)
EXTENDS DamageSystem, ServerData, FiniteSetTheorems, SequenceTheorems, WellFoundedInduction,
        TLAPS

(***************************************************************************)
(* The damage system.                                                      *)
(***************************************************************************)

(* The attacker of every queued request is on record.                      *)
AttackersKnown ==
    \A i \in DOMAIN queue : queue[i].serial \in DOMAIN attackers

(* A hit that is young enough to be remembered is still in processed_.     *)
HitsRemembered ==
    \A s \in Serials :
        /\ landed[s] <= serverTick
        /\ processed[s] <= serverTick
        /\ landed[s] # 0 /\ serverTick - landed[s] <= Keep + 1 => processed[s] >= landed[s]

CountsOK == /\ lives \in [Targets -> Nat]
            /\ deaths \in [Targets -> Nat]

Deaths == [dead : Targets, killer : Clients]

IInv == /\ OneDeathPerLife
        /\ AttackersKnown
        /\ HitsRemembered
        /\ CountsOK
        /\ deathRpcs \in Seq(Deaths)
------------------------------------------------------------------------------
(* integer-valued function is greatest.                                    *)
LEMMA FiniteMax ==
    ASSUME NEW H, IsFiniteSet(H), H # {}, NEW f \in [H -> Int]
    PROVE  \E i \in H : \A j \in H : f[j] <= f[i]
<1> DEFINE After(i) == {j \in H : f[i] <= f[j]}
           T == {After(i) : i \in H}
<1>1. \A i \in H : f[i] \in Int
  OBVIOUS
<1>2. ASSUME NEW i \in H PROVE After(i) \in FiniteSubsetsOf(H)
  <2>1. After(i) \in SUBSET H
    OBVIOUS
  <2> HIDE DEF After
  <2>2. IsFiniteSet(After(i))
    BY <2>1, FS_Subset
  <2> QED BY <2>1, <2>2 DEF FiniteSubsetsOf
<1>3. T \subseteq FiniteSubsetsOf(H)
  BY <1>2
<1>4. T # {}
  <2>1. PICK i : i \in H
    OBVIOUS
  <2>2. After(i) \in T
    BY <2>1
  <2> QED BY <2>2
<1>5. IsWellFoundedOn(StrictSubsetOrdering(H), FiniteSubsetsOf(H))
  BY FS_StrictSubsetOrderingWellFounded
<1>6. PICK x \in T : \A y \in T : ~ (<<y, x>> \in StrictSubsetOrdering(H))
  BY <1>3, <1>4, <1>5, WFMin
<1>7. PICK i \in H : x = After(i)
  OBVIOUS
<1>8. ASSUME NEW j \in H PROVE f[j] <= f[i]
  <2> SUFFICES ASSUME f[i] < f[j] PROVE FALSE
    BY <1>1
  <2>1. After(j) \in T /\ After(j) \in SUBSET H /\ After(i) \in SUBSET H
    OBVIOUS
  <2>2. ASSUME NEW k \in After(j) PROVE k \in After(i)
    <3>1. k \in H /\ f[j] <= f[k]
      OBVIOUS
    <3> QED BY <1>1, <3>1
  <2>3. i \in After(i)
    BY <1>1
  <2>4. i \notin After(j)
    BY <1>1
  <2> QED BY <1>6, <1>7, <2>1, <2>2, <2>3, <2>4 DEF StrictSubsetOrdering
<1> QED BY <1>8
------------------------------------------------------------------------------
(***************************************************************************)
(* The shield.                                                             *)
(***************************************************************************)
(* What a percentage of a natural number cannot exceed: the number, and    *)
(* for a larger number, the same and what was added.                       *)
LEMMA PercentBounds ==
    ASSUME NEW x \in Nat, NEW d \in Nat, NEW p \in 0..100
    PROVE  /\ (x * p) \div 100 \in 0..x
           /\ ((x + d) * p) \div 100 <= (x * p) \div 100 + d
<1>1. \A y \in Nat : y * p \in 0..100 * y
  <2> SUFFICES ASSUME NEW y \in Nat PROVE y * p \in 0..100 * y
    OBVIOUS
  <2>1. y * p >= 0
    OBVIOUS
  <2>2. y * (100 - p) >= 0
    OBVIOUS
  <2>3. y * (100 - p) = 100 * y - y * p
    OBVIOUS
  <2> QED BY <2>1, <2>2, <2>3
<1>2. x * p \in 0..100 * x
  BY <1>1
<1>3. d * p \in 0..100 * d
  BY <1>1
<1>4. (x + d) * p = x * p + d * p
  OBVIOUS
<1>5. PICK a : a = x * p /\ a \in 0..100 * x
  BY <1>2
<1>6. PICK b : b = d * p /\ b \in 0..100 * d
  BY <1>3
<1>7. a \div 100 \in 0..x
  BY <1>5
<1>8. (a + b) \div 100 <= a \div 100 + d
  BY <1>5, <1>6
<1> QED BY <1>4, <1>5, <1>6, <1>7, <1>8

(* What a target loses is a natural number and grows with the hits.        *)
LEMMA LossBounds ==
    ASSUME NEW t \in Targets, NEW m \in Nat, NEW n \in Nat, m <= n
    PROVE  /\ Loss(t, m) \in Nat
           /\ Loss(t, m) <= Loss(t, n)
<1>1. Damage \in Nat /\ Shield[t] \in 0..100
  BY DamageAssumption
<1>2. PICK x \in Nat : x = m * Damage
  BY <1>1
<1>3. PICK d \in Nat : d = (n - m) * Damage
  BY <1>1
<1>4. n * Damage = x + d
  BY <1>1, <1>2, <1>3
<1>5. /\ (x * Shield[t]) \div 100 \in 0..x
      /\ ((x + d) * Shield[t]) \div 100 <= (x * Shield[t]) \div 100 + d
  BY <1>1, PercentBounds
<1>6. ((x + d) * Shield[t]) \div 100 \in 0..(x + d)
  BY <1>1, PercentBounds
<1> QED BY <1>2, <1>4, <1>5, <1>6 DEF Loss

(***************************************************************************)
(* The last hit of a batch.                                                *)
(***************************************************************************)
(* A set of positions of a queue that is not empty has a last one.         *)
LEMMA LastExists ==
    ASSUME NEW n \in Nat, NEW H \in SUBSET (1..n), H # {}
    PROVE  \E i \in H : \A j \in H : j <= i
<1>1. IsFiniteSet(H)
  <2>1. 1 \in Int /\ n \in Int
    OBVIOUS
  <2>2. IsFiniteSet(1..n)
    BY <2>1, FS_Interval
  <2> QED BY <2>2, FS_Subset
<1> DEFINE f == [i \in H |-> i]
<1>2. f \in [H -> Int]
  OBVIOUS
<1>3. \E i \in H : \A j \in H : f[j] <= f[i]
  <2> HIDE DEF f
  <2> QED BY <1>1, <1>2, FiniteMax
<1> QED BY <1>3

(***************************************************************************)
(* The queue and one batch of hits.                                        *)
(***************************************************************************)
(* A sequence that is short enough.                                        *)
LEMMA BoundedSeqIntro ==
    ASSUME NEW S, NEW n \in Nat, NEW q \in Seq(S), Len(q) <= n
    PROVE  q \in BoundedSeq(S, n)
<1>1. PICK m \in 0..n : m = Len(q)
  OBVIOUS
<1>2. q \in [1..m -> S]
  BY <1>1
<1> QED BY <1>2 DEF BoundedSeq, SeqOf

(* What the invariant says of the requests in the queue.                   *)
LEMMA QueueFacts ==
    ASSUME IInv
    PROVE  /\ queue \in Seq(Request)
           /\ Len(queue) \in 0..MaxQueue
           /\ IsFiniteSet(DOMAIN queue)
           /\ \A i \in DOMAIN queue :
                 /\ queue[i] \in Request
                 /\ queue[i].serial \in Serials
                 /\ queue[i].serial \in DOMAIN attackers
                 /\ queue[i].target \in Targets
                 /\ attackers[queue[i].serial] \in Clients
<1>1. PICK m \in 0..MaxQueue : queue \in [1..m -> Request]
  BY DEF IInv, OneDeathPerLife, DamageTypeOK, BoundedSeq, SeqOf
<1>2. m \in Nat /\ DOMAIN queue = 1..m
  BY <1>1, DamageAssumption
<1>3. queue \in Seq(Request) /\ Len(queue) = m
  BY <1>1, <1>2
<1>4. IsFiniteSet(DOMAIN queue)
  BY <1>2, FS_Interval
<1>5. ASSUME NEW i \in DOMAIN queue
      PROVE  /\ queue[i] \in Request
             /\ queue[i].serial \in Serials
             /\ queue[i].serial \in DOMAIN attackers
             /\ queue[i].target \in Targets
             /\ attackers[queue[i].serial] \in Clients
  <2>1. queue[i] \in Request
    BY <1>1
  <2>2. queue[i].serial \in Serials /\ queue[i].target \in Targets
    BY <2>1 DEF Request
  <2>3. queue[i].serial \in DOMAIN attackers
    BY DEF IInv, AttackersKnown
  <2>4. PICK S \in SUBSET Serials : attackers \in [S -> Clients]
    BY DEF IInv, OneDeathPerLife, DamageTypeOK
  <2> QED BY <2>1, <2>2, <2>3, <2>4
<1> QED BY <1>1, <1>3, <1>4, <1>5

(* What a batch leaves of a target's health, whatever the raycasts say.    *)
LEMMA HpStep ==
    ASSUME IInv, NEW H \in SUBSET (DOMAIN queue), NEW t \in Targets
    PROVE  LET n == Cardinality({i \in H : queue[i].target = t})
           IN  /\ n \in Nat
               /\ HpAfter(H, t) \in 0..MaxHp
               /\ HpAfter(H, t) <= hp[t]
               /\ hp[t] - HpAfter(H, t) <= Loss(t, n)
<1> DEFINE n == Cardinality({i \in H : queue[i].target = t})
<1>1. n \in Nat
  <2>1. IsFiniteSet(DOMAIN queue)
    BY QueueFacts
  <2>2. {i \in H : queue[i].target = t} \in SUBSET (DOMAIN queue)
    OBVIOUS
  <2>3. IsFiniteSet({i \in H : queue[i].target = t})
    BY <2>1, <2>2, FS_Subset
  <2> QED BY <2>3, FS_CardinalityType
<1>2. hp[t] \in 0..MaxHp /\ MaxHp \in Nat
  BY DamageAssumption DEF IInv, OneDeathPerLife, DamageTypeOK
<1>3. Loss(t, n) \in Nat
  BY <1>1, LossBounds
<1>4. HpAfter(H, t) = IF t \in Hurt(H) THEN Drained(hp[t], Loss(t, n)) ELSE hp[t]
  BY DEF HpAfter
<1> HIDE DEF n
<1>5. HpAfter(H, t) \in {hp[t], Drained(hp[t], Loss(t, n))}
  BY <1>4
<1>6. /\ Drained(hp[t], Loss(t, n)) \in 0..MaxHp
      /\ Drained(hp[t], Loss(t, n)) <= hp[t]
      /\ hp[t] - Drained(hp[t], Loss(t, n)) <= Loss(t, n)
  BY <1>2, <1>3 DEF Drained
<1>7. /\ n \in Nat
      /\ HpAfter(H, t) \in 0..MaxHp
      /\ HpAfter(H, t) <= hp[t]
      /\ hp[t] - HpAfter(H, t) <= Loss(t, n)
  BY <1>1, <1>2, <1>3, <1>5, <1>6
<1> QED BY <1>7 DEF n

(* The kill goes to a client who fired.                                    *)
LEMMA KillerKnown ==
    ASSUME IInv, NEW H \in SUBSET (DOMAIN queue), NEW t \in Hurt(H)
    PROVE  Killer(H, t) \in Clients
<1> DEFINE Latest(i) == /\ queue[i].target = t
                      /\ \A j \in H : queue[j].target = t => j <= i
           G == {i \in H : queue[i].target = t}
           last == CHOOSE i \in H : Latest(i)
<1>1. G # {}
  BY SMT DEF Hurt
<1>2. PICK n \in Nat : G \in SUBSET (1..n)
  <2>1. DOMAIN queue = 1..Len(queue) /\ Len(queue) \in Nat
    BY QueueFacts
  <2>2. G \in SUBSET (DOMAIN queue)
    OBVIOUS
  <2> QED BY <2>1, <2>2
<1>3. \E i \in G : \A j \in G : j <= i
  BY <1>1, <1>2, LastExists
<1>4. \E i \in H : Latest(i)
  BY <1>3
<1>5. last \in H
  BY <1>4
<1>6. attackers[queue[last].serial] \in Clients
  BY <1>5, QueueFacts
<1> QED BY <1>6 DEF Killer

(* A batch kills finitely many.                                            *)
LEMMA DeadFinite ==
    ASSUME IInv, NEW H \in SUBSET (DOMAIN queue), NEW dead \in SUBSET Hurt(H)
    PROVE  IsFiniteSet(dead)
<1> DEFINE S == {i \in DOMAIN queue : queue[i].target \in dead}
           f == [i \in S |-> queue[i].target]
<1>1. IsFiniteSet(S)
  BY QueueFacts, FS_Subset
<1>2. f \in [S -> dead]
  OBVIOUS
<1>3. \A t \in dead : \E i \in S : f[i] = t
  BY DEF Hurt
<1>4. f \in Surjection(S, dead)
  BY <1>2, <1>3 DEF Surjection
<1> QED BY <1>1, <1>4, FS_Surjection

(***************************************************************************)
(* The invariant is inductive.                                             *)
(***************************************************************************)
Hits(agree) == {i \in Fresh \cap agree : queue[i].target \in known}
Dead(agree) == {t \in Hurt(Hits(agree)) : HpAfter(Hits(agree), t) = 0}

(* The invariant holds when nothing has been submitted.                    *)
LEMMA InitInv == DamageInit => IInv
<1> SUFFICES ASSUME DamageInit PROVE IInv
  OBVIOUS
<1> DEFINE empty == << >>
<1>0. /\ hp = [t \in Targets |-> MaxHp] /\ known = Targets /\ queue = empty
      /\ processed = [s \in Serials |-> 0] /\ serverTick = 0 /\ attackers = empty
      /\ deathRpcs = empty /\ landed = [s \in Serials |-> 0]
      /\ lives = [t \in Targets |-> 0] /\ deaths = [t \in Targets |-> 0]
  BY DEF DamageInit
<1>1. MaxHp \in Nat \ {0} /\ MaxTicks \in Nat /\ MaxQueue \in Nat
  BY DamageAssumption
<1>2. queue \in BoundedSeq(Request, MaxQueue)
  <2>1. empty \in Seq(Request) /\ Len(empty) <= MaxQueue
    BY <1>1
  <2> HIDE DEF empty
  <2> QED BY <1>0, <1>1, <2>1, BoundedSeqIntro
<1>3. attackers \in UNION {[S -> Clients] : S \in SUBSET Serials}
  <2>1. attackers \in [{} -> Clients]
    BY <1>0
  <2> QED BY <2>1
<1>4. ToSet(deathRpcs) = {} /\ deathRpcs \in Seq(Deaths) /\ DOMAIN queue = {}
  BY <1>0 DEF ToSet
<1> HIDE DEF empty
<1>5. DamageTypeOK
  <2>1. hp \in [Targets -> 0..MaxHp]
    BY <1>0, <1>1
  <2>2. processed \in [Serials -> 0..MaxTicks] /\ landed \in [Serials -> 0..MaxTicks]
    BY <1>0, <1>1
  <2>3. known \subseteq Targets /\ serverTick \in 0..MaxTicks
    BY <1>0, <1>1
  <2> QED BY <1>2, <1>3, <1>4, <2>1, <2>2, <2>3 DEF DamageTypeOK
<1>6. DedupBounded /\ AttackersKnown /\ HitsRemembered /\ CountsOK
  BY <1>0, <1>1, <1>4 DEF DedupBounded, AttackersKnown, HitsRemembered, CountsOK
<1>7. \A t \in Targets : deaths[t] = lives[t] + (IF hp[t] = 0 THEN 1 ELSE 0)
  BY <1>0, <1>1
<1> QED BY <1>4, <1>5, <1>6, <1>7 DEF IInv, OneDeathPerLife

(* A request is queued, and its attacker with it.                          *)
LEMMA SubmitStep ==
    ASSUME IInv, NEW r \in Request, Submit(r)
    PROVE  IInv'
<1> USE DEF Submit
<1>1. r.serial \in Serials /\ r.client \in Clients
  BY DEF Request
<1>2. queue' \in BoundedSeq(Request, MaxQueue)
  <2>1. queue' \in Seq(Request) /\ Len(queue') = Len(queue) + 1
    BY QueueFacts
  <2>2. Len(queue') <= MaxQueue /\ MaxQueue \in Nat
    BY <2>1, QueueFacts, DamageAssumption
  <2> QED BY <2>1, <2>2, BoundedSeqIntro
<1>3. /\ DOMAIN attackers' = DOMAIN attackers \union {r.serial}
      /\ attackers' \in UNION {[S -> Clients] : S \in SUBSET Serials}
  <2>1. PICK S \in SUBSET Serials : attackers \in [S -> Clients]
    BY DEF IInv, OneDeathPerLife, DamageTypeOK
  <2>2. attackers' \in [S \union {r.serial} -> Clients]
    BY <1>1, <2>1
  <2>3. S \union {r.serial} \in SUBSET Serials
    BY <1>1
  <2> QED BY <2>1, <2>2, <2>3
<1>4. DamageTypeOK'
  BY <1>2, <1>3 DEF DamageTypeOK, IInv, OneDeathPerLife
<1>5. AttackersKnown'
  <2> SUFFICES ASSUME NEW i \in DOMAIN queue'
               PROVE  queue'[i].serial \in DOMAIN attackers'
    BY DEF AttackersKnown
  <2>1. CASE i \in DOMAIN queue
    <3>1. queue'[i] = queue[i]
      BY <2>1, QueueFacts
    <3> QED BY <1>3, <2>1, <3>1, QueueFacts
  <2>2. CASE i \notin DOMAIN queue
    <3>1. queue'[i] = r
      BY <2>2, QueueFacts
    <3> QED BY <1>3, <3>1
  <2> QED BY <2>1, <2>2
<1>6. DedupBounded' /\ HitsRemembered' /\ CountsOK' /\ deathRpcs' \in Seq(Deaths)
  BY DEF IInv, OneDeathPerLife, DedupBounded, HitsRemembered, CountsOK
<1>7. \A t \in Targets : deaths'[t] = lives'[t] + (IF hp'[t] = 0 THEN 1 ELSE 0)
  BY DEF IInv, OneDeathPerLife
<1> QED BY <1>4, <1>5, <1>6, <1>7 DEF IInv, OneDeathPerLife

(* The dedup map after tick(), and the hits it confirms.                   *)
LEMMA TickDedup ==
    ASSUME IInv, NEW agree \in SUBSET (DOMAIN queue), Tick(agree)
    PROVE  /\ processed' \in [Serials -> 0..MaxTicks]
           /\ landed' \in [Serials -> 0..MaxTicks]
           /\ DedupBounded'
           /\ HitsRemembered'
           /\ RememberedOnce
<1>1. /\ serverTick \in 0..MaxTicks /\ serverTick' = serverTick + 1
      /\ serverTick' \in 1..MaxTicks /\ MaxTicks \in Nat /\ Keep \in Nat
      /\ processed \in [Serials -> 0..MaxTicks]
      /\ landed \in [Serials -> 0..MaxTicks]
  BY DamageAssumption DEF IInv, OneDeathPerLife, DamageTypeOK, Tick
<1> DEFINE Seen(s) == \E i \in Fresh : queue[i].serial = s
           Hit(s) == \E i \in Hits(agree) : queue[i].serial = s
<1>2. /\ processed' = [s \in Serials |->
                          IF Seen(s) THEN serverTick'
                          ELSE IF s \in Remembered THEN processed[s] ELSE 0]
      /\ landed' = [s \in Serials |-> IF Hit(s) THEN serverTick' ELSE landed[s]]
  BY DEF Tick, Hits
<1>3. \A s \in Serials : Hit(s) => Seen(s)
  BY DEF Hits
<1>4. \A s \in Serials : Seen(s) => s \notin Remembered
  BY DEF Fresh
<1>5. \A s \in Serials :
         s \in Remembered <=> processed[s] # 0 /\ serverTick - processed[s] <= Keep
  BY DEF Remembered
<1>6. \A s \in Serials :
        /\ landed[s] <= serverTick
        /\ processed[s] <= serverTick
        /\ landed[s] # 0 /\ serverTick - landed[s] <= Keep + 1 => processed[s] >= landed[s]
  BY DEF IInv, HitsRemembered
<1> HIDE DEF Seen, Hit
<1>7. ASSUME NEW s \in Serials
      PROVE  /\ processed'[s] \in 0..MaxTicks
             /\ landed'[s] \in 0..MaxTicks
             /\ processed'[s] # 0 => serverTick' - processed'[s] <= Keep + 1
             /\ landed'[s] <= serverTick'
             /\ processed'[s] <= serverTick'
             /\ landed'[s] # 0 /\ serverTick' - landed'[s] <= Keep + 1
                   => processed'[s] >= landed'[s]
             /\ landed'[s] # landed[s] /\ landed[s] # 0
                   => landed'[s] - landed[s] > Keep + 1
  <2>1. /\ processed'[s] = IF Seen(s) THEN serverTick'
                           ELSE IF s \in Remembered THEN processed[s] ELSE 0
        /\ landed'[s] = IF Hit(s) THEN serverTick' ELSE landed[s]
        /\ processed[s] \in 0..MaxTicks /\ landed[s] \in 0..MaxTicks
    BY <1>1, <1>2
  <2>2. CASE Seen(s) /\ Hit(s)
    BY <1>1, <1>4, <1>5, <1>6, <2>1, <2>2
  <2>3. CASE Seen(s) /\ ~Hit(s)
    BY <1>1, <1>4, <1>5, <1>6, <2>1, <2>3
  <2>4. CASE ~Seen(s)
    BY <1>1, <1>3, <1>5, <1>6, <2>1, <2>4
  <2> QED BY <2>2, <2>3, <2>4
<1> QED BY <1>2, <1>7 DEF DedupBounded, HitsRemembered, RememberedOnce

(* The targets after tick(): who lost its last health has died once more.  *)
LEMMA TickTargets ==
    ASSUME IInv, NEW agree \in SUBSET (DOMAIN queue), Tick(agree)
    PROVE  /\ hp' \in [Targets -> 0..MaxHp]
           /\ CountsOK'
           /\ \A t \in Targets :
                 deaths'[t] = lives'[t] + (IF hp'[t] = 0 THEN 1 ELSE 0)
<1> DEFINE H == Hits(agree)
<1>1. H \in SUBSET (DOMAIN queue)
  BY DEF Hits, Fresh
<1>2. /\ hp' = [t \in Targets |-> HpAfter(H, t)]
      /\ deaths' = [t \in Targets |-> deaths[t] + (IF t \in Dead(agree) THEN 1 ELSE 0)]
      /\ lives' = lives
  BY DEF Tick, Hits, Dead
<1>3. ASSUME NEW t \in Targets
      PROVE  /\ HpAfter(H, t) \in 0..MaxHp
             /\ HpAfter(H, t) <= hp[t]
             /\ hp[t] \in 0..MaxHp
             /\ lives[t] \in Nat /\ deaths[t] \in Nat
             /\ deaths[t] = lives[t] + (IF hp[t] = 0 THEN 1 ELSE 0)
  BY <1>1, HpStep DEF IInv, OneDeathPerLife, DamageTypeOK, CountsOK
<1>4. \A t \in Targets :
         t \in Dead(agree) <=> t \in Hurt(H) /\ HpAfter(H, t) = 0
  BY DEF Dead
<1>5. \A t \in Targets : t \in Hurt(H) => hp[t] > 0
  BY DEF Hurt
<1>6. \A t \in Targets : t \notin Hurt(H) => HpAfter(H, t) = hp[t]
  BY DEF HpAfter
<1>7. MaxHp \in Nat
  BY DamageAssumption
<1> HIDE DEF H
<1>8. hp' \in [Targets -> 0..MaxHp]
  BY <1>2, <1>3
<1>9. CountsOK'
  BY <1>2, <1>3 DEF CountsOK, IInv
<1>10. ASSUME NEW t \in Targets
       PROVE  deaths'[t] = lives'[t] + (IF hp'[t] = 0 THEN 1 ELSE 0)
  <2>1. /\ hp'[t] = HpAfter(H, t)
        /\ deaths'[t] = deaths[t] + (IF t \in Dead(agree) THEN 1 ELSE 0)
        /\ lives'[t] = lives[t]
    BY <1>2
  <2> QED BY <1>3, <1>4, <1>5, <1>6, <1>7, <2>1
<1> QED BY <1>8, <1>9, <1>10

(* The death RPCs name targets and the clients who fired.                  *)
LEMMA TickDeaths ==
    ASSUME IInv, NEW agree \in SUBSET (DOMAIN queue), Tick(agree)
    PROVE  deathRpcs' \in Seq(Deaths)
<1> DEFINE H == Hits(agree)
<1>1. H \in SUBSET (DOMAIN queue)
  BY DEF Hits, Fresh
<1>2. Dead(agree) \in SUBSET Hurt(H) /\ Dead(agree) \in SUBSET Targets
  BY DEF Dead, Hurt, IInv, OneDeathPerLife, DamageTypeOK
<1>3. Cardinality(Dead(agree)) \in Nat
  BY <1>1, <1>2, DeadFinite, FS_CardinalityType
<1>4. PICK order \in SetToSeqs(Dead(agree)) :
          deathRpcs' = deathRpcs \o
              [k \in DOMAIN order |-> [dead |-> order[k], killer |-> Killer(H, order[k])]]
  BY DEF Tick, Hits, Dead
<1> DEFINE new == [k \in DOMAIN order |->
                      [dead |-> order[k], killer |-> Killer(H, order[k])]]
<1>5. order \in [1..Cardinality(Dead(agree)) -> Dead(agree)]
  BY DEF SetToSeqs
<1>6. ASSUME NEW k \in DOMAIN order
      PROVE  [dead |-> order[k], killer |-> Killer(H, order[k])] \in Deaths
  <2>1. order[k] \in Targets /\ order[k] \in Hurt(H)
    BY <1>2, <1>5
  <2>2. Killer(H, order[k]) \in Clients
    BY <1>1, <2>1, KillerKnown
  <2> QED BY <2>1, <2>2 DEF Deaths
<1>7. new \in [1..Cardinality(Dead(agree)) -> Deaths]
  BY <1>5, <1>6
<1>8. new \in Seq(Deaths)
  BY <1>3, <1>7
<1>9. deathRpcs \in Seq(Deaths)
  BY DEF IInv
<1> HIDE DEF new
<1> QED BY <1>4, <1>8, <1>9 DEF new

(* A batch costs a target at most what the distinct serials naming it cost. *)
LEMMA TickLoss ==
    ASSUME IInv, NEW agree \in SUBSET (DOMAIN queue), Tick(agree)
    PROVE  LossBySerial
<1> SUFFICES ASSUME NEW t \in Targets
             PROVE  hp[t] - hp'[t] <=
                      Loss(t, Cardinality({queue[i].serial :
                                 i \in {j \in DOMAIN queue : queue[j].target = t}}))
  BY DEF LossBySerial
<1> DEFINE H == Hits(agree)
           A == {i \in H : queue[i].target = t}
           C == {j \in DOMAIN queue : queue[j].target = t}
           B == {queue[i].serial : i \in C}
           f == [i \in A |-> queue[i].serial]
           g == [i \in C |-> queue[i].serial]
<1>1. H \in SUBSET (DOMAIN queue) /\ H \in SUBSET Fresh
  BY DEF Hits, Fresh
<1>2. Cardinality(A) \in Nat /\ hp[t] - HpAfter(H, t) <= Loss(t, Cardinality(A))
  BY <1>1, HpStep
<1>3. hp'[t] = HpAfter(H, t)
  BY DEF Tick, Hits
<1>4. IsFiniteSet(B) /\ Cardinality(B) \in Nat
  <2>1. IsFiniteSet(C)
    BY QueueFacts, FS_Subset
  <2>2. g \in Surjection(C, B)
    BY DEF Surjection
  <2> QED BY <2>1, <2>2, FS_Surjection, FS_CardinalityType
<1>5. f \in Injection(A, B)
  <2>1. f \in [A -> B]
    BY <1>1
  <2>2. ASSUME NEW i \in A, NEW j \in A, f[i] = f[j] PROVE i = j
    <3>1. i \in Fresh /\ j \in Fresh /\ i \in DOMAIN queue /\ j \in DOMAIN queue
      BY <1>1
    <3>2. i \in 1..Len(queue) /\ j \in 1..Len(queue) /\ Len(queue) \in Nat
      BY <3>1, QueueFacts
    <3>3. CASE i < j
      BY <2>2, <3>1, <3>2, <3>3 DEF Fresh
    <3>4. CASE j < i
      BY <2>2, <3>1, <3>2, <3>4 DEF Fresh
    <3> QED BY <3>2, <3>3, <3>4
  <2>3. IsInjective(f)
    BY <2>2 DEF IsInjective
  <2> QED BY <2>1, <2>3 DEF Injection
<1>6. Cardinality(A) <= Cardinality(B)
  BY <1>4, <1>5, FS_Injection
<1> HIDE DEF A, B, H
<1>7. /\ Loss(t, Cardinality(A)) \in Nat
      /\ Loss(t, Cardinality(B)) \in Nat
      /\ Loss(t, Cardinality(A)) <= Loss(t, Cardinality(B))
  BY <1>2, <1>4, <1>6, LossBounds
<1>8. hp[t] \in Int /\ HpAfter(H, t) \in Int
  <2>1. HpAfter(H, t) \in 0..MaxHp
    BY <1>1, HpStep
  <2>2. hp[t] \in 0..MaxHp
    BY DEF IInv, OneDeathPerLife, DamageTypeOK
  <2> QED BY <2>1, <2>2
<1>9. hp[t] - hp'[t] <= Loss(t, Cardinality(B))
  BY <1>2, <1>3, <1>7, <1>8
<1> QED BY <1>9 DEF B

(* tick() keeps it: prune, repeats, validation, loss and deaths together.  *)
LEMMA TickStep ==
    ASSUME IInv, NEW agree \in SUBSET (DOMAIN queue), Tick(agree)
    PROVE  IInv'
<1>1. queue' \in BoundedSeq(Request, MaxQueue)
  <2>1. queue' \in Seq(Request) /\ Len(queue') <= MaxQueue /\ MaxQueue \in Nat
    BY DamageAssumption DEF Tick
  <2> QED BY <2>1, BoundedSeqIntro
<1>2. deathRpcs' \in Seq(Deaths)
  BY TickDeaths
<1>3. \A d \in ToSet(deathRpcs') : d.dead \in Targets /\ d.killer \in Clients
  <2> SUFFICES ASSUME NEW k \in DOMAIN deathRpcs'
               PROVE  deathRpcs'[k].dead \in Targets /\ deathRpcs'[k].killer \in Clients
    BY DEF ToSet
  <2>1. deathRpcs'[k] \in Deaths
    BY <1>2
  <2> QED BY <2>1 DEF Deaths
<1>4. known' \in SUBSET Targets /\ serverTick' \in 0..MaxTicks
  BY DamageAssumption DEF Tick, IInv, OneDeathPerLife, DamageTypeOK
<1>5. attackers' \in UNION {[S -> Clients] : S \in SUBSET Serials}
  BY DEF Tick, IInv, OneDeathPerLife, DamageTypeOK
<1>6. DamageTypeOK'
  BY <1>1, <1>3, <1>4, <1>5, TickDedup, TickTargets DEF DamageTypeOK
<1>7. AttackersKnown'
  BY DEF Tick, AttackersKnown
<1> QED BY <1>2, <1>6, <1>7, TickDedup, TickTargets DEF IInv, OneDeathPerLife

(* Draining the death RPCs keeps it.                                       *)
LEMMA ClearStep ==
    ASSUME IInv, ClearDeathRpcs
    PROVE  IInv'
<1> USE DEF ClearDeathRpcs
<1>1. deathRpcs' \in Seq(Deaths) /\ ToSet(deathRpcs') = {}
  BY DEF ToSet
<1>2. DamageTypeOK'
  BY <1>1 DEF IInv, OneDeathPerLife, DamageTypeOK
<1>3. AttackersKnown' /\ HitsRemembered' /\ CountsOK' /\ DedupBounded'
  BY DEF IInv, OneDeathPerLife, AttackersKnown, HitsRemembered, CountsOK, DedupBounded
<1> QED BY <1>1, <1>2, <1>3 DEF IInv, OneDeathPerLife

(* A dead target's next life is on the books before it can end.            *)
LEMMA RespawnStep ==
    ASSUME IInv, NEW t \in Targets, Respawn(t)
    PROVE  IInv'
<1> USE DEF Respawn
<1>1. MaxHp \in Nat \ {0}
  BY DamageAssumption
<1>2. DamageTypeOK'
  BY <1>1 DEF IInv, OneDeathPerLife, DamageTypeOK
<1>3. AttackersKnown' /\ HitsRemembered' /\ DedupBounded' /\ deathRpcs' \in Seq(Deaths)
  BY DEF IInv, OneDeathPerLife, AttackersKnown, HitsRemembered, DedupBounded
<1>4. CountsOK'
  BY DEF IInv, CountsOK
<1>5. ASSUME NEW u \in Targets
      PROVE  deaths'[u] = lives'[u] + (IF hp'[u] = 0 THEN 1 ELSE 0)
  <2>1. /\ deaths[u] = lives[u] + (IF hp[u] = 0 THEN 1 ELSE 0)
        /\ deaths[u] \in Nat /\ lives[u] \in Nat
        /\ hp \in [Targets -> 0..MaxHp] /\ lives \in [Targets -> Nat]
    BY DEF IInv, OneDeathPerLife, DamageTypeOK, CountsOK
  <2>2. CASE u = t
    BY <1>1, <2>1, <2>2
  <2>3. CASE u # t
    BY <2>1, <2>3
  <2> QED BY <2>2, <2>3
<1> QED BY <1>2, <1>3, <1>4, <1>5 DEF IInv, OneDeathPerLife

(* So does the departure of a target.                                      *)
LEMMA LeaveStep ==
    ASSUME IInv, NEW t \in Targets, Leave(t)
    PROVE  IInv'
<1> USE DEF Leave
<1>1. DamageTypeOK'
  BY DEF IInv, OneDeathPerLife, DamageTypeOK
<1>2. /\ AttackersKnown' /\ HitsRemembered' /\ DedupBounded' /\ CountsOK'
      /\ deathRpcs' \in Seq(Deaths)
  BY DEF IInv, OneDeathPerLife, AttackersKnown, HitsRemembered, DedupBounded, CountsOK
<1>3. \A u \in Targets : deaths'[u] = lives'[u] + (IF hp'[u] = 0 THEN 1 ELSE 0)
  BY DEF IInv, OneDeathPerLife
<1> QED BY <1>1, <1>2, <1>3 DEF IInv, OneDeathPerLife

(* It speaks of nothing but the variables.                                 *)
LEMMA StutterStep ==
    ASSUME IInv, UNCHANGED damageVars
    PROVE  IInv'
BY DEF damageVars, IInv, OneDeathPerLife, DamageTypeOK, DedupBounded, AttackersKnown,
       HitsRemembered, CountsOK

(* The invariant of the damage authority: its books, the attackers of what *)
(* is queued, and the window in which a hit cannot be confirmed again.     *)
THEOREM DamageInductive == DamageSpec => []IInv
<1>1. DamageInit => IInv
  BY InitInv
<1>2. IInv /\ [DamageNext]_damageVars => IInv'
  <2> SUFFICES ASSUME IInv, [DamageNext]_damageVars PROVE IInv'
    OBVIOUS
  <2>1. ASSUME NEW r \in Request, Submit(r) PROVE IInv'
    BY <2>1, SubmitStep
  <2>2. ASSUME NEW agree \in SUBSET (DOMAIN queue), Tick(agree) PROVE IInv'
    BY <2>2, TickStep
  <2>3. CASE ClearDeathRpcs
    BY <2>3, ClearStep
  <2>4. ASSUME NEW t \in Targets, Respawn(t) PROVE IInv'
    BY <2>4, RespawnStep
  <2>5. ASSUME NEW t \in Targets, Leave(t) PROVE IInv'
    BY <2>5, LeaveStep
  <2>6. CASE UNCHANGED damageVars
    BY <2>6, StutterStep
  <2> QED BY <2>1, <2>2, <2>3, <2>4, <2>5, <2>6 DEF DamageNext
<1> QED BY <1>1, <1>2, PTL DEF DamageSpec

(* EntityDied is published once for each life a target loses, whatever     *)
(* arrives, repeats or hits the dead, and processed_ keeps its bound.      *)
THEOREM EveryLifeEndsOnce == DamageSpec => []OneDeathPerLife
BY DamageInductive, PTL DEF IInv

(* A serial's damage is done once while it is remembered, and one batch    *)
(* takes from a target no more than its distinct serials cost.             *)
THEOREM DamageOnce == DamageSpec => HitOnce
<1>1. IInv /\ [DamageNext]_damageVars => [RememberedOnce /\ LossBySerial]_damageVars
  <2> SUFFICES ASSUME IInv, DamageNext PROVE RememberedOnce /\ LossBySerial
    OBVIOUS
  <2>1. ASSUME NEW agree \in SUBSET (DOMAIN queue), Tick(agree)
        PROVE  RememberedOnce /\ LossBySerial
    BY <2>1, TickDedup, TickLoss
  <2>2. CASE landed' = landed /\ serverTick' = serverTick
    BY <2>2 DEF RememberedOnce, LossBySerial
  <2>3. ASSUME NEW r \in Request, Submit(r) PROVE landed' = landed /\ serverTick' = serverTick
    BY <2>3 DEF Submit
  <2>4. ASSUME ClearDeathRpcs PROVE landed' = landed /\ serverTick' = serverTick
    BY <2>4 DEF ClearDeathRpcs
  <2>5. ASSUME NEW t \in Targets, Respawn(t) \/ Leave(t)
        PROVE  landed' = landed /\ serverTick' = serverTick
    BY <2>5 DEF Respawn, Leave
  <2> QED BY <2>1, <2>2, <2>3, <2>4, <2>5 DEF DamageNext
<1> QED BY <1>1, DamageInductive, PTL DEF DamageSpec, HitOnce
------------------------------------------------------------------------------
(***************************************************************************)
(* The save system.                                                        *)
(***************************************************************************)

(* Up to its rename, a write stages its own content or loses its .tmp to   *)
(* somebody else's cleanup.                                                *)
Staged == pc \in {"rename", "remove", "renameAgain"} => tmp[path] \in {Absent, writes}

(* A write under way has a number of its own.                              *)
Numbered == pc \in {"open", "fill", "rename", "remove", "renameAgain"} => writes > 0

StageInv == TypeOK /\ Staged /\ Numbered

(* Undisturbed, the staged file is there when it is renamed, and the retry *)
(* is never reached.                                                       *)
Untouched == path \notin disturbed =>
             /\ pc = "fill" => tmp[path] # Absent
             /\ pc = "rename" => tmp[path] = writes
             /\ pc \notin {"remove", "renameAgain"}

CommittedBound == \A p \in Paths : committed[p] <= writes

SaveInv == StageInv /\ Untouched /\ CommittedBound /\ Durable
------------------------------------------------------------------------------
LEMMA InitStage == Init => StageInv
BY SaveAssumption DEF Init, StageInv, TypeOK, Staged, Numbered, Contents, Steps, Torn, Absent

(* Every step keeps the types and what is staged.                          *)
LEMMA NextStage == StageInv /\ [Next]_vars => StageInv'
<1> SUFFICES ASSUME StageInv, [Next]_vars PROVE StageInv'
  OBVIOUS
<1> USE SaveAssumption DEF StageInv, TypeOK, Staged, Numbered, Contents, Steps, Torn, Absent
<1>1. ASSUME NEW p \in Paths, Save(p) PROVE StageInv'
  BY <1>1 DEF Save
<1>2. ASSUME NEW p \in Paths, Delete(p) PROVE StageInv'
  BY <1>2 DEF Delete
<1>3. CASE OpenTmp
  BY <1>3 DEF OpenTmp
<1>4. CASE FillTmp
  BY <1>4 DEF FillTmp, AfterFill
<1>5. CASE RenameTmp
  BY <1>5 DEF RenameTmp, Refused, Renamed, Finish
<1>6. CASE RemoveTarget
  BY <1>6 DEF RemoveTarget
<1>7. CASE RenameAgain
  BY <1>7 DEF RenameAgain, Refused, Renamed, Finish
<1>8. CASE DiscardTmp
  BY <1>8 DEF DiscardTmp
<1>9. CASE CopyBegin
  BY <1>9 DEF CopyBegin
<1>10. CASE CopyEnd
  BY <1>10 DEF CopyEnd
<1>11. CASE Crash
  BY <1>11 DEF Crash
<1>12. CASE Restart
  BY <1>12 DEF Restart, AllTmpRemoved
<1>13. ASSUME NEW p \in Paths, OtherCleanup(p) PROVE StageInv'
  BY <1>13 DEF OtherCleanup
<1>14. CASE UNCHANGED vars
  BY <1>14 DEF vars
<1>15. QED
  BY <1>1, <1>2, <1>3, <1>4, <1>5, <1>6, <1>7, <1>8, <1>9, <1>10, <1>11, <1>12,
     <1>13, <1>14 DEF Next

(* Up to its rename, a write's .tmp holds that write's content or is gone  *)
(* (SaveSystem::atomicWrite).                                              *)
THEOREM StageInvariant == Spec => []StageInv
<1>1. StageInv /\ [Next]_vars => StageInv'
  BY NextStage
<1>2. QED
  BY InitStage, <1>1, PTL DEF Spec

(* The type invariant.                                                     *)
THEOREM TypeCorrect == Spec => []TypeOK
<1>1. StageInv => TypeOK
  BY DEF StageInv
<1>2. QED
  BY StageInvariant, <1>1, PTL

(* A target only changes to the complete content of the write under way or *)
(* to nothing, with renames failing and other instances cleaning up.       *)
LEMMA StepPromotesCurrent ==
    ASSUME StageInv, Next, NEW p \in Paths, file'[p] # file[p]
    PROVE  \/ p = path /\ pc \in {"rename", "renameAgain"} /\ file'[p] = writes
           \/ (p = path \/ pc = "idle") /\ file'[p] = Absent
<1> USE DEF StageInv, TypeOK
<1>1. CASE RenameTmp \/ RenameAgain
  BY <1>1 DEF RenameTmp, RenameAgain, Refused, Renamed, Staged
<1>2. CASE RemoveTarget
  BY <1>2 DEF RemoveTarget
<1>3. ASSUME NEW q \in Paths, Delete(q)
      PROVE  pc = "idle" /\ file'[p] = Absent
  BY <1>3 DEF Delete
<1>4. QED
  BY <1>1, <1>2, <1>3
  DEF Next, Save, OpenTmp, FillTmp, DiscardTmp, CopyBegin, CopyEnd, Crash, Restart, OtherCleanup

(* A target changes to the complete content of the write under way or to   *)
(* nothing, whatever fails and whoever cleans up                           *)
(* (SaveSystem::atomicWrite).                                              *)
THEOREM PromotesCurrent == Spec => OnlyCurrentWrite
<1>1. StageInv /\ [Next]_vars =>
        [\A p \in Paths : file'[p] # file[p] =>
           \/ p = path /\ pc \in {"rename", "renameAgain"} /\ file'[p] = writes
           \/ (p = path \/ pc = "idle") /\ file'[p] = Absent]_vars
  BY StepPromotesCurrent DEF vars
<1>2. QED
  BY StageInvariant, <1>1, PTL DEF Spec, OnlyCurrentWrite
------------------------------------------------------------------------------
LEMMA InitSave == Init => SaveInv
BY SaveAssumption, InitStage
DEF Init, SaveInv, Untouched, CommittedBound, Durable, Kept, Torn, Absent

(* A file that keeps its content and is reported no further stays durable. *)
LEMMA NextSave ==
    ASSUME SaveInv, [Next]_vars PROVE SaveInv'
<1>0. StageInv'
  BY NextStage DEF SaveInv
<1> USE SaveAssumption DEF SaveInv, StageInv, TypeOK, Untouched, CommittedBound, Durable, Kept,
                           Contents, Steps, Torn, Absent
<1>1. ASSUME NEW p \in Paths, Save(p) PROVE SaveInv'
  BY <1>0, <1>1 DEF Save
<1>2. ASSUME NEW p \in Paths, Delete(p) PROVE SaveInv'
  BY <1>0, <1>2 DEF Delete
<1>3. CASE OpenTmp
  BY <1>0, <1>3 DEF OpenTmp
<1>4. CASE FillTmp
  BY <1>0, <1>4 DEF FillTmp, AfterFill
<1>5. CASE RenameTmp
  BY <1>0, <1>5 DEF RenameTmp, Refused, Renamed, Finish, Numbered
<1>6. CASE CopyBegin \/ CopyEnd
  BY <1>0, <1>6 DEF CopyBegin, CopyEnd
<1>7. CASE Crash \/ Restart
  BY <1>0, <1>7 DEF Crash, Restart
<1>8. CASE DiscardTmp
  BY <1>0, <1>8 DEF DiscardTmp
<1>9. CASE UNCHANGED vars
  BY <1>0, <1>9 DEF vars
<1>10. CASE RemoveTarget \/ RenameAgain
  BY <1>0, <1>10 DEF RemoveTarget, RenameAgain, Refused, Renamed, Finish
<1>11. ASSUME NEW p \in Paths, OtherCleanup(p) PROVE SaveInv'
  BY <1>0, <1>11 DEF OtherCleanup
<1>12. QED
  BY <1>1, <1>2, <1>3, <1>4, <1>5, <1>6, <1>7, <1>8, <1>9, <1>10, <1>11 DEF Next

(* Whatever crashes, a target holds at least the content last reported     *)
(* saved, complete, until a rename is refused or another cleans up.        *)
THEOREM SavesAreDurable == Spec => []Durable
<1>1. SaveInv /\ [Next]_vars => SaveInv'
  BY NextSave
<1>2. SaveInv => Durable
  BY DEF SaveInv
<1>3. QED
  BY InitSave, <1>1, <1>2, PTL DEF Spec
------------------------------------------------------------------------------
(* The checkpoint being copied is the one just reported done.              *)
Copying == pc \in {"copy", "copying"} =>
               file[path] = writes /\ committed[path] = writes /\ writes > 0

LatestInv == StageInv /\ CommittedBound /\ Copying /\ LatestTrails

LEMMA InitLatest == Init => LatestInv
BY SaveAssumption, InitStage
DEF Init, LatestInv, CommittedBound, Copying, LatestTrails, Absent

(* What is reported done for a checkpoint only grows.                      *)
LEMMA CheckpointsGrow ==
    ASSUME StageInv, CommittedBound, Next, NEW p \in Checkpoints
    PROVE  committed'[p] >= committed[p]
<1> USE SaveAssumption DEF StageInv, TypeOK, CommittedBound, Paths
<1>1. CASE RenameTmp \/ RenameAgain
  BY <1>1 DEF RenameTmp, RenameAgain, Refused, Finish
<1>2. ASSUME NEW q \in Paths, Delete(q) PROVE committed'[p] >= committed[p]
  BY <1>2 DEF Delete
<1>3. QED
  BY <1>1, <1>2 DEF Next, Save, OpenTmp, FillTmp, RemoveTarget, DiscardTmp, CopyBegin,
                    CopyEnd, Crash, Restart, OtherCleanup

LEMMA NextLatest == LatestInv /\ [Next]_vars => LatestInv'
<1> SUFFICES ASSUME LatestInv, [Next]_vars PROVE LatestInv'
  OBVIOUS
<1>1. StageInv'
  BY NextStage DEF LatestInv
<1>2. CASE UNCHANGED vars
  BY <1>1, <1>2 DEF vars, LatestInv, CommittedBound, Copying, LatestTrails
<1>3. CASE Next
  <2> USE SaveAssumption DEF LatestInv, StageInv, TypeOK
  <2>1. CommittedBound'
    BY <1>3 DEF CommittedBound, Next, Save, Delete, OpenTmp, FillTmp, RenameTmp, RemoveTarget,
                RenameAgain, DiscardTmp, CopyBegin, CopyEnd, Crash, Restart, OtherCleanup,
                Refused, Finish
  <2>2. Copying'
    <3>1. CASE RenameTmp \/ RenameAgain
      BY <3>1 DEF RenameTmp, RenameAgain, Refused, Renamed, Finish, Copying, Staged, Numbered,
                  Absent
    <3>2. CASE CopyBegin \/ CopyEnd
      BY <3>2 DEF CopyBegin, CopyEnd, Copying
    <3>3. ASSUME NEW p \in Paths, Save(p) \/ Delete(p) \/ OtherCleanup(p) PROVE Copying'
      BY <3>3 DEF Save, Delete, OtherCleanup, Copying
    <3>4. QED
      BY <1>3, <3>1, <3>2, <3>3
      DEF Next, OpenTmp, FillTmp, AfterFill, RemoveTarget, DiscardTmp, Crash, Restart, Copying
  <2>3. LatestTrails'
    <3>1. CASE latest' = latest
      BY <1>3, <3>1, CheckpointsGrow, <1>1 DEF LatestTrails, Paths, Contents, Torn
    <3>2. CASE CopyBegin
      BY <3>2 DEF CopyBegin, LatestTrails, Torn
    <3>3. CASE CopyEnd
      BY <3>3 DEF CopyEnd, LatestTrails, Copying, Torn
    <3>4. QED
      BY <1>3, <3>1, <3>2, <3>3
      DEF Next, Save, Delete, OpenTmp, FillTmp, RenameTmp, RemoveTarget, RenameAgain,
          DiscardTmp, Crash, Restart, OtherCleanup
  <2>4. QED
    BY <1>1, <2>1, <2>2, <2>3
<1>4. QED
  BY <1>2, <1>3

(* latest.checkpoint never names a state that no checkpoint was saved with.*)
THEOREM LatestIsBehind == Spec => []LatestTrails
<1>1. LatestInv => LatestTrails
  BY DEF LatestInv
<1>2. QED
  BY InitLatest, NextLatest, <1>1, PTL DEF Spec
------------------------------------------------------------------------------
(* ServerData adds what each write saves to the steps of SaveSystem and    *)
(* takes nothing from them, so that every theorem above holds of it.       *)
THEOREM DataImplementsSave == DataSpec => Spec
<1>1. DataInit => Init
  BY DEF DataInit
<1>2. [DataNext]_<<vars, saved>> => [Next]_vars
  BY DEF DataNext, vars
<1>3. QED
  BY <1>1, <1>2, PTL DEF DataSpec, Spec

(* Write number n was given something to save under p.                     *)
Given(n, p) == n \in DOMAIN saved /\ saved[n] \in ToSave(p)

(* What a file, its .tmp and the write under way hold was given for that   *)
(* file, what latest.checkpoint holds for some checkpoint.                 *)
KindsKept ==
    /\ \A p \in Paths : file[p] > 0 => Given(file[p], p)
    /\ latest > 0 => \E p \in Checkpoints : Given(latest, p)

KindInv ==
    /\ saved \in Seq(UNION {ToSave(p) : p \in Paths}) /\ Len(saved) = writes
    /\ pc \in {"open", "fill", "rename", "remove", "renameAgain"} => Given(writes, path)
    /\ \A p \in Paths : tmp[p] > 0 => Given(tmp[p], p)
    /\ KindsKept

(* A write begins with a value of its file's kind; what was given before   *)
(* stays given.                                                            *)
LEMMA SaveGives ==
    ASSUME StageInv, KindInv, DataNext, NEW p \in Paths, Save(p)
    PROVE  /\ saved' \in Seq(UNION {ToSave(q) : q \in Paths}) /\ Len(saved') = writes'
           /\ Given(writes, p)'
           /\ \A n, q : Given(n, q) => Given(n, q)'
<1>1. writes' = writes + 1 /\ path' = p /\ writes \in Nat
  BY DEF Save, StageInv, TypeOK
<1>2. PICK v \in ToSave(p) : saved' = Append(saved, v)
  BY <1>1 DEF DataNext
<1>3. v \in UNION {ToSave(q) : q \in Paths}
  OBVIOUS
<1>4. /\ Len(saved') = writes' /\ saved' \in Seq(UNION {ToSave(q) : q \in Paths})
      /\ DOMAIN saved = 1..writes /\ DOMAIN saved' = 1..writes + 1
      /\ \A n \in 1..writes : saved'[n] = saved[n]
      /\ saved'[writes + 1] = v
  BY <1>1, <1>2, <1>3 DEF KindInv
<1>5. Given(writes, p)'
  BY <1>1, <1>4 DEF Given
<1>6. \A n, q : Given(n, q) => Given(n, q)'
  BY <1>1, <1>4 DEF Given
<1>7. QED
  BY <1>4, <1>5, <1>6

(* No other call gives a write anything.                                   *)
LEMMA OthersGiveNone ==
    ASSUME StageInv, DataNext, \A p \in Paths : ~Save(p)
    PROVE  writes' = writes /\ saved' = saved /\ \A n, q : Given(n, q)' <=> Given(n, q)
<1>1. writes' = writes /\ writes \in Nat
  BY DEF DataNext, Next, Delete, OpenTmp, FillTmp, RenameTmp, RemoveTarget, RenameAgain, DiscardTmp,
         CopyBegin, CopyEnd, Crash, Restart, OtherCleanup, StageInv, TypeOK
<1>2. saved' = saved
  BY <1>1 DEF DataNext
<1>3. QED
  BY <1>1, <1>2 DEF Given

(* Every step keeps files and values of one kind together.                 *)
LEMMA NextKind == StageInv /\ Copying /\ KindInv /\ [DataNext]_<<vars, saved>> => KindInv'
<1> SUFFICES ASSUME StageInv, Copying, KindInv, [DataNext]_<<vars, saved>> PROVE KindInv'
  OBVIOUS
<1>1. ASSUME NEW p \in Paths, DataNext, Save(p) PROVE KindInv'
  BY <1>1, SaveGives DEF Save, KindInv, KindsKept
<1>2. CASE DataNext /\ \A p \in Paths : ~Save(p)
  <2>1. /\ writes' = writes /\ saved' = saved /\ Next
        /\ \A n, q : Given(n, q)' <=> Given(n, q)
    BY <1>2, OthersGiveNone DEF DataNext
  <2>2. saved' \in Seq(UNION {ToSave(p) : p \in Paths}) /\ Len(saved') = writes'
    BY <2>1 DEF KindInv
  <2>3. pc' \in {"open", "fill", "rename", "remove", "renameAgain"} => Given(writes, path)'
    BY <1>2, <2>1 DEF KindInv, Next, Delete, OpenTmp, FillTmp, AfterFill, RenameTmp, RemoveTarget,
       RenameAgain, DiscardTmp, CopyBegin, CopyEnd, Crash, Restart, OtherCleanup, Refused, Finish
  <2>4. \A p \in Paths : tmp'[p] > 0 => Given(tmp[p], p)'
    <3> SUFFICES ASSUME NEW p \in Paths, tmp'[p] > 0 PROVE Given(tmp'[p], p)
      BY <2>1
    <3>1. tmp \in [Paths -> Contents]
      BY DEF StageInv, TypeOK
    <3>2. tmp'[p] = tmp[p] \/ (p = path /\ pc = "fill" /\ tmp'[p] = writes)
      BY <1>2, <2>1, <3>1 DEF Next, Delete, OpenTmp, FillTmp, RenameTmp, RemoveTarget, Renamed,
         RenameAgain, DiscardTmp, CopyBegin, CopyEnd, Crash, Restart, OtherCleanup, Refused,
         AllTmpRemoved, Absent, Torn
    <3>3. QED
      BY <3>2 DEF KindInv
  <2>5. \A p \in Paths : file'[p] > 0 => Given(file[p], p)'
    <3> SUFFICES ASSUME NEW p \in Paths, file'[p] > 0 PROVE Given(file'[p], p)
      BY <2>1
    <3>1. file'[p] = file[p] \/ (p = path /\ pc \in {"rename", "renameAgain"} /\ file'[p] = writes)
      BY <2>1, StepPromotesCurrent DEF Absent
    <3>2. QED
      BY <3>1 DEF KindInv, KindsKept
  <2>6. latest' > 0 => \E p \in Checkpoints : Given(latest, p)'
    <3> SUFFICES ASSUME latest' > 0 PROVE \E p \in Checkpoints : Given(latest', p)
      BY <2>1
    <3>1. CASE latest' = latest
      BY <3>1 DEF KindInv, KindsKept
    <3>2. CASE latest' # latest
      <4>1. pc = "copying" /\ latest' = file[path]
        BY <1>2, <2>1, <3>2 DEF Next, Delete, OpenTmp, FillTmp, RenameTmp, RemoveTarget,
           RenameAgain, DiscardTmp, CopyBegin, CopyEnd, Crash, Restart, OtherCleanup, Torn
      <4>2. path \in Checkpoints /\ path \in Paths
        BY <4>1 DEF StageInv, TypeOK
      <4>3. QED
        BY <4>1, <4>2 DEF KindInv, KindsKept
    <3>3. QED
      BY <3>1, <3>2
  <2>7. QED
    BY <2>1, <2>2, <2>3, <2>4, <2>5, <2>6 DEF KindInv, KindsKept
<1>3. CASE UNCHANGED <<vars, saved>>
  BY <1>3 DEF KindInv, KindsKept, Given, vars
<1>4. QED
  BY <1>1, <1>2, <1>3

LEMMA KindInvariant == DataSpec => [](StageInv /\ Copying /\ KindInv)
<1>1. DataInit => KindInv
  BY DEF DataInit, Init, KindInv, KindsKept, Absent
<1>2. DataSpec => [](StageInv /\ Copying)
  <2>1. Spec => []StageInv
    BY StageInvariant
  <2>2. LatestInv => Copying
    BY DEF LatestInv
  <2>3. Spec => []LatestInv
    BY InitLatest, NextLatest, PTL DEF Spec
  <2>4. QED
    BY <2>1, <2>2, <2>3, DataImplementsSave, PTL
<1>3. QED
  BY <1>1, <1>2, NextKind, PTL DEF DataSpec

(* What is complete in a file was saved for a file of its kind: no rename, *)
(* copy or crash puts a profile where a match record is loaded             *)
(* (SaveSystem::atomicWrite, createCheckpoint).  This is what lets a load  *)
(* of LoadsWhatWasSaved compare it with what was given.                    *)
THEOREM FilesOfTheirKind == DataSpec => []KindsKept
<1>1. KindInv => KindsKept
  BY DEF KindInv
<1>2. QED
  BY KindInvariant, <1>1, PTL
------------------------------------------------------------------------------
(* What is left to read, with every read served so far.                    *)
Rd(in, out) == [in |-> in, ok |-> TRUE, out |-> out]

(* A reader is known by its three fields.                                  *)
LEMMA RdIs ==
    ASSUME NEW r, NEW i, NEW o, r = [n \in {"in", "ok", "out"} |-> r[n]],
           r["in"] = i, r["ok"] = TRUE, r["out"] = o
    PROVE  r = Rd(i, o)
<1> DEFINE g == Rd(i, o)
<1>1. g = [n \in {"in", "ok", "out"} |-> g[n]]
  BY DEF Rd
<1>2. g["in"] = i /\ g["ok"] = TRUE /\ g["out"] = o
  BY DEF Rd
<1> HIDE DEF g
<1>3. \A n \in {"in", "ok", "out"} : r[n] = g[n]
  BY <1>2
<1>4. r = g
  BY <1>1, <1>3
<1> QED BY <1>4 DEF g

(* What EXCEPT makes of one.                                               *)
LEMMA RdChanges ==
    ASSUME NEW i, NEW o, NEW x
    PROVE  [Rd(i, o) EXCEPT !.out = x] = Rd(i, x) /\ [Rd(i, o) EXCEPT !.in = x] = Rd(x, o)
<1> DEFINE f == [Rd(i, o) EXCEPT !.out = x]
           g == [Rd(i, o) EXCEPT !.in = x]
<1>1. /\ f = [n \in {"in", "ok", "out"} |-> f[n]]
      /\ f["in"] = i /\ f["ok"] = TRUE /\ f["out"] = x
  BY DEF Rd
<1>2. /\ g = [n \in {"in", "ok", "out"} |-> g[n]]
      /\ g["in"] = x /\ g["ok"] = TRUE /\ g["out"] = o
  BY DEF Rd
<1> HIDE DEF f, g
<1>3. f = Rd(i, x)
  BY <1>1, RdIs
<1>4. g = Rd(x, o)
  BY <1>2, RdIs
<1> QED BY <1>3, <1>4 DEF f, g

(* A value read goes behind the others.                                    *)
LEMMA ValueAdded == ASSUME NEW i, NEW o, NEW v PROVE Value(Rd(i, o), v) = Rd(i, Append(o, v))
<1>1. Value(Rd(i, o), v) = [Rd(i, o) EXCEPT !.out = Append(Rd(i, o).out, v)]
  BY DEF Value
<1>2. Rd(i, o).out = o
  BY DEF Rd
<1> DEFINE x == Append(o, v)
<1> HIDE DEF x
<1>3. [Rd(i, o) EXCEPT !.out = x] = Rd(i, x)
  BY RdChanges
<1> QED BY <1>1, <1>2, <1>3 DEF x

(* The length of a short sequence survives its uint16 field.               *)
LEMMA SizeOfShort ==
    ASSUME NEW S, NEW s \in Short(S)
    PROVE  Len(s) % W16 = Len(s) /\ Size16(s) = <<Len(s)>> /\ Len(s) \in Nat /\ s \in Seq(S)
<1>1. s \in Seq(S) /\ Len(s) < W16 /\ W16 \in Nat \ {0}
  BY WidthAssumption DEF Short
<1>2. Len(s) \in Nat
  BY <1>1, LenProperties
<1> DEFINE n == Len(s)
<1> HIDE DEF n
<1>3. n % W16 = n
  BY <1>1, <1>2 DEF n
<1> QED BY <1>1, <1>2, <1>3 DEF n, Size16

(* A number is read back.                                                  *)
LEMMA HeadRead ==
    ASSUME NEW v \in Int, NEW rest \in Seq(Int), NEW o
    PROVE  ReadNum(Rd(<<v>> \o rest, o)) = Rd(rest, Append(o, v))
<1>1. <<v>> \o rest # << >> /\ Head(<<v>> \o rest) = v /\ Tail(<<v>> \o rest) = rest
  OBVIOUS
<1> QED BY <1>1 DEF ReadNum, Rd, Value

(* Bytes of known length are read back.                                    *)
LEMMA Taking ==
    ASSUME NEW s \in Seq(Int), NEW rest \in Seq(Int), NEW o
    PROVE  /\ Taken(Rd(s \o rest, o), Len(s)) = Rd(rest, Append(o, s))
           /\ Len(s) <= Len(s \o rest)
<1>1. Len(s) \in Nat /\ Len(rest) \in Nat
  BY LenProperties
<1>2. /\ s \o rest \in Seq(Int) /\ Len(s \o rest) = Len(s) + Len(rest)
      /\ \A i \in 1..Len(s) + Len(rest) :
            (s \o rest)[i] = IF i <= Len(s) THEN s[i] ELSE rest[i - Len(s)]
  BY ConcatProperties
<1> DEFINE all == s \o rest
           m == Len(s)
           n == Len(rest)
<1>3. \A i \in 1..m + n : all[i] \in Int
  BY <1>2, ElementOfSeq
<1> HIDE DEF all, m, n
<1>4. /\ SubSeq(all, 1, m) \in Seq(Int) /\ Len(SubSeq(all, 1, m)) = m
      /\ \A i \in 1..m : SubSeq(all, 1, m)[i] = all[i]
  <2>1. \A i \in 1..m : all[i] \in Int
    BY <1>1, <1>3 DEF m, n
  <2>2. m \in Nat
    BY <1>1 DEF m
  <2> QED BY <2>1, <2>2, SubSeqProperties
<1>5. SubSeq(all, 1, m) = s
  <2>1. \A i \in 1..m : SubSeq(all, 1, m)[i] = s[i]
    BY <1>1, <1>2, <1>4 DEF m, n, all
  <2> QED BY <1>4, <2>1, SeqEqual DEF m
<1>6. /\ SubSeq(all, m + 1, m + n) \in Seq(Int) /\ Len(SubSeq(all, m + 1, m + n)) = n
      /\ \A i \in 1..n : SubSeq(all, m + 1, m + n)[i] = all[m + i]
  <2>1. m \in Nat /\ n \in Nat
    BY <1>1 DEF m, n
  <2>2. \A i \in m + 1..m + n : all[i] \in Int
    BY <2>1, <1>3
  <2> DEFINE x == m + 1
             y == m + n
  <2>3. /\ x \in Int /\ y \in Int /\ y - x + 1 = n /\ (x <= y <=> n > 0)
        /\ \A i \in 1..n : x + i - 1 = m + i
    BY <2>1
  <2> HIDE DEF x, y
  <2>4. \A i \in x..y : all[i] \in Int
    BY <2>2 DEF x, y
  <2>5. /\ SubSeq(all, x, y) \in Seq(Int)
        /\ Len(SubSeq(all, x, y)) = IF x <= y THEN y - x + 1 ELSE 0
        /\ \A i \in 1..y - x + 1 : SubSeq(all, x, y)[i] = all[x + i - 1]
    BY <2>3, <2>4, SubSeqProperties
  <2> DEFINE sub == SubSeq(all, x, y)
  <2> HIDE DEF sub
  <2>6. sub \in Seq(Int) /\ Len(sub) = n
    <3>1. sub \in Seq(Int) /\ Len(sub) = IF x <= y THEN y - x + 1 ELSE 0
      BY <2>5 DEF sub
    <3> QED BY <2>1, <2>3, <3>1
  <2>7. \A i \in 1..n : sub[i] = all[m + i]
    <3>1. \A i \in 1..n : sub[i] = all[x + i - 1]
      BY <2>3, <2>5 DEF sub
    <3> QED BY <2>3, <3>1
  <2> QED BY <2>6, <2>7 DEF sub, x, y
<1>7. SubSeq(all, m + 1, Len(all)) = rest
  <2>1. m + n = Len(all)
    BY <1>2 DEF m, n, all
  <2>2. \A i \in 1..n : m + i \in 1..m + n /\ ~(m + i <= m) /\ m + i - m = i
    BY <1>1 DEF m, n
  <2>3. \A i \in 1..n : SubSeq(all, m + 1, m + n)[i] = rest[i]
    BY <2>2, <1>2, <1>6 DEF m, n, all
  <2>4. SubSeq(all, m + 1, m + n) = rest
    BY <1>6, <2>3, SeqEqual DEF n
  <2> QED BY <2>1, <2>4
<1>8. Taken(Rd(all, o), m) = Rd(SubSeq(all, m + 1, Len(all)), Append(o, SubSeq(all, 1, m)))
  <2> DEFINE back == SubSeq(all, m + 1, Len(all))
             front == SubSeq(all, 1, m)
  <2>1. Rd(all, o).in = all
    BY DEF Rd
  <2>2. Taken(Rd(all, o), m) = Value([Rd(all, o) EXCEPT !.in = back], front)
    BY <2>1 DEF Taken
  <2> HIDE DEF back, front
  <2>3. [Rd(all, o) EXCEPT !.in = back] = Rd(back, o)
    BY RdChanges
  <2>4. Value(Rd(back, o), front) = Rd(back, Append(o, front))
    BY ValueAdded
  <2> QED BY <2>2, <2>3, <2>4 DEF back, front
<1>9. m <= Len(all)
  BY <1>1, <1>2 DEF m, n, all
<1> QED BY <1>5, <1>7, <1>8, <1>9 DEF all, m

(* After a length, reading goes on with what follows it.                   *)
LEMMA AfterSize ==
    ASSUME NEW n \in Int, NEW rest \in Seq(Int), NEW o
    PROVE  LET size == ReadNum([Rd(<<n>> \o rest, o) EXCEPT !.out = << >>])
           IN  [size EXCEPT !.out = o] = Rd(rest, o) /\ size.out[1] = n
<1> DEFINE all == <<n>> \o rest
<1> HIDE DEF all
<1>1. [Rd(all, o) EXCEPT !.out = << >>] = Rd(all, << >>)
  BY RdChanges
<1>2. ReadNum(Rd(<<n>> \o rest, << >>)) = Rd(rest, Append(<< >>, n))
  BY HeadRead
<1>3. Append(<< >>, n)[1] = n
  OBVIOUS
<1>4. [Rd(rest, Append(<< >>, n)) EXCEPT !.out = o] = Rd(rest, o)
  BY RdChanges
<1>5. Rd(rest, Append(<< >>, n)).out = Append(<< >>, n)
  BY DEF Rd
<1> QED BY <1>1, <1>2, <1>3, <1>4, <1>5 DEF all

(* ByteReader::readBlob gives what writeBlob wrote.                        *)
LEMMA BlobRead ==
    ASSUME NEW s \in Seq(Int), NEW rest \in Seq(Int), NEW o
    PROVE  ReadBlob(Rd(<<Len(s)>> \o (s \o rest), o)) = Rd(rest, Append(o, s))
<1> DEFINE in == Rd(<<Len(s)>> \o (s \o rest), o)
           size == ReadNum([in EXCEPT !.out = << >>])
           b == [size EXCEPT !.out = in.out]
<1>1. Len(s) \in Int /\ s \o rest \in Seq(Int)
  BY LenProperties, ConcatProperties
<1>2. in.out = o
  BY DEF Rd
<1>3. b = Rd(s \o rest, o) /\ size.out[1] = Len(s)
  <2>1. LET z == ReadNum([Rd(<<Len(s)>> \o (s \o rest), o) EXCEPT !.out = << >>])
        IN  [z EXCEPT !.out = o] = Rd(s \o rest, o) /\ z.out[1] = Len(s)
    BY <1>1, AfterSize
  <2>2. b = [size EXCEPT !.out = o]
    BY <1>2
  <2> QED BY <2>1, <2>2
<1>4. ReadBlob(in) = IF size.out[1] <= Len(b.in) THEN Taken(b, size.out[1])
                     ELSE Failed(b, Zeros(size.out[1]))
  BY DEF ReadBlob, Sized
<1> HIDE DEF size, b, in
<1>5. b.in = s \o rest
  BY <1>3 DEF Rd
<1>6. ReadBlob(in) = Taken(b, Len(s))
  BY <1>3, <1>4, <1>5, Taking
<1> QED BY <1>3, <1>6, Taking DEF in

(* ByteReader::readString gives what writeString wrote.                    *)
LEMMA TextRead ==
    ASSUME NEW s \in Seq(Int), NEW rest \in Seq(Int), NEW o
    PROVE  ReadText(Rd(<<Len(s)>> \o (s \o rest), o)) = Rd(rest, Append(o, s))
<1> DEFINE in == Rd(<<Len(s)>> \o (s \o rest), o)
           size == ReadNum([in EXCEPT !.out = << >>])
           b == [size EXCEPT !.out = in.out]
<1>1. Len(s) \in Int /\ s \o rest \in Seq(Int)
  BY LenProperties, ConcatProperties
<1>2. in.out = o
  BY DEF Rd
<1>3. b = Rd(s \o rest, o) /\ size.out[1] = Len(s)
  <2>1. LET z == ReadNum([Rd(<<Len(s)>> \o (s \o rest), o) EXCEPT !.out = << >>])
        IN  [z EXCEPT !.out = o] = Rd(s \o rest, o) /\ z.out[1] = Len(s)
    BY <1>1, AfterSize
  <2>2. b = [size EXCEPT !.out = o]
    BY <1>2
  <2> QED BY <2>1, <2>2
<1>4. ReadText(in) = IF b.ok /\ size.out[1] <= Len(b.in) THEN Taken(b, size.out[1])
                     ELSE Failed(b, << >>)
  BY DEF ReadText, Sized
<1> HIDE DEF size, b, in
<1>5. b.in = s \o rest /\ b.ok
  BY <1>3 DEF Rd
<1>6. ReadText(in) = Taken(b, Len(s))
  BY <1>3, <1>4, <1>5, Taking
<1> QED BY <1>3, <1>6, Taking DEF in
------------------------------------------------------------------------------
(* Values read so far: the front of what was saved.                        *)
Upto(v, n) == SubSeq(v, 1, n)

(* A read extends the front by one.                                        *)
LEMMA FrontGrows ==
    ASSUME NEW S, NEW v \in Seq(S), NEW i \in 1..Len(v)
    PROVE  Append(Upto(v, i - 1), v[i]) = Upto(v, i)
<1>1. Len(v) \in Nat /\ i \in Nat /\ i >= 1 /\ i <= Len(v)
  BY LenProperties
<1>2. \A k \in 1..i : v[k] \in S
  BY <1>1, ElementOfSeq
<1> DEFINE s == SubSeq(v, 1, i - 1)
           t == SubSeq(v, 1, i)
           u == Append(s, v[i])
<1>3. s \in Seq(S) /\ Len(s) = i - 1 /\ \A k \in 1..i - 1 : s[k] = v[k]
  <2>1. \A k \in 1..i - 1 : v[k] \in S
    BY <1>1, <1>2
  <2>2. /\ s \in Seq(S) /\ Len(s) = IF 1 <= i - 1 THEN i - 1 - 1 + 1 ELSE 0
        /\ \A k \in 1..i - 1 - 1 + 1 : s[k] = v[1 + k - 1]
    BY <1>1, <2>1, SubSeqProperties
  <2>3. i - 1 - 1 + 1 = i - 1 /\ \A k \in 1..i - 1 : 1 + k - 1 = k
    BY <1>1
  <2> HIDE DEF s
  <2> QED BY <1>1, <2>2, <2>3
<1>4. t \in Seq(S) /\ Len(t) = i /\ \A k \in 1..i : t[k] = v[k]
  <2>1. /\ t \in Seq(S) /\ Len(t) = IF 1 <= i THEN i - 1 + 1 ELSE 0
        /\ \A k \in 1..i - 1 + 1 : t[k] = v[1 + k - 1]
    BY <1>1, <1>2, SubSeqProperties
  <2>2. i - 1 + 1 = i /\ \A k \in 1..i : 1 + k - 1 = k
    BY <1>1
  <2> HIDE DEF t
  <2> QED BY <1>1, <2>1, <2>2
<1> HIDE DEF s, t
<1>5. v[i] \in S
  BY <1>1, <1>2
<1>6. u \in Seq(S) /\ Len(u) = i /\ \A k \in 1..i - 1 : u[k] = s[k]
  BY <1>1, <1>3, <1>5, AppendProperties
<1>7. u[i] = v[i]
  <2>1. u[Len(s) + 1] = v[i]
    BY <1>3, <1>5, AppendProperties
  <2> QED BY <1>1, <1>3, <2>1
<1> HIDE DEF u
<1>8. \A k \in 1..i : u[k] = t[k]
  BY <1>1, <1>3, <1>4, <1>6, <1>7
<1>9. u = t
  BY <1>4, <1>6, <1>8, SeqEqual
<1> QED BY <1>9 DEF u, s, t, Upto

(* Nothing read, and all read.                                             *)
LEMMA FrontEnds ==
    ASSUME NEW S, NEW v \in Seq(S)
    PROVE  Upto(v, 0) = << >> /\ Upto(v, Len(v)) = v
BY SubSeqEmpty, SubSeqFull DEF Upto

(* Induction over the numbers, for a set.                                  *)
LEMMA SetInduction ==
    ASSUME NEW S, 0 \in S, \A n \in Nat : n \in S => n + 1 \in S
    PROVE  Nat \subseteq S
<1> DEFINE T == Nat \ S
<1> SUFFICES ASSUME T # {} PROVE FALSE
  OBVIOUS
<1>1. PICK n \in T : \A m \in T : ~(<<m, n>> \in OpToRel(<, Nat))
  <2>1. T \subseteq Nat
    OBVIOUS
  <2> HIDE DEF T
  <2> QED BY <2>1, NatLessThanWellFounded, WFMin
<1>2. n \in Nat /\ n # 0
  OBVIOUS
<1>3. n - 1 \in Nat /\ n - 1 < n
  BY <1>2
<1>4. n - 1 \notin T
  <2>1. <<n - 1, n>> \in OpToRel(<, Nat)
    BY <1>2, <1>3 DEF OpToRel
  <2> QED BY <1>1, <2>1
<1>5. (n - 1) + 1 \in S
  BY <1>3, <1>4
<1> QED BY <1>2, <1>5

(* Two runs that take the same steps end in the same.                      *)
LEMMA SameRun ==
    ASSUME NEW n \in Nat, NEW f, NEW g, f[0] = g[0],
           \A i \in 1..n : f[i - 1] = g[i - 1] => f[i] = g[i]
    PROVE  f[n] = g[n]
<1> DEFINE S == {i \in Nat : i <= n => f[i] = g[i]}
<1>1. 0 \in S
  OBVIOUS
<1>2. \A i \in Nat : i \in S => i + 1 \in S
  <2> SUFFICES ASSUME NEW i \in Nat, i \in S, i + 1 <= n PROVE f[i + 1] = g[i + 1]
    OBVIOUS
  <2>1. i <= n /\ i + 1 \in 1..n /\ (i + 1) - 1 = i
    OBVIOUS
  <2> QED BY <2>1
<1> HIDE DEF S
<1>3. n \in S
  BY <1>1, <1>2, SetInduction
<1> QED BY <1>3 DEF S

(* What Flat leaves after each part.                                       *)
LEMMA FlatRun ==
    ASSUME NEW parts \in Seq(Seq(Int))
    PROVE  \E f \in [0..Len(parts) -> Seq(Int)] :
              /\ f[0] = Flat(parts) /\ f[Len(parts)] = << >>
              /\ \A i \in 1..Len(parts) : f[i - 1] = parts[i] \o f[i]
<1> DEFINE m == Len(parts)
           IsRun(j, g) == /\ g \in [0..j -> Seq(Int)] /\ g[0] = << >>
                          /\ \A k \in 1..j : g[k] = parts[m - k + 1] \o g[k - 1]
           S == {j \in Nat : j <= m => \E g : IsRun(j, g)}
<1>1. m \in Nat /\ \A i \in 1..m : parts[i] \in Seq(Int)
  BY LenProperties, ElementOfSeq
<1>2. 0 \in S
  <2>1. IsRun(0, [k \in 0..0 |-> << >>])
    OBVIOUS
  <2> QED BY <2>1
<1>3. \A j \in Nat : j \in S => j + 1 \in S
  <2> SUFFICES ASSUME NEW j \in Nat, j \in S PROVE j + 1 \in S
    OBVIOUS
  <2> HIDE DEF IsRun
  <2> SUFFICES ASSUME j + 1 <= m PROVE \E g : IsRun(j + 1, g)
    OBVIOUS
  <2>1. j <= m /\ j + 1 \in Nat
    BY <1>1
  <2>2. PICK g : IsRun(j, g)
    BY <2>1
  <2> USE DEF IsRun
  <2> DEFINE h == [k \in 0..j + 1 |-> IF k <= j THEN g[k] ELSE parts[m - (j + 1) + 1] \o g[j]]
  <2>3. m - (j + 1) + 1 \in 1..m
    BY <1>1
  <2>4. parts[m - (j + 1) + 1] \o g[j] \in Seq(Int)
    <3>1. parts[m - (j + 1) + 1] \in Seq(Int) /\ g[j] \in Seq(Int)
      BY <1>1, <2>2, <2>3
    <3> QED BY <3>1, ConcatProperties
  <2>5. h \in [0..j + 1 -> Seq(Int)] /\ h[0] = << >>
    BY <2>2, <2>4
  <2>6. \A k \in 1..j + 1 : h[k] = parts[m - k + 1] \o h[k - 1]
    <3>1. (\A k \in 0..j : h[k] = g[k]) /\ h[j + 1] = parts[m - (j + 1) + 1] \o g[j]
      <4> DEFINE x == parts[m - (j + 1) + 1] \o g[j]
      <4> HIDE DEF x
      <4>1. h = [k \in 0..j + 1 |-> IF k <= j THEN g[k] ELSE x]
        BY DEF x
      <4> HIDE DEF h
      <4>2. (\A k \in 0..j : k \in 0..j + 1 /\ k <= j) /\ j + 1 \in 0..j + 1 /\ ~(j + 1 <= j)
        OBVIOUS
      <4>3. (\A k \in 0..j : h[k] = g[k]) /\ h[j + 1] = x
        BY <4>1, <4>2
      <4> QED BY <4>3 DEF x
    <3> HIDE DEF h
    <3>2. ASSUME NEW k \in 1..j + 1, k <= j PROVE h[k] = parts[m - k + 1] \o h[k - 1]
      <4>1. k \in 0..j /\ k - 1 \in 0..j /\ k \in 1..j
        BY <3>2
      <4>2. g[k] = parts[m - k + 1] \o g[k - 1]
        BY <2>2, <4>1
      <4> QED BY <3>1, <4>1, <4>2
    <3>3. ASSUME NEW k \in 1..j + 1, k = j + 1 PROVE h[k] = parts[m - k + 1] \o h[k - 1]
      <4>1. k - 1 = j /\ j \in 0..j
        BY <3>3
      <4> QED BY <3>1, <3>3, <4>1
    <3>4. \A k \in 1..j + 1 : k <= j \/ k = j + 1
      OBVIOUS
    <3> QED BY <3>2, <3>3, <3>4
  <2> HIDE DEF h
  <2> QED BY <2>5, <2>6
<1> HIDE DEF S, IsRun
<1>4. m \in S
  BY <1>1, <1>2, <1>3, SetInduction
<1>5. PICK g : IsRun(m, g)
  <2>1. m <= m
    BY <1>1
  <2> QED BY <1>4, <2>1 DEF S
<1> USE DEF IsRun
<1> DEFINE last == CHOOSE h :
                h = [k \in 0..m |-> IF k = 0 THEN << >> ELSE parts[m - k + 1] \o h[k - 1]]
<1>6. g = [k \in 0..m |-> IF k = 0 THEN << >> ELSE parts[m - k + 1] \o g[k - 1]]
  <2>1. \A k \in 0..m : k = 0 \/ k \in 1..m
    BY <1>1
  <2> QED BY <1>5, <2>1
<1>7. last = [k \in 0..m |-> IF k = 0 THEN << >> ELSE parts[m - k + 1] \o last[k - 1]]
  BY <1>6
<1>8. Flat(parts) = last[m]
  BY DEF Flat
<1> HIDE DEF last
<1>9. \A k \in 0..m : last[k] = g[k]
  <2> SUFFICES ASSUME NEW k \in 0..m PROVE last[k] = g[k]
    OBVIOUS
  <2>1. last[0] = g[0]
    BY <1>1, <1>5, <1>7
  <2>2. ASSUME NEW i \in 1..k, last[i - 1] = g[i - 1] PROVE last[i] = g[i]
    <3>1. i \in 0..m /\ i # 0 /\ i \in 1..m
      BY <1>1
    <3>2. last[i] = parts[m - i + 1] \o last[i - 1]
      BY <1>7, <3>1
    <3>3. g[i] = parts[m - i + 1] \o g[i - 1]
      BY <1>5, <3>1
    <3> QED BY <2>2, <3>2, <3>3
  <2> QED BY <2>1, <2>2, SameRun
<1> DEFINE f == [i \in 0..m |-> g[m - i]]
<1>10. f \in [0..m -> Seq(Int)]
  BY <1>1, <1>5
<1>11. f[0] = Flat(parts) /\ f[m] = << >>
  BY <1>1, <1>5, <1>8, <1>9
<1>12. \A i \in 1..m : f[i - 1] = parts[i] \o f[i]
  <2> SUFFICES ASSUME NEW i \in 1..m PROVE f[i - 1] = parts[i] \o f[i]
    OBVIOUS
  <2>1. m - (i - 1) \in 1..m /\ m - (m - (i - 1)) + 1 = i /\ m - (i - 1) - 1 = m - i
    BY <1>1
  <2>2. g[m - (i - 1)] = parts[m - (m - (i - 1)) + 1] \o g[m - (i - 1) - 1]
    BY <1>5, <2>1
  <2> QED BY <1>1, <2>1, <2>2
<1> QED BY <1>10, <1>11, <1>12
------------------------------------------------------------------------------
(* Concatenation is associative.                                           *)
LEMMA Nested == \A p, q, r \in Seq(Int) : (p \o q) \o r = p \o (q \o r)
<1> TAKE p, q, r \in Seq(Int)
<1> QED BY ConcatAssociative, SMTT(30)

(* Three parts, joined one way and the other, and their types.             *)
LEMMA Three ==
    ASSUME NEW p \in Seq(Int), NEW q \in Seq(Int), NEW r \in Seq(Int)
    PROVE  p \o q \in Seq(Int) /\ (p \o q) \o r \in Seq(Int) /\ (p \o q) \o r = p \o (q \o r)
<1>1. p \o q \in Seq(Int)
  BY ConcatProperties
<1> DEFINE x == p \o q
<1> HIDE DEF x
<1>2. x \o r \in Seq(Int)
  BY <1>1, ConcatProperties DEF x
<1>3. x \o r = p \o (q \o r)
  BY ConcatAssociative, SMTT(30) DEF x
<1> QED BY <1>1, <1>2, <1>3 DEF x

(* One value more: a number, a text, a blob.                               *)
LEMMA NumNext ==
    ASSUME NEW S, NEW v \in Seq(S), NEW i \in 1..Len(v), v[i] \in Int, NEW rest \in Seq(Int)
    PROVE  /\ ReadNum(Rd(<<v[i]>> \o rest, Upto(v, i - 1))) = Rd(rest, Upto(v, i))
           /\ <<v[i]>> \o rest \in Seq(Int)
<1> DEFINE o == Upto(v, i - 1)
           x == v[i]
<1>1. Append(o, x) = Upto(v, i)
  BY FrontGrows
<1>2. x \in Int
  OBVIOUS
<1> HIDE DEF o, x
<1>3. ReadNum(Rd(<<x>> \o rest, o)) = Rd(rest, Append(o, x))
  BY <1>2, HeadRead
<1>4. <<x>> \o rest \in Seq(Int)
  BY <1>2, ConcatProperties
<1> QED BY <1>1, <1>3, <1>4 DEF o, x

LEMMA TextNext ==
    ASSUME NEW S, NEW v \in Seq(S), NEW i \in 1..Len(v), v[i] \in Short(Int), NEW rest \in Seq(Int)
    PROVE  /\ ReadText(Rd(Text(v[i]) \o rest, Upto(v, i - 1))) = Rd(rest, Upto(v, i))
           /\ Text(v[i]) \in Seq(Int) /\ Text(v[i]) \o rest \in Seq(Int)
<1> DEFINE s == v[i]
           o == Upto(v, i - 1)
<1>1. s \in Seq(Int) /\ Size16(s) = <<Len(s)>> /\ Len(s) \in Nat
  BY SizeOfShort
<1>2. Append(o, s) = Upto(v, i)
  BY FrontGrows
<1> HIDE DEF s, o
<1>3. <<Len(s)>> \in Seq(Int)
  BY <1>1
<1>4. Text(s) = <<Len(s)>> \o s /\ Text(s) \in Seq(Int)
  BY <1>1, <1>3, ConcatProperties DEF Text
<1>5. Text(s) \o rest = <<Len(s)>> \o (s \o rest) /\ Text(s) \o rest \in Seq(Int)
  <2> DEFINE l == <<Len(s)>>
  <2>1. l \in Seq(Int) /\ Text(s) = l \o s
    BY <1>3, <1>4
  <2> HIDE DEF l
  <2>2. (l \o s) \o rest = l \o (s \o rest) /\ (l \o s) \o rest \in Seq(Int)
    BY <1>1, <2>1, Three
  <2> QED BY <2>1, <2>2 DEF l
<1>6. ReadText(Rd(Text(s) \o rest, o)) = Rd(rest, Append(o, s))
  BY <1>1, <1>5, TextRead
<1> QED BY <1>2, <1>4, <1>5, <1>6 DEF s, o

LEMMA BlobNext ==
    ASSUME NEW S, NEW v \in Seq(S), NEW i \in 1..Len(v), v[i] \in Seq(Int), NEW rest \in Seq(Int)
    PROVE  /\ ReadBlob(Rd(Blob(v[i]) \o rest, Upto(v, i - 1))) = Rd(rest, Upto(v, i))
           /\ Blob(v[i]) \in Seq(Int) /\ Blob(v[i]) \o rest \in Seq(Int)
<1> DEFINE s == v[i]
           o == Upto(v, i - 1)
<1>1. s \in Seq(Int) /\ Len(s) \in Nat
  BY LenProperties
<1>2. Append(o, s) = Upto(v, i)
  BY FrontGrows
<1> HIDE DEF s, o
<1>3. <<Len(s)>> \in Seq(Int)
  BY <1>1
<1>4. Blob(s) = <<Len(s)>> \o s /\ Blob(s) \in Seq(Int)
  BY <1>1, <1>3, ConcatProperties DEF Blob
<1>5. Blob(s) \o rest = <<Len(s)>> \o (s \o rest) /\ Blob(s) \o rest \in Seq(Int)
  <2> DEFINE l == <<Len(s)>>
  <2>1. l \in Seq(Int) /\ Blob(s) = l \o s
    BY <1>3, <1>4
  <2> HIDE DEF l
  <2>2. (l \o s) \o rest = l \o (s \o rest) /\ (l \o s) \o rest \in Seq(Int)
    BY <1>1, <2>1, Three
  <2> QED BY <2>1, <2>2 DEF l
<1>6. ReadBlob(Rd(Blob(s) \o rest, o)) = Rd(rest, Append(o, s))
  BY <1>1, <1>5, BlobRead
<1> QED BY <1>2, <1>4, <1>5, <1>6 DEF s, o

(* A component: its data has a uint16 length, and is read as a blob.       *)
LEMMA ComponentRead ==
    ASSUME NEW d \in Components, NEW rest \in Seq(Int)
    PROVE  /\ WriteComponent(d) \in Seq(Int)
           /\ ReadComponent(Rd(WriteComponent(d) \o rest, << >>)) = Rd(rest, d)
<1> DEFINE T == Int \union Short(Int)
           head == <<d[1]>>
           data == Blob(d[2])
<1>1. d \in Seq(T) /\ Len(d) = 2 /\ d[1] \in Int /\ d[2] \in Short(Int)
  <2>1. d = <<d[1], d[2]>> /\ d[1] \in Int /\ d[2] \in Short(Int)
    BY DEF Components
  <2>2. /\ <<d[1], d[2]>> \in Seq(T)
       /\ Len(<<d[1], d[2]>>) = 2
    BY <2>1
  <2> QED BY <2>1, <2>2
<1> HIDE DEF T
<1>2. head \in Seq(Int) /\ d[2] \in Seq(Int) /\ Size16(d[2]) = <<Len(d[2])>>
      /\ <<Len(d[2])>> \in Seq(Int)
  BY <1>1, SizeOfShort
<1>3. (head \o <<Len(d[2])>>) \o d[2] = head \o data
  BY <1>2, ConcatAssociative DEF Blob
<1>4. WriteComponent(d) = head \o data
  BY <1>2, <1>3 DEF WriteComponent
<1>5. data \in Seq(Int)
  BY <1>2, ConcatProperties DEF Blob
<1>6. 1 \in 1..Len(d) /\ 2 \in 1..Len(d) /\ 1 - 1 = 0 /\ 2 - 1 = 1
  BY <1>1
<1>7. ReadBlob(Rd(data \o rest, Upto(d, 1))) = Rd(rest, Upto(d, 2)) /\ data \o rest \in Seq(Int)
  <2>1. ReadBlob(Rd(Blob(d[2]) \o rest, Upto(d, 2 - 1))) = Rd(rest, Upto(d, 2))
        /\ Blob(d[2]) \o rest \in Seq(Int)
    BY <1>1, <1>2, <1>6, BlobNext
  <2> QED BY <2>1, <1>6
<1>8. ReadNum(Rd(head \o (data \o rest), Upto(d, 0))) = Rd(data \o rest, Upto(d, 1))
  <2>1. ReadNum(Rd(<<d[1]>> \o (data \o rest), Upto(d, 1 - 1))) = Rd(data \o rest, Upto(d, 1))
    BY <1>1, <1>6, <1>7, NumNext
  <2> QED BY <2>1, <1>6
<1> HIDE DEF head, data
<1>9. WriteComponent(d) \in Seq(Int) /\ WriteComponent(d) \o rest = head \o (data \o rest)
  <2>1. head \in Seq(Int) /\ data \in Seq(Int)
    BY <1>2, <1>5
  <2>2. head \o data \in Seq(Int) /\ (head \o data) \o rest = head \o (data \o rest)
    BY <2>1, Three, ZenonT(30)
  <2> QED BY <2>2, <1>4
<1>10. Upto(d, 0) = << >> /\ Upto(d, 2) = d
  BY <1>1, FrontEnds
<1> QED BY <1>7, <1>8, <1>9, <1>10 DEF ReadComponent
------------------------------------------------------------------------------
(* The input at each item of a list, with what follows the list.           *)
LEMMA FlatRest ==
    ASSUME NEW parts \in Seq(Seq(Int)), NEW rest \in Seq(Int)
    PROVE  /\ Flat(parts) \in Seq(Int)
           /\ \E f \in [0..Len(parts) -> Seq(Int)] :
                 /\ f[0] = Flat(parts) \o rest /\ f[Len(parts)] = rest
                 /\ \A i \in 1..Len(parts) : f[i - 1] = parts[i] \o f[i]
<1> DEFINE m == Len(parts)
<1>1. m \in Nat /\ \A i \in 1..m : parts[i] \in Seq(Int)
  BY LenProperties, ElementOfSeq
<1>2. PICK g \in [0..m -> Seq(Int)] : /\ g[0] = Flat(parts) /\ g[m] = << >>
                                      /\ \A i \in 1..m : g[i - 1] = parts[i] \o g[i]
  BY FlatRun
<1> DEFINE f == [i \in 0..m |-> g[i] \o rest]
<1>3. f \in [0..m -> Seq(Int)]
  BY <1>2, ConcatProperties
<1>4. f[0] = Flat(parts) \o rest /\ f[m] = rest
  BY <1>1, <1>2, ConcatEmptySeq
<1>5. ASSUME NEW i \in 1..m PROVE f[i - 1] = parts[i] \o f[i]
  <2>1. i \in 0..m /\ i - 1 \in 0..m
    BY <1>1
  <2>2. parts[i] \in Seq(Int) /\ g[i] \in Seq(Int) /\ g[i - 1] = parts[i] \o g[i]
    BY <1>1, <1>2, <2>1
  <2>3. (parts[i] \o g[i]) \o rest = parts[i] \o (g[i] \o rest)
    BY <2>2, Nested
  <2> QED BY <2>1, <2>2, <2>3
<1>6. Flat(parts) \in Seq(Int)
  BY <1>1, <1>2
<1> HIDE DEF f
<1> QED BY <1>3, <1>4, <1>5, <1>6

(* A list of components is read back: after i items the reader has the     *)
(* first i of them, and the input of the next.                             *)
LEMMA ComponentsRead ==
    ASSUME NEW s \in Seq(Components), NEW rest \in Seq(Int), NEW o
    PROVE  /\ Each(WriteComponent, s) \in Seq(Int)
           /\ ReadList(Rd(<<Len(s)>> \o (Each(WriteComponent, s) \o rest), o), ReadComponent)
                = Rd(rest, Append(o, s))
<1> DEFINE n == Len(s)
           parts == [i \in 1..n |-> WriteComponent(s[i])]
           in == Rd(<<n>> \o (Flat(parts) \o rest), o)
           size == ReadNum([in EXCEPT !.out = << >>])
           b == [size EXCEPT !.out = in.out]
           Goes(l) == LET item == ReadComponent([l EXCEPT !.out = << >>])
                      IN  [item EXCEPT !.out = Append(l.out, item.out)]
           list(k) == CHOOSE g : g = [i \in 0..k |->
                         IF i = 0 THEN [b EXCEPT !.out = << >>]
                         ELSE IF g[i - 1].ok THEN Goes(g[i - 1]) ELSE g[i - 1]]
<1>1. n \in Nat /\ \A i \in 1..n : s[i] \in Components
  BY LenProperties, ElementOfSeq
<1>2. \A i \in 1..n : WriteComponent(s[i]) \in Seq(Int)
  BY <1>1, ComponentRead, EmptySeq
<1>3. parts \in Seq(Seq(Int)) /\ Len(parts) = n
  BY <1>1, <1>2
<1>4. Each(WriteComponent, s) = Flat(parts)
  BY DEF Each
<1>5. ReadList(in, ReadComponent)
        = [list(size.out[1])[size.out[1]] EXCEPT
               !.out = Append(b.out, list(size.out[1])[size.out[1]].out)]
  BY DEF ReadList, Sized
<1> HIDE DEF parts
<1>6. PICK W \in [0..n -> Seq(Int)] : /\ W[0] = Flat(parts) \o rest /\ W[n] = rest
                                      /\ \A i \in 1..n : W[i - 1] = parts[i] \o W[i]
  <2>1. \E f \in [0..Len(parts) -> Seq(Int)] :
           /\ f[0] = Flat(parts) \o rest /\ f[Len(parts)] = rest
           /\ \A i \in 1..Len(parts) : f[i - 1] = parts[i] \o f[i]
    BY <1>3, FlatRest
  <2> QED BY <1>3, <2>1
<1>7. Flat(parts) \in Seq(Int) /\ Flat(parts) \o rest \in Seq(Int)
  <2>0. 0 \in 0..n
    BY <1>1
  <2>1. W[0] \in Seq(Int)
    BY <2>0, <1>6
  <2> QED BY <2>1, <1>3, <1>6, FlatRest
<1>8. b = Rd(W[0], o) /\ size.out[1] = n
  <2>1. LET z == ReadNum([Rd(<<n>> \o (Flat(parts) \o rest), o) EXCEPT !.out = << >>])
        IN  [z EXCEPT !.out = o] = Rd(Flat(parts) \o rest, o) /\ z.out[1] = n
    <3> DEFINE all == Flat(parts) \o rest
    <3> HIDE DEF all
    <3>1. n \in Int /\ all \in Seq(Int)
      BY <1>1, <1>7 DEF all
    <3>2. LET z == ReadNum([Rd(<<n>> \o all, o) EXCEPT !.out = << >>])
          IN  [z EXCEPT !.out = o] = Rd(all, o) /\ z.out[1] = n
      BY <3>1, AfterSize
    <3> QED BY <3>2 DEF all
  <2>2. in.out = o
    BY DEF Rd
  <2> QED BY <2>1, <2>2, <1>6
<1> HIDE DEF size, b, in
<1> DEFINE V == [i \in 0..n |-> Rd(W[i], Upto(s, i))]
<1>9. ASSUME NEW i \in 1..n PROVE Goes(V[i - 1]) = V[i] /\ V[i - 1].ok
  <2> DEFINE w == W[i]
             p == Upto(s, i - 1)
             x == s[i]
  <2>1. i \in 0..n /\ i - 1 \in 0..n /\ x \in Components
    BY <1>1
  <2>2. W[i] \in Seq(Int)
    BY <1>6, <2>1
  <2>8. W[i - 1] = WriteComponent(x) \o w
    BY <1>6 DEF parts
  <2>9. V[i - 1] = Rd(W[i - 1], p) /\ V[i] = Rd(w, Upto(s, i))
    BY <2>1
  <2>3. Append(p, x) = Upto(s, i)
    BY FrontGrows
  <2>10. w \in Seq(Int)
    BY <2>2
  <2> HIDE DEF V, w, p, x
  <2>4. [Rd(WriteComponent(x) \o w, p) EXCEPT !.out = << >>] = Rd(WriteComponent(x) \o w, << >>)
    BY RdChanges
  <2>5. ReadComponent(Rd(WriteComponent(x) \o w, << >>)) = Rd(w, x)
    BY <2>1, <2>10, ComponentRead
  <2>6. /\ Rd(WriteComponent(x) \o w, p).out = p /\ Rd(WriteComponent(x) \o w, p).ok
       /\ Rd(w, x).out = x
    BY DEF Rd
  <2>7. Goes(V[i - 1]) = [Rd(w, x) EXCEPT !.out = Append(p, x)]
    <3> DEFINE l == Rd(WriteComponent(x) \o w, p)
               item == ReadComponent([l EXCEPT !.out = << >>])
    <3>1. Goes(l) = [item EXCEPT !.out = Append(l.out, item.out)]
      OBVIOUS
    <3>2. item = Rd(w, x) /\ l.out = p /\ item.out = x
      BY <2>4, <2>5, <2>6
    <3>3. V[i - 1] = l
      BY <2>8, <2>9
    <3> HIDE DEF Goes, l, item
    <3> QED BY <3>1, <3>2, <3>3
  <2>11. [Rd(w, x) EXCEPT !.out = Append(p, x)] = Rd(w, Append(p, x))
    <3> DEFINE y == Append(p, x)
    <3> HIDE DEF y
    <3>1. [Rd(w, x) EXCEPT !.out = y] = Rd(w, y)
      BY RdChanges
    <3> QED BY <3>1 DEF y
  <2>12. Goes(V[i - 1]) = V[i]
    BY <2>3, <2>7, <2>9, <2>11
  <2>13. V[i - 1].ok
    BY <2>6, <2>8, <2>9
  <2> QED BY <2>12, <2>13
<1> HIDE DEF Goes
<1>10. V[0] = Rd(W[0], << >>) /\ V[n] = Rd(rest, s)
  <2>1. Upto(s, 0) = << >> /\ Upto(s, n) = s
    BY FrontEnds
  <2>2. V[0] = Rd(W[0], Upto(s, 0)) /\ V[n] = Rd(W[n], Upto(s, n))
    BY <1>1
  <2> QED BY <2>1, <2>2, <1>6
<1>11. [b EXCEPT !.out = << >>] = V[0]
  BY <1>8, <1>10, RdChanges
<1>12. V = [i \in 0..n |-> IF i = 0 THEN [b EXCEPT !.out = << >>]
                           ELSE IF V[i - 1].ok THEN Goes(V[i - 1]) ELSE V[i - 1]]
  <2>1. V = [i \in 0..n |-> V[i]] /\ \A i \in 0..n : i = 0 \/ i \in 1..n
    BY <1>1
  <2> HIDE DEF V
  <2> QED BY <1>9, <1>11, <2>1
<1> HIDE DEF V
<1> DEFINE G == list(n)
<1>13. G = [i \in 0..n |-> IF i = 0 THEN [b EXCEPT !.out = << >>]
                           ELSE IF G[i - 1].ok THEN Goes(G[i - 1]) ELSE G[i - 1]]
  BY <1>12
<1> HIDE DEF G
<1>14. G[n] = V[n]
  <2>1. G[0] = V[0]
    BY <1>1, <1>11, <1>13
  <2>2. ASSUME NEW i \in 1..n, G[i - 1] = V[i - 1] PROVE G[i] = V[i]
    <3>1. i \in 0..n /\ i # 0
      BY <1>1
    <3>2. G[i] = IF G[i - 1].ok THEN Goes(G[i - 1]) ELSE G[i - 1]
      BY <1>13, <3>1
    <3> QED BY <1>9, <2>2, <3>2
  <2> QED BY <1>1, <2>1, <2>2, SameRun
<1>15. ReadList(in, ReadComponent) = [G[n] EXCEPT !.out = Append(b.out, G[n].out)]
  BY <1>5, <1>8 DEF G
<1>16. b.out = o /\ G[n] = Rd(rest, s) /\ G[n].out = s
  BY <1>8, <1>10, <1>14 DEF Rd
<1>17. ReadList(in, ReadComponent) = Rd(rest, Append(o, s))
  <2> DEFINE y == Append(o, s)
  <2> HIDE DEF y
  <2>1. [Rd(rest, s) EXCEPT !.out = y] = Rd(rest, y)
    BY RdChanges
  <2> QED BY <2>1, <1>15, <1>16 DEF y
<1> QED BY <1>4, <1>7, <1>17 DEF in

(* A player of a match record.                                             *)
LEMMA PlayerRead ==
    ASSUME NEW q \in Players, NEW rest \in Seq(Int)
    PROVE  /\ WritePlayer(q) \in Seq(Int)
           /\ ReadPlayer(Rd(WritePlayer(q) \o rest, << >>)) = Rd(rest, q)
<1> DEFINE T == Int \union Short(Int)
           name == Text(q[2])
           tail == <<q[3]>> \o rest
<1>1. q \in Seq(T) /\ Len(q) = 3 /\ q[1] \in Int /\ q[2] \in Short(Int) /\ q[3] \in Int
  <2>1. q = <<q[1], q[2], q[3]>> /\ q[1] \in Int /\ q[2] \in Short(Int) /\ q[3] \in Int
    BY DEF Players
  <2>2. /\ <<q[1], q[2], q[3]>> \in Seq(T)
       /\ Len(<<q[1], q[2], q[3]>>) = 3
    BY <2>1
  <2> QED BY <2>1, <2>2
<1> HIDE DEF T
<1>2. 1 \in 1..Len(q) /\ 2 \in 1..Len(q) /\ 3 \in 1..Len(q) /\ 1 - 1 = 0 /\ 2 - 1 = 1 /\ 3 - 1 = 2
  BY <1>1
<1>3. ReadNum(Rd(tail, Upto(q, 2))) = Rd(rest, Upto(q, 3)) /\ tail \in Seq(Int)
  <2>1. /\ ReadNum(Rd(<<q[3]>> \o rest, Upto(q, 3 - 1))) = Rd(rest, Upto(q, 3))
        /\ <<q[3]>> \o rest \in Seq(Int)
    BY <1>1, <1>2, NumNext
  <2> QED BY <2>1, <1>2
<1>4. /\ ReadText(Rd(name \o tail, Upto(q, 1))) = Rd(tail, Upto(q, 2))
      /\ name \in Seq(Int) /\ name \o tail \in Seq(Int)
  <2> HIDE DEF tail
  <2>1. /\ ReadText(Rd(Text(q[2]) \o tail, Upto(q, 2 - 1))) = Rd(tail, Upto(q, 2))
        /\ Text(q[2]) \in Seq(Int) /\ Text(q[2]) \o tail \in Seq(Int)
    BY <1>1, <1>2, <1>3, TextNext
  <2> QED BY <2>1, <1>2
<1>5. ReadNum(Rd(<<q[1]>> \o (name \o tail), Upto(q, 0))) = Rd(name \o tail, Upto(q, 1))
  <2> HIDE DEF tail, name
  <2>1. ReadNum(Rd(<<q[1]>> \o (name \o tail), Upto(q, 1 - 1))) = Rd(name \o tail, Upto(q, 1))
    BY <1>1, <1>2, <1>4, NumNext
  <2> QED BY <2>1, <1>2
<1>6. <<q[1]>> \in Seq(Int) /\ <<q[3]>> \in Seq(Int)
  BY <1>1
<1>7. WritePlayer(q) = (<<q[1]>> \o name) \o <<q[3]>>
  BY DEF WritePlayer
<1> HIDE DEF name
<1>8. <<q[1]>> \o name \in Seq(Int) /\ WritePlayer(q) \in Seq(Int)
  BY <1>4, <1>6, <1>7, ConcatProperties
<1>9. WritePlayer(q) \o rest = <<q[1]>> \o (name \o tail)
  <2>1. ((<<q[1]>> \o name) \o <<q[3]>>) \o rest = (<<q[1]>> \o name) \o tail
    <3> DEFINE x == <<q[1]>> \o name
               y == <<q[3]>>
    <3>1. x \in Seq(Int) /\ y \in Seq(Int)
      BY <1>6, <1>8
    <3> HIDE DEF x, y
    <3>2. (x \o y) \o rest = x \o (y \o rest)
      BY <3>1, Three, SMTT(60)
    <3> QED BY <3>2 DEF x, y
  <2>2. (<<q[1]>> \o name) \o tail = <<q[1]>> \o (name \o tail)
    BY <1>3, <1>4, <1>6, Nested
  <2> QED BY <1>7, <2>1, <2>2
<1>10. Upto(q, 0) = << >> /\ Upto(q, 3) = q
  BY <1>1, FrontEnds
<1> QED BY <1>3, <1>4, <1>5, <1>8, <1>9, <1>10 DEF ReadPlayer

(* A list of players, likewise.                                            *)
LEMMA PlayersRead ==
    ASSUME NEW s \in Seq(Players), NEW rest \in Seq(Int), NEW o
    PROVE  /\ Each(WritePlayer, s) \in Seq(Int)
           /\ ReadList(Rd(<<Len(s)>> \o (Each(WritePlayer, s) \o rest), o), ReadPlayer)
                = Rd(rest, Append(o, s))
<1> DEFINE n == Len(s)
           parts == [i \in 1..n |-> WritePlayer(s[i])]
           in == Rd(<<n>> \o (Flat(parts) \o rest), o)
           size == ReadNum([in EXCEPT !.out = << >>])
           b == [size EXCEPT !.out = in.out]
           Goes(l) == LET item == ReadPlayer([l EXCEPT !.out = << >>])
                      IN  [item EXCEPT !.out = Append(l.out, item.out)]
           list(k) == CHOOSE g : g = [i \in 0..k |->
                         IF i = 0 THEN [b EXCEPT !.out = << >>]
                         ELSE IF g[i - 1].ok THEN Goes(g[i - 1]) ELSE g[i - 1]]
<1>1. n \in Nat /\ \A i \in 1..n : s[i] \in Players
  BY LenProperties, ElementOfSeq
<1>2. \A i \in 1..n : WritePlayer(s[i]) \in Seq(Int)
  BY <1>1, PlayerRead, EmptySeq
<1>3. parts \in Seq(Seq(Int)) /\ Len(parts) = n
  BY <1>1, <1>2
<1>4. Each(WritePlayer, s) = Flat(parts)
  BY DEF Each
<1>5. ReadList(in, ReadPlayer)
        = [list(size.out[1])[size.out[1]] EXCEPT
               !.out = Append(b.out, list(size.out[1])[size.out[1]].out)]
  BY DEF ReadList, Sized
<1> HIDE DEF parts
<1>6. PICK W \in [0..n -> Seq(Int)] : /\ W[0] = Flat(parts) \o rest /\ W[n] = rest
                                      /\ \A i \in 1..n : W[i - 1] = parts[i] \o W[i]
  <2>1. \E f \in [0..Len(parts) -> Seq(Int)] :
           /\ f[0] = Flat(parts) \o rest /\ f[Len(parts)] = rest
           /\ \A i \in 1..Len(parts) : f[i - 1] = parts[i] \o f[i]
    BY <1>3, FlatRest
  <2> QED BY <1>3, <2>1
<1>7. Flat(parts) \in Seq(Int) /\ Flat(parts) \o rest \in Seq(Int)
  <2>0. 0 \in 0..n
    BY <1>1
  <2>1. W[0] \in Seq(Int)
    BY <2>0, <1>6
  <2> QED BY <2>1, <1>3, <1>6, FlatRest
<1>8. b = Rd(W[0], o) /\ size.out[1] = n
  <2>1. LET z == ReadNum([Rd(<<n>> \o (Flat(parts) \o rest), o) EXCEPT !.out = << >>])
        IN  [z EXCEPT !.out = o] = Rd(Flat(parts) \o rest, o) /\ z.out[1] = n
    <3> DEFINE all == Flat(parts) \o rest
    <3> HIDE DEF all
    <3>1. n \in Int /\ all \in Seq(Int)
      BY <1>1, <1>7 DEF all
    <3>2. LET z == ReadNum([Rd(<<n>> \o all, o) EXCEPT !.out = << >>])
          IN  [z EXCEPT !.out = o] = Rd(all, o) /\ z.out[1] = n
      BY <3>1, AfterSize
    <3> QED BY <3>2 DEF all
  <2>2. in.out = o
    BY DEF Rd
  <2> QED BY <2>1, <2>2, <1>6
<1> HIDE DEF size, b, in
<1> DEFINE V == [i \in 0..n |-> Rd(W[i], Upto(s, i))]
<1>9. ASSUME NEW i \in 1..n PROVE Goes(V[i - 1]) = V[i] /\ V[i - 1].ok
  <2> DEFINE w == W[i]
             p == Upto(s, i - 1)
             x == s[i]
  <2>1. i \in 0..n /\ i - 1 \in 0..n /\ x \in Players
    BY <1>1
  <2>2. W[i] \in Seq(Int)
    BY <1>6, <2>1
  <2>8. W[i - 1] = WritePlayer(x) \o w
    BY <1>6 DEF parts
  <2>9. V[i - 1] = Rd(W[i - 1], p) /\ V[i] = Rd(w, Upto(s, i))
    BY <2>1
  <2>3. Append(p, x) = Upto(s, i)
    BY FrontGrows
  <2>10. w \in Seq(Int)
    BY <2>2
  <2> HIDE DEF V, w, p, x
  <2>4. [Rd(WritePlayer(x) \o w, p) EXCEPT !.out = << >>] = Rd(WritePlayer(x) \o w, << >>)
    BY RdChanges
  <2>5. ReadPlayer(Rd(WritePlayer(x) \o w, << >>)) = Rd(w, x)
    BY <2>1, <2>10, PlayerRead
  <2>6. Rd(WritePlayer(x) \o w, p).out = p /\ Rd(WritePlayer(x) \o w, p).ok /\ Rd(w, x).out = x
    BY DEF Rd
  <2>7. Goes(V[i - 1]) = [Rd(w, x) EXCEPT !.out = Append(p, x)]
    <3> DEFINE l == Rd(WritePlayer(x) \o w, p)
               item == ReadPlayer([l EXCEPT !.out = << >>])
    <3>1. Goes(l) = [item EXCEPT !.out = Append(l.out, item.out)]
      OBVIOUS
    <3>2. item = Rd(w, x) /\ l.out = p /\ item.out = x
      BY <2>4, <2>5, <2>6
    <3>3. V[i - 1] = l
      BY <2>8, <2>9
    <3> HIDE DEF Goes, l, item
    <3> QED BY <3>1, <3>2, <3>3
  <2>11. [Rd(w, x) EXCEPT !.out = Append(p, x)] = Rd(w, Append(p, x))
    <3> DEFINE y == Append(p, x)
    <3> HIDE DEF y
    <3>1. [Rd(w, x) EXCEPT !.out = y] = Rd(w, y)
      BY RdChanges
    <3> QED BY <3>1 DEF y
  <2>12. Goes(V[i - 1]) = V[i]
    BY <2>3, <2>7, <2>9, <2>11
  <2>13. V[i - 1].ok
    BY <2>6, <2>8, <2>9
  <2> QED BY <2>12, <2>13
<1> HIDE DEF Goes
<1>10. V[0] = Rd(W[0], << >>) /\ V[n] = Rd(rest, s)
  <2>1. Upto(s, 0) = << >> /\ Upto(s, n) = s
    BY FrontEnds
  <2>2. V[0] = Rd(W[0], Upto(s, 0)) /\ V[n] = Rd(W[n], Upto(s, n))
    BY <1>1
  <2> QED BY <2>1, <2>2, <1>6
<1>11. [b EXCEPT !.out = << >>] = V[0]
  BY <1>8, <1>10, RdChanges
<1>12. V = [i \in 0..n |-> IF i = 0 THEN [b EXCEPT !.out = << >>]
                           ELSE IF V[i - 1].ok THEN Goes(V[i - 1]) ELSE V[i - 1]]
  <2>1. V = [i \in 0..n |-> V[i]] /\ \A i \in 0..n : i = 0 \/ i \in 1..n
    BY <1>1
  <2> HIDE DEF V
  <2> QED BY <1>9, <1>11, <2>1
<1> HIDE DEF V
<1> DEFINE G == list(n)
<1>13. G = [i \in 0..n |-> IF i = 0 THEN [b EXCEPT !.out = << >>]
                           ELSE IF G[i - 1].ok THEN Goes(G[i - 1]) ELSE G[i - 1]]
  BY <1>12
<1> HIDE DEF G
<1>14. G[n] = V[n]
  <2>1. G[0] = V[0]
    BY <1>1, <1>11, <1>13
  <2>2. ASSUME NEW i \in 1..n, G[i - 1] = V[i - 1] PROVE G[i] = V[i]
    <3>1. i \in 0..n /\ i # 0
      BY <1>1
    <3>2. G[i] = IF G[i - 1].ok THEN Goes(G[i - 1]) ELSE G[i - 1]
      BY <1>13, <3>1
    <3> QED BY <1>9, <2>2, <3>2
  <2> QED BY <1>1, <2>1, <2>2, SameRun
<1>15. ReadList(in, ReadPlayer) = [G[n] EXCEPT !.out = Append(b.out, G[n].out)]
  BY <1>5, <1>8 DEF G
<1>16. b.out = o /\ G[n] = Rd(rest, s) /\ G[n].out = s
  BY <1>8, <1>10, <1>14 DEF Rd
<1>17. ReadList(in, ReadPlayer) = Rd(rest, Append(o, s))
  <2> DEFINE y == Append(o, s)
  <2> HIDE DEF y
  <2>1. [Rd(rest, s) EXCEPT !.out = y] = Rd(rest, y)
    BY RdChanges
  <2> QED BY <2>1, <1>15, <1>16 DEF y
<1> QED BY <1>4, <1>7, <1>17 DEF in

(* An entity: its components are a list of their own.                      *)
LEMMA EntityRead ==
    ASSUME NEW e \in Entities, NEW rest \in Seq(Int)
    PROVE  /\ WriteEntity(e) \in Seq(Int)
           /\ ReadEntity(Rd(WriteEntity(e) \o rest, << >>)) = Rd(rest, e)
<1> DEFINE T == Int \union Short(Components)
           head == <<e[1]>>
           count == <<Len(e[2])>>
           data == Each(WriteComponent, e[2])
           tail == count \o (data \o rest)
<1>1. e \in Seq(T) /\ Len(e) = 2 /\ e[1] \in Int /\ e[2] \in Short(Components)
  <2>1. e = <<e[1], e[2]>> /\ e[1] \in Int /\ e[2] \in Short(Components)
    BY DEF Entities
  <2>2. /\ <<e[1], e[2]>> \in Seq(T)
       /\ Len(<<e[1], e[2]>>) = 2
    BY <2>1
  <2> QED BY <2>1, <2>2
<1>2. /\ head \in Seq(Int) /\ e[2] \in Seq(Components) /\ Size16(e[2]) = count
      /\ count \in Seq(Int) /\ e[2] \in T
  BY <1>1, SizeOfShort
<1> HIDE DEF T
<1>3. data \in Seq(Int) /\ ReadList(Rd(tail, Upto(e, 1)), ReadComponent)
                               = Rd(rest, Append(Upto(e, 1), e[2]))
  BY <1>2, ComponentsRead
<1>4. 1 \in 1..Len(e) /\ 2 \in 1..Len(e) /\ 1 - 1 = 0 /\ 2 - 1 = 1
  BY <1>1
<1>5. Append(Upto(e, 1), e[2]) = Upto(e, 2)
  <2>1. Append(Upto(e, 2 - 1), e[2]) = Upto(e, 2)
    BY <1>1, <1>4, FrontGrows
  <2> QED BY <2>1, <1>4
<1>6. WriteEntity(e) = (head \o count) \o data
  BY <1>2 DEF WriteEntity
<1> HIDE DEF count, data
<1>7. data \o rest \in Seq(Int) /\ tail \in Seq(Int) /\ head \o count \in Seq(Int)
      /\ WriteEntity(e) \in Seq(Int)
  BY <1>2, <1>3, <1>6, ConcatProperties
<1>8. WriteEntity(e) \o rest = head \o tail
  <2>1. ((head \o count) \o data) \o rest = (head \o count) \o (data \o rest)
    <3> DEFINE x == head \o count
    <3>1. x \in Seq(Int) /\ data \in Seq(Int)
      BY <1>3, <1>7
    <3> HIDE DEF x
    <3>2. (x \o data) \o rest = x \o (data \o rest)
      BY <3>1, Three, ZenonT(30)
    <3> QED BY <3>2 DEF x
  <2>2. (head \o count) \o (data \o rest) = head \o tail
    <3> DEFINE z == data \o rest
    <3>1. z \in Seq(Int) /\ tail = count \o z
      BY <1>7
    <3> HIDE DEF z, tail, head
    <3>2. (head \o count) \o z = head \o (count \o z)
      BY <1>2, <3>1, Three DEF head
    <3> QED BY <3>1, <3>2 DEF z
  <2> QED BY <1>6, <2>1, <2>2
<1> HIDE DEF tail
<1>9. ReadNum(Rd(head \o tail, Upto(e, 0))) = Rd(tail, Upto(e, 1))
  <2>1. ReadNum(Rd(<<e[1]>> \o tail, Upto(e, 1 - 1))) = Rd(tail, Upto(e, 1))
    BY <1>1, <1>4, <1>7, NumNext
  <2> QED BY <2>1, <1>4
<1>10. Upto(e, 0) = << >> /\ Upto(e, 2) = e
  BY <1>1, FrontEnds
<1> QED BY <1>3, <1>5, <1>7, <1>8, <1>9, <1>10 DEF ReadEntity

(* A list of entities, likewise.                                           *)
LEMMA EntitiesRead ==
    ASSUME NEW s \in Seq(Entities), NEW rest \in Seq(Int), NEW o
    PROVE  /\ Each(WriteEntity, s) \in Seq(Int)
           /\ ReadList(Rd(<<Len(s)>> \o (Each(WriteEntity, s) \o rest), o), ReadEntity)
                = Rd(rest, Append(o, s))
<1> DEFINE n == Len(s)
           parts == [i \in 1..n |-> WriteEntity(s[i])]
           in == Rd(<<n>> \o (Flat(parts) \o rest), o)
           size == ReadNum([in EXCEPT !.out = << >>])
           b == [size EXCEPT !.out = in.out]
           Goes(l) == LET item == ReadEntity([l EXCEPT !.out = << >>])
                      IN  [item EXCEPT !.out = Append(l.out, item.out)]
           list(k) == CHOOSE g : g = [i \in 0..k |->
                         IF i = 0 THEN [b EXCEPT !.out = << >>]
                         ELSE IF g[i - 1].ok THEN Goes(g[i - 1]) ELSE g[i - 1]]
<1>1. n \in Nat /\ \A i \in 1..n : s[i] \in Entities
  BY LenProperties, ElementOfSeq
<1>2. \A i \in 1..n : WriteEntity(s[i]) \in Seq(Int)
  BY <1>1, EntityRead, EmptySeq
<1>3. parts \in Seq(Seq(Int)) /\ Len(parts) = n
  BY <1>1, <1>2
<1>4. Each(WriteEntity, s) = Flat(parts)
  BY DEF Each
<1>5. ReadList(in, ReadEntity)
        = [list(size.out[1])[size.out[1]] EXCEPT
               !.out = Append(b.out, list(size.out[1])[size.out[1]].out)]
  BY DEF ReadList, Sized
<1> HIDE DEF parts
<1>6. PICK W \in [0..n -> Seq(Int)] : /\ W[0] = Flat(parts) \o rest /\ W[n] = rest
                                      /\ \A i \in 1..n : W[i - 1] = parts[i] \o W[i]
  <2>1. \E f \in [0..Len(parts) -> Seq(Int)] :
           /\ f[0] = Flat(parts) \o rest /\ f[Len(parts)] = rest
           /\ \A i \in 1..Len(parts) : f[i - 1] = parts[i] \o f[i]
    BY <1>3, FlatRest
  <2> QED BY <1>3, <2>1
<1>7. Flat(parts) \in Seq(Int) /\ Flat(parts) \o rest \in Seq(Int)
  <2>0. 0 \in 0..n
    BY <1>1
  <2>1. W[0] \in Seq(Int)
    BY <2>0, <1>6
  <2> QED BY <2>1, <1>3, <1>6, FlatRest
<1>8. b = Rd(W[0], o) /\ size.out[1] = n
  <2>1. LET z == ReadNum([Rd(<<n>> \o (Flat(parts) \o rest), o) EXCEPT !.out = << >>])
        IN  [z EXCEPT !.out = o] = Rd(Flat(parts) \o rest, o) /\ z.out[1] = n
    <3> DEFINE all == Flat(parts) \o rest
    <3> HIDE DEF all
    <3>1. n \in Int /\ all \in Seq(Int)
      BY <1>1, <1>7 DEF all
    <3>2. LET z == ReadNum([Rd(<<n>> \o all, o) EXCEPT !.out = << >>])
          IN  [z EXCEPT !.out = o] = Rd(all, o) /\ z.out[1] = n
      BY <3>1, AfterSize
    <3> QED BY <3>2 DEF all
  <2>2. in.out = o
    BY DEF Rd
  <2> QED BY <2>1, <2>2, <1>6
<1> HIDE DEF size, b, in
<1> DEFINE V == [i \in 0..n |-> Rd(W[i], Upto(s, i))]
<1>9. ASSUME NEW i \in 1..n PROVE Goes(V[i - 1]) = V[i] /\ V[i - 1].ok
  <2> DEFINE w == W[i]
             p == Upto(s, i - 1)
             x == s[i]
  <2>1. i \in 0..n /\ i - 1 \in 0..n /\ x \in Entities
    BY <1>1
  <2>2. W[i] \in Seq(Int)
    BY <1>6, <2>1
  <2>8. W[i - 1] = WriteEntity(x) \o w
    BY <1>6 DEF parts
  <2>9. V[i - 1] = Rd(W[i - 1], p) /\ V[i] = Rd(w, Upto(s, i))
    BY <2>1
  <2>3. Append(p, x) = Upto(s, i)
    BY FrontGrows
  <2>10. w \in Seq(Int)
    BY <2>2
  <2> HIDE DEF V, w, p, x
  <2>4. [Rd(WriteEntity(x) \o w, p) EXCEPT !.out = << >>] = Rd(WriteEntity(x) \o w, << >>)
    BY RdChanges
  <2>5. ReadEntity(Rd(WriteEntity(x) \o w, << >>)) = Rd(w, x)
    BY <2>1, <2>10, EntityRead
  <2>6. Rd(WriteEntity(x) \o w, p).out = p /\ Rd(WriteEntity(x) \o w, p).ok /\ Rd(w, x).out = x
    BY DEF Rd
  <2>7. Goes(V[i - 1]) = [Rd(w, x) EXCEPT !.out = Append(p, x)]
    <3> DEFINE l == Rd(WriteEntity(x) \o w, p)
               item == ReadEntity([l EXCEPT !.out = << >>])
    <3>1. Goes(l) = [item EXCEPT !.out = Append(l.out, item.out)]
      OBVIOUS
    <3>2. item = Rd(w, x) /\ l.out = p /\ item.out = x
      BY <2>4, <2>5, <2>6
    <3>3. V[i - 1] = l
      BY <2>8, <2>9
    <3> HIDE DEF Goes, l, item
    <3> QED BY <3>1, <3>2, <3>3
  <2>11. [Rd(w, x) EXCEPT !.out = Append(p, x)] = Rd(w, Append(p, x))
    <3> DEFINE y == Append(p, x)
    <3> HIDE DEF y
    <3>1. [Rd(w, x) EXCEPT !.out = y] = Rd(w, y)
      BY RdChanges
    <3> QED BY <3>1 DEF y
  <2>12. Goes(V[i - 1]) = V[i]
    BY <2>3, <2>7, <2>9, <2>11
  <2>13. V[i - 1].ok
    BY <2>6, <2>8, <2>9
  <2> QED BY <2>12, <2>13
<1> HIDE DEF Goes
<1>10. V[0] = Rd(W[0], << >>) /\ V[n] = Rd(rest, s)
  <2>1. Upto(s, 0) = << >> /\ Upto(s, n) = s
    BY FrontEnds
  <2>2. V[0] = Rd(W[0], Upto(s, 0)) /\ V[n] = Rd(W[n], Upto(s, n))
    BY <1>1
  <2> QED BY <2>1, <2>2, <1>6
<1>11. [b EXCEPT !.out = << >>] = V[0]
  BY <1>8, <1>10, RdChanges
<1>12. V = [i \in 0..n |-> IF i = 0 THEN [b EXCEPT !.out = << >>]
                           ELSE IF V[i - 1].ok THEN Goes(V[i - 1]) ELSE V[i - 1]]
  <2>1. V = [i \in 0..n |-> V[i]] /\ \A i \in 0..n : i = 0 \/ i \in 1..n
    BY <1>1
  <2> HIDE DEF V
  <2> QED BY <1>9, <1>11, <2>1
<1> HIDE DEF V
<1> DEFINE G == list(n)
<1>13. G = [i \in 0..n |-> IF i = 0 THEN [b EXCEPT !.out = << >>]
                           ELSE IF G[i - 1].ok THEN Goes(G[i - 1]) ELSE G[i - 1]]
  BY <1>12
<1> HIDE DEF G
<1>14. G[n] = V[n]
  <2>1. G[0] = V[0]
    BY <1>1, <1>11, <1>13
  <2>2. ASSUME NEW i \in 1..n, G[i - 1] = V[i - 1] PROVE G[i] = V[i]
    <3>1. i \in 0..n /\ i # 0
      BY <1>1
    <3>2. G[i] = IF G[i - 1].ok THEN Goes(G[i - 1]) ELSE G[i - 1]
      BY <1>13, <3>1
    <3> QED BY <1>9, <2>2, <3>2
  <2> QED BY <1>1, <2>1, <2>2, SameRun
<1>15. ReadList(in, ReadEntity) = [G[n] EXCEPT !.out = Append(b.out, G[n].out)]
  BY <1>5, <1>8 DEF G
<1>16. b.out = o /\ G[n] = Rd(rest, s) /\ G[n].out = s
  BY <1>8, <1>10, <1>14 DEF Rd
<1>17. ReadList(in, ReadEntity) = Rd(rest, Append(o, s))
  <2> DEFINE y == Append(o, s)
  <2> HIDE DEF y
  <2>1. [Rd(rest, s) EXCEPT !.out = y] = Rd(rest, y)
    BY RdChanges
  <2> QED BY <2>1, <1>15, <1>16 DEF y
<1> QED BY <1>4, <1>7, <1>17 DEF in

(* A player of a checkpoint: its account and ping make one cell.           *)
LEMMA CellRead ==
    ASSUME NEW c \in [1..1 -> Int], NEW rest \in Seq(Int)
    PROVE  c \in Seq(Int) /\ ReadNum(Rd(c \o rest, << >>)) = Rd(rest, c)
<1>1. c = <<c[1]>> /\ c[1] \in Int
  OBVIOUS
<1> DEFINE x == c[1]
<1>2. x \in Int
  BY <1>1
<1> HIDE DEF x
<1>3. <<x>> \in Seq(Int)
  BY <1>2
<1>4. ReadNum(Rd(<<x>> \o rest, << >>)) = Rd(rest, Append(<< >>, x))
  BY <1>2, HeadRead
<1>5. Append(<< >>, x) = <<x>>
  OBVIOUS
<1> QED BY <1>1, <1>3, <1>4, <1>5 DEF x

(* A list of such players, likewise.                                       *)
LEMMA CellsRead ==
    ASSUME NEW s \in Seq([1..1 -> Int]), NEW rest \in Seq(Int), NEW o
    PROVE  /\ Flat(s) \in Seq(Int)
           /\ ReadList(Rd(<<Len(s)>> \o (Flat(s) \o rest), o), ReadNum)
                = Rd(rest, Append(o, s))
<1> DEFINE n == Len(s)
           parts == s
           in == Rd(<<n>> \o (Flat(parts) \o rest), o)
           size == ReadNum([in EXCEPT !.out = << >>])
           b == [size EXCEPT !.out = in.out]
           Goes(l) == LET item == ReadNum([l EXCEPT !.out = << >>])
                      IN  [item EXCEPT !.out = Append(l.out, item.out)]
           list(k) == CHOOSE g : g = [i \in 0..k |->
                         IF i = 0 THEN [b EXCEPT !.out = << >>]
                         ELSE IF g[i - 1].ok THEN Goes(g[i - 1]) ELSE g[i - 1]]
<1>1. n \in Nat /\ \A i \in 1..n : s[i] \in [1..1 -> Int]
  BY LenProperties, ElementOfSeq
<1>2. \A i \in 1..n : s[i] \in Seq(Int)
  BY <1>1, CellRead
<1>3. parts \in Seq(Seq(Int)) /\ Len(parts) = n
  <2>1. [1..1 -> Int] \subseteq Seq(Int)
    BY CellRead
  <2> QED BY <2>1, SeqMonotonic
<1>4. Flat(s) = Flat(parts)
  OBVIOUS
<1>5. ReadList(in, ReadNum)
        = [list(size.out[1])[size.out[1]] EXCEPT
               !.out = Append(b.out, list(size.out[1])[size.out[1]].out)]
  BY DEF ReadList, Sized
<1> HIDE DEF parts
<1>6. PICK W \in [0..n -> Seq(Int)] : /\ W[0] = Flat(parts) \o rest /\ W[n] = rest
                                      /\ \A i \in 1..n : W[i - 1] = parts[i] \o W[i]
  <2>1. \E f \in [0..Len(parts) -> Seq(Int)] :
           /\ f[0] = Flat(parts) \o rest /\ f[Len(parts)] = rest
           /\ \A i \in 1..Len(parts) : f[i - 1] = parts[i] \o f[i]
    BY <1>3, FlatRest
  <2> QED BY <1>3, <2>1
<1>7. Flat(parts) \in Seq(Int) /\ Flat(parts) \o rest \in Seq(Int)
  <2>0. 0 \in 0..n
    BY <1>1
  <2>1. W[0] \in Seq(Int)
    BY <2>0, <1>6
  <2> QED BY <2>1, <1>3, <1>6, FlatRest
<1>8. b = Rd(W[0], o) /\ size.out[1] = n
  <2>1. LET z == ReadNum([Rd(<<n>> \o (Flat(parts) \o rest), o) EXCEPT !.out = << >>])
        IN  [z EXCEPT !.out = o] = Rd(Flat(parts) \o rest, o) /\ z.out[1] = n
    <3> DEFINE all == Flat(parts) \o rest
    <3> HIDE DEF all
    <3>1. n \in Int /\ all \in Seq(Int)
      BY <1>1, <1>7 DEF all
    <3>2. LET z == ReadNum([Rd(<<n>> \o all, o) EXCEPT !.out = << >>])
          IN  [z EXCEPT !.out = o] = Rd(all, o) /\ z.out[1] = n
      BY <3>1, AfterSize
    <3> QED BY <3>2 DEF all
  <2>2. in.out = o
    BY DEF Rd
  <2> QED BY <2>1, <2>2, <1>6
<1> HIDE DEF size, b, in
<1> DEFINE V == [i \in 0..n |-> Rd(W[i], Upto(s, i))]
<1>9. ASSUME NEW i \in 1..n PROVE Goes(V[i - 1]) = V[i] /\ V[i - 1].ok
  <2> DEFINE w == W[i]
             p == Upto(s, i - 1)
             x == s[i]
  <2>1. i \in 0..n /\ i - 1 \in 0..n /\ x \in [1..1 -> Int]
    BY <1>1
  <2>2. W[i] \in Seq(Int)
    BY <1>6, <2>1
  <2>8. W[i - 1] = x \o w
    BY <1>6 DEF parts
  <2>9. V[i - 1] = Rd(W[i - 1], p) /\ V[i] = Rd(w, Upto(s, i))
    BY <2>1
  <2>3. Append(p, x) = Upto(s, i)
    BY FrontGrows
  <2>10. w \in Seq(Int)
    BY <2>2
  <2> HIDE DEF V, w, p, x
  <2>4. [Rd(x \o w, p) EXCEPT !.out = << >>] = Rd(x \o w, << >>)
    BY RdChanges
  <2>5. ReadNum(Rd(x \o w, << >>)) = Rd(w, x)
    BY <2>1, <2>10, CellRead
  <2>6. Rd(x \o w, p).out = p /\ Rd(x \o w, p).ok /\ Rd(w, x).out = x
    BY DEF Rd
  <2>7. Goes(V[i - 1]) = [Rd(w, x) EXCEPT !.out = Append(p, x)]
    <3> DEFINE l == Rd(x \o w, p)
               item == ReadNum([l EXCEPT !.out = << >>])
    <3>1. Goes(l) = [item EXCEPT !.out = Append(l.out, item.out)]
      OBVIOUS
    <3>2. item = Rd(w, x) /\ l.out = p /\ item.out = x
      BY <2>4, <2>5, <2>6
    <3>3. V[i - 1] = l
      BY <2>8, <2>9
    <3> HIDE DEF Goes, l, item
    <3> QED BY <3>1, <3>2, <3>3
  <2>11. [Rd(w, x) EXCEPT !.out = Append(p, x)] = Rd(w, Append(p, x))
    <3> DEFINE y == Append(p, x)
    <3> HIDE DEF y
    <3>1. [Rd(w, x) EXCEPT !.out = y] = Rd(w, y)
      BY RdChanges
    <3> QED BY <3>1 DEF y
  <2>12. Goes(V[i - 1]) = V[i]
    BY <2>3, <2>7, <2>9, <2>11
  <2>13. V[i - 1].ok
    BY <2>6, <2>8, <2>9
  <2> QED BY <2>12, <2>13
<1> HIDE DEF Goes
<1>10. V[0] = Rd(W[0], << >>) /\ V[n] = Rd(rest, s)
  <2>1. Upto(s, 0) = << >> /\ Upto(s, n) = s
    BY FrontEnds
  <2>2. V[0] = Rd(W[0], Upto(s, 0)) /\ V[n] = Rd(W[n], Upto(s, n))
    BY <1>1
  <2> QED BY <2>1, <2>2, <1>6
<1>11. [b EXCEPT !.out = << >>] = V[0]
  BY <1>8, <1>10, RdChanges
<1>12. V = [i \in 0..n |-> IF i = 0 THEN [b EXCEPT !.out = << >>]
                           ELSE IF V[i - 1].ok THEN Goes(V[i - 1]) ELSE V[i - 1]]
  <2>1. V = [i \in 0..n |-> V[i]] /\ \A i \in 0..n : i = 0 \/ i \in 1..n
    BY <1>1
  <2> HIDE DEF V
  <2> QED BY <1>9, <1>11, <2>1
<1> HIDE DEF V
<1> DEFINE G == list(n)
<1>13. G = [i \in 0..n |-> IF i = 0 THEN [b EXCEPT !.out = << >>]
                           ELSE IF G[i - 1].ok THEN Goes(G[i - 1]) ELSE G[i - 1]]
  BY <1>12
<1> HIDE DEF G
<1>14. G[n] = V[n]
  <2>1. G[0] = V[0]
    BY <1>1, <1>11, <1>13
  <2>2. ASSUME NEW i \in 1..n, G[i - 1] = V[i - 1] PROVE G[i] = V[i]
    <3>1. i \in 0..n /\ i # 0
      BY <1>1
    <3>2. G[i] = IF G[i - 1].ok THEN Goes(G[i - 1]) ELSE G[i - 1]
      BY <1>13, <3>1
    <3> QED BY <1>9, <2>2, <3>2
  <2> QED BY <1>1, <2>1, <2>2, SameRun
<1>15. ReadList(in, ReadNum) = [G[n] EXCEPT !.out = Append(b.out, G[n].out)]
  BY <1>5, <1>8 DEF G
<1>16. b.out = o /\ G[n] = Rd(rest, s) /\ G[n].out = s
  BY <1>8, <1>10, <1>14 DEF Rd
<1>17. ReadList(in, ReadNum) = Rd(rest, Append(o, s))
  <2> DEFINE y == Append(o, s)
  <2> HIDE DEF y
  <2>1. [Rd(rest, s) EXCEPT !.out = y] = Rd(rest, y)
    BY RdChanges
  <2> QED BY <2>1, <1>15, <1>16 DEF y
<1> QED BY <1>4, <1>7, <1>17 DEF in
------------------------------------------------------------------------------
(* Parts joined from the left, as they are written, and from the right, as *)
(* they are read.  Cat stands for \o where only its laws matter.           *)
Cat(p, q) == p \o q

(* Its laws.                                                               *)
LEMMA CatLaws ==
    /\ \A p, q \in Seq(Int) : Cat(p, q) \in Seq(Int)
    /\ \A p, q, r \in Seq(Int) : Cat(Cat(p, q), r) = Cat(p, Cat(q, r))
<1>1. \A p, q \in Seq(Int) : Cat(p, q) \in Seq(Int)
  BY ConcatProperties DEF Cat
<1>2. \A p, q, r \in Seq(Int) : Cat(Cat(p, q), r) = Cat(p, Cat(q, r))
  BY Nested DEF Cat
<1> QED BY <1>1, <1>2

(* Joined from the left or from the right: four, five, six parts.          *)
LEMMA Join4 ==
    ASSUME NEW a \in Seq(Int), NEW b \in Seq(Int), NEW c \in Seq(Int), NEW d \in Seq(Int)
    PROVE  /\ Cat(a, Cat(b, Cat(c, d))) \in Seq(Int)
           /\ Cat(Cat(Cat(a, b), c), d)
              = Cat(a, Cat(b, Cat(c, d)))
BY CatLaws

LEMMA Join5 ==
    ASSUME NEW a \in Seq(Int), NEW b \in Seq(Int), NEW c \in Seq(Int), NEW d \in Seq(Int),
           NEW e \in Seq(Int)
    PROVE  /\ Cat(a, Cat(b, Cat(c, Cat(d, e)))) \in Seq(Int)
           /\ Cat(Cat(Cat(Cat(a, b), c), d), e)
              = Cat(a, Cat(b, Cat(c, Cat(d, e))))
<1>1. Cat(d, e) \in Seq(Int)
  BY CatLaws
<1>2. Cat(c, Cat(d, e)) \in Seq(Int)
  BY <1>1, CatLaws
<1>3. Cat(b, Cat(c, Cat(d, e))) \in Seq(Int)
  BY <1>2, CatLaws
<1>4. Cat(a, Cat(b, Cat(c, Cat(d, e)))) \in Seq(Int)
  BY <1>3, CatLaws
<1>5. Cat(Cat(a, b), Cat(c, Cat(d, e)))
        = Cat(a, Cat(b, Cat(c, Cat(d, e))))
  BY <1>2, CatLaws
<1> DEFINE z == Cat(a, b)
<1>6. z \in Seq(Int)
  BY CatLaws
<1> HIDE DEF z
<1>7. Cat(Cat(Cat(z, c), d), e)
        = Cat(z, Cat(c, Cat(d, e)))
  BY <1>6, Join4
<1> QED BY <1>4, <1>5, <1>7 DEF z

LEMMA Join6 ==
    ASSUME NEW a \in Seq(Int), NEW b \in Seq(Int), NEW c \in Seq(Int), NEW d \in Seq(Int),
           NEW e \in Seq(Int),
           NEW f \in Seq(Int)
    PROVE  /\ Cat(a, Cat(b, Cat(c, Cat(d, Cat(e, f))))) \in Seq(Int)
           /\ Cat(Cat(Cat(Cat(Cat(a, b), c), d), e), f)
              = Cat(a, Cat(b, Cat(c, Cat(d, Cat(e, f)))))
<1>1. Cat(e, f) \in Seq(Int)
  BY CatLaws
<1>2. Cat(d, Cat(e, f)) \in Seq(Int)
  BY <1>1, CatLaws
<1>3. Cat(c, Cat(d, Cat(e, f))) \in Seq(Int)
  BY <1>2, CatLaws
<1>4. Cat(b, Cat(c, Cat(d, Cat(e, f)))) \in Seq(Int)
  BY <1>3, CatLaws
<1>5. Cat(a, Cat(b, Cat(c, Cat(d, Cat(e, f))))) \in Seq(Int)
  BY <1>4, CatLaws
<1>6. Cat(Cat(a, b), Cat(c, Cat(d, Cat(e, f))))
        = Cat(a, Cat(b, Cat(c, Cat(d, Cat(e, f)))))
  BY <1>3, CatLaws
<1> DEFINE z == Cat(a, b)
<1>7. z \in Seq(Int)
  BY CatLaws
<1> HIDE DEF z
<1>8. Cat(Cat(Cat(Cat(z, c), d), e), f)
        = Cat(z, Cat(c, Cat(d, Cat(e, f))))
  BY <1>7, Join5
<1> QED BY <1>5, <1>6, <1>8 DEF z

(* Two numbers in one part.                                                *)
LEMMA TwoCells ==
    ASSUME NEW x \in Int, NEW y \in Int, NEW r \in Seq(Int)
    PROVE  <<x, y>> \in Seq(Int) /\ Cat(<<x, y>>, r) = Cat(<<x>>, Cat(<<y>>, r))
<1>1. <<x>> \in Seq(Int) /\ <<y>> \in Seq(Int) /\ <<x, y>> \in Seq(Int)
  OBVIOUS
<1> DEFINE s == <<x>> \o <<y>>
           t == <<x, y>>
<1>2. /\ s \in Seq(Int) /\ Len(s) = Len(<<x>>) + Len(<<y>>)
      /\ \A i \in 1..Len(<<x>>) + Len(<<y>>) :
            s[i] = IF i <= Len(<<x>>) THEN <<x>>[i] ELSE <<y>>[i - Len(<<x>>)]
  BY <1>1, ConcatProperties
<1>3. Len(<<x>>) = 1 /\ Len(<<y>>) = 1 /\ <<x>>[1] = x /\ <<y>>[1] = y
  OBVIOUS
<1>4. t \in Seq(Int) /\ Len(t) = 2 /\ t[1] = x /\ t[2] = y
  OBVIOUS
<1> HIDE DEF s, t
<1>5. Len(s) = 2 /\ s[1] = x /\ s[2] = y
  BY <1>2, <1>3
<1>6. \A i \in 1..2 : s[i] = t[i]
  BY <1>4, <1>5
<1>7. s = t
  BY <1>2, <1>4, <1>5, <1>6, SeqEqual
<1>8. Cat(Cat(<<x>>, <<y>>), r) = Cat(<<x>>, Cat(<<y>>, r))
  BY <1>1, CatLaws
<1>9. Cat(<<x>>, <<y>>) = t
  BY <1>7 DEF s, Cat
<1> QED BY <1>1, <1>8, <1>9 DEF t
------------------------------------------------------------------------------
(* A profile is read as it was written.                                    *)
LEMMA ProfileLoads ==
    ASSUME NEW p \in SomeProfiles
    PROVE  /\ SerializeProfile(p) \in Seq(Int)
           /\ DeserializeProfile(SerializeProfile(p)) = Rd(<< >>, p)
<1> DEFINE T == Int \union Short(Int) \union Seq(Int)
           a == <<p[1]>>
           b == Text(p[2])
           c == <<p[3], p[4]>>
           d == Blob(p[5])
           e == Blob(p[6])
           r7 == << >>
           r6 == Blob(p[6]) \o r7
           r5 == Blob(p[5]) \o r6
           r4 == <<p[4]>> \o r5
           r3 == <<p[3]>> \o r4
           r2 == Text(p[2]) \o r3
           r1 == <<p[1]>> \o r2
<1>1. /\ p \in Seq(T) /\ Len(p) = 6
      /\ p[1] \in Int
      /\ p[2] \in Short(Int)
      /\ p[3] \in Int
      /\ p[4] \in Int
      /\ p[5] \in Seq(Int)
      /\ p[6] \in Seq(Int)
  <2>1. p = <<p[1], p[2], p[3], p[4], p[5], p[6]>>
      /\ p[1] \in Int
      /\ p[2] \in Short(Int)
      /\ p[3] \in Int
      /\ p[4] \in Int
      /\ p[5] \in Seq(Int)
      /\ p[6] \in Seq(Int)
    BY DataAssumption
  <2>2. /\ <<p[1], p[2], p[3], p[4], p[5], p[6]>> \in Seq(T)
       /\ Len(<<p[1], p[2], p[3], p[4], p[5], p[6]>>) = 6
    BY <2>1
  <2> QED BY <2>1, <2>2
<1>2. /\ 1 \in 1..Len(p) /\ 2 \in 1..Len(p) /\ 3 \in 1..Len(p)
      /\ 4 \in 1..Len(p) /\ 5 \in 1..Len(p) /\ 6 \in 1..Len(p)
      /\ 1 - 1 = 0 /\ 2 - 1 = 1 /\ 3 - 1 = 2 /\ 4 - 1 = 3 /\ 5 - 1 = 4 /\ 6 - 1 = 5
  BY <1>1
<1> HIDE DEF T, a, b, c, d, e, r1, r2, r3, r4, r5, r6, r7
<1>3. r7 \in Seq(Int)
  BY DEF r7
<1>4. ReadBlob(Rd(r6, Upto(p, 5))) = Rd(r7, Upto(p, 6)) /\ r6 \in Seq(Int)
  <2>1. /\ ReadBlob(Rd(Blob(p[6]) \o r7, Upto(p, 6 - 1))) = Rd(r7, Upto(p, 6))
        /\ Blob(p[6]) \o r7 \in Seq(Int)
    BY <1>1, <1>2, <1>3, BlobNext
  <2> QED BY <2>1, <1>2 DEF r6
<1>5. ReadBlob(Rd(r5, Upto(p, 4))) = Rd(r6, Upto(p, 5)) /\ r5 \in Seq(Int)
  <2>1. /\ ReadBlob(Rd(Blob(p[5]) \o r6, Upto(p, 5 - 1))) = Rd(r6, Upto(p, 5))
        /\ Blob(p[5]) \o r6 \in Seq(Int)
    BY <1>1, <1>2, <1>4, BlobNext
  <2> QED BY <2>1, <1>2 DEF r5
<1>6. ReadNum(Rd(r4, Upto(p, 3))) = Rd(r5, Upto(p, 4)) /\ r4 \in Seq(Int)
  <2>1. /\ ReadNum(Rd(<<p[4]>> \o r5, Upto(p, 4 - 1))) = Rd(r5, Upto(p, 4))
        /\ <<p[4]>> \o r5 \in Seq(Int)
    BY <1>1, <1>2, <1>5, NumNext
  <2> QED BY <2>1, <1>2 DEF r4
<1>7. ReadNum(Rd(r3, Upto(p, 2))) = Rd(r4, Upto(p, 3)) /\ r3 \in Seq(Int)
  <2>1. /\ ReadNum(Rd(<<p[3]>> \o r4, Upto(p, 3 - 1))) = Rd(r4, Upto(p, 3))
        /\ <<p[3]>> \o r4 \in Seq(Int)
    BY <1>1, <1>2, <1>6, NumNext
  <2> QED BY <2>1, <1>2 DEF r3
<1>8. ReadText(Rd(r2, Upto(p, 1))) = Rd(r3, Upto(p, 2)) /\ r2 \in Seq(Int)
  <2>1. /\ ReadText(Rd(Text(p[2]) \o r3, Upto(p, 2 - 1))) = Rd(r3, Upto(p, 2))
        /\ Text(p[2]) \o r3 \in Seq(Int)
    BY <1>1, <1>2, <1>7, TextNext
  <2> QED BY <2>1, <1>2 DEF r2
<1>9. ReadNum(Rd(r1, Upto(p, 0))) = Rd(r2, Upto(p, 1)) /\ r1 \in Seq(Int)
  <2>1. /\ ReadNum(Rd(<<p[1]>> \o r2, Upto(p, 1 - 1))) = Rd(r2, Upto(p, 1))
        /\ <<p[1]>> \o r2 \in Seq(Int)
    BY <1>1, <1>2, <1>8, NumNext
  <2> QED BY <2>1, <1>2 DEF r1
<1>10. SerializeProfile(p) = r1
  <2>1. a \in Seq(Int) /\ b \in Seq(Int) /\ c \in Seq(Int) /\ d \in Seq(Int) /\ e \in Seq(Int)
    <3>1. a \in Seq(Int) /\ c \in Seq(Int)
      BY <1>1 DEF a, c
    <3>2. b \in Seq(Int)
      BY <1>1, <1>2, <1>3, TextNext DEF b
    <3>3. d \in Seq(Int) /\ e \in Seq(Int)
      BY <1>1, <1>2, <1>3, BlobNext DEF d, e
    <3> QED BY <3>1, <3>2, <3>3
  <2>2. SerializeProfile(p) = Cat(Cat(Cat(Cat(a, b), c), d), e)
    BY DEF SerializeProfile, Cat, a, b, c, d, e
  <2>3. Cat(Cat(Cat(Cat(a, b), c), d), e) = Cat(a, Cat(b, Cat(c, Cat(d, e))))
    BY <2>1, Join5
  <2>4. r6 = e
    BY <2>1, ConcatEmptySeq DEF r6, r7, e
  <2>5. r5 = Cat(d, e)
    BY <2>4 DEF r5, Cat, d
  <2>6. r3 = Cat(c, r5)
    <3>1. r3 = Cat(<<p[3]>>, Cat(<<p[4]>>, r5))
      BY DEF r3, r4, Cat
    <3>2. Cat(c, r5) = Cat(<<p[3]>>, Cat(<<p[4]>>, r5))
      BY <1>1, <1>5, TwoCells DEF c
    <3> QED BY <3>1, <3>2
  <2>7. r1 = Cat(a, Cat(b, r3))
    BY DEF r1, r2, Cat, a, b
  <2> QED BY <2>2, <2>3, <2>5, <2>6, <2>7
<1>11. Upto(p, 0) = << >> /\ Upto(p, 6) = p
  BY <1>1, FrontEnds
<1>12. Reader(r1) = Rd(r1, Upto(p, 0))
  BY <1>11 DEF Reader, Rd
<1>13. DeserializeProfile(r1) = Rd(<< >>, p)
  BY <1>4, <1>5, <1>6, <1>7, <1>8, <1>9, <1>11, <1>12 DEF DeserializeProfile, r7
<1> QED BY <1>9, <1>10, <1>13

(* So is a match record.                                                   *)
LEMMA MatchLoads ==
    ASSUME NEW m \in SomeMatches
    PROVE  /\ SerializeMatch(m) \in Seq(Int)
           /\ DeserializeMatch(SerializeMatch(m)) = Rd(<< >>, m)
<1> DEFINE T == Int \union Short(Int) \union Seq(Players) \union Seq(Int)
           a == <<m[1]>>
           b == Text(m[2])
           c == Text(m[3])
           d == <<m[4], Len(m[5])>>
           e == Each(WritePlayer, m[5])
           f == Blob(m[6])
           r7 == << >>
           r6 == Blob(m[6]) \o r7
           r5 == <<Len(m[5])>> \o (Each(WritePlayer, m[5]) \o r6)
           r4 == <<m[4]>> \o r5
           r3 == Text(m[3]) \o r4
           r2 == Text(m[2]) \o r3
           r1 == <<m[1]>> \o r2
<1>1. /\ m \in Seq(T) /\ Len(m) = 6
      /\ m[1] \in Int
      /\ m[2] \in Short(Int)
      /\ m[3] \in Short(Int)
      /\ m[4] \in Int
      /\ m[5] \in Seq(Players)
      /\ m[6] \in Seq(Int)
  <2>1. m = <<m[1], m[2], m[3], m[4], m[5], m[6]>>
      /\ m[1] \in Int
      /\ m[2] \in Short(Int)
      /\ m[3] \in Short(Int)
      /\ m[4] \in Int
      /\ m[5] \in Seq(Players)
      /\ m[6] \in Seq(Int)
    BY DataAssumption
  <2>2. /\ <<m[1], m[2], m[3], m[4], m[5], m[6]>> \in Seq(T)
       /\ Len(<<m[1], m[2], m[3], m[4], m[5], m[6]>>) = 6
    BY <2>1
  <2> QED BY <2>1, <2>2
<1>2. /\ 1 \in 1..Len(m) /\ 2 \in 1..Len(m) /\ 3 \in 1..Len(m)
      /\ 4 \in 1..Len(m) /\ 5 \in 1..Len(m) /\ 6 \in 1..Len(m)
      /\ 1 - 1 = 0 /\ 2 - 1 = 1 /\ 3 - 1 = 2 /\ 4 - 1 = 3 /\ 5 - 1 = 4 /\ 6 - 1 = 5
  BY <1>1
<1> HIDE DEF T, a, b, c, d, e, f, r1, r2, r3, r4, r5, r6, r7
<1>3. r7 \in Seq(Int)
  BY DEF r7
<1>4. ReadBlob(Rd(r6, Upto(m, 5))) = Rd(r7, Upto(m, 6)) /\ r6 \in Seq(Int)
  <2>1. /\ ReadBlob(Rd(Blob(m[6]) \o r7, Upto(m, 6 - 1))) = Rd(r7, Upto(m, 6))
        /\ Blob(m[6]) \o r7 \in Seq(Int)
    BY <1>1, <1>2, <1>3, BlobNext
  <2> QED BY <2>1, <1>2 DEF r6
<1>5. ReadList(Rd(r5, Upto(m, 4)), ReadPlayer) = Rd(r6, Upto(m, 5)) /\ r5 \in Seq(Int)
  <2> DEFINE o == Upto(m, 4)
             s == m[5]
             count == <<Len(s)>>
             data == Each(WritePlayer, s)
  <2>1. s \in Seq(Players)
    BY <1>1 DEF Short
  <2> HIDE DEF o
  <2>2. /\ data \in Seq(Int)
       /\ ReadList(Rd(count \o (data \o r6), o), ReadPlayer) = Rd(r6, Append(o, s))
    BY <1>4, <2>1, PlayersRead
  <2>3. Append(o, s) = Upto(m, 5)
    <3>1. Append(Upto(m, 5 - 1), s) = Upto(m, 5)
      BY <1>1, <1>2, FrontGrows
    <3> QED BY <3>1, <1>2 DEF o
  <2>4. count \in Seq(Int)
    BY <2>1, LenProperties
  <2> HIDE DEF data, count
  <2>5. data \o r6 \in Seq(Int) /\ count \o (data \o r6) \in Seq(Int)
    BY <1>4, <2>2, <2>4, ConcatProperties
  <2> QED BY <2>2, <2>3, <2>5 DEF r5, o, data, count
<1>6. ReadNum(Rd(r4, Upto(m, 3))) = Rd(r5, Upto(m, 4)) /\ r4 \in Seq(Int)
  <2>1. /\ ReadNum(Rd(<<m[4]>> \o r5, Upto(m, 4 - 1))) = Rd(r5, Upto(m, 4))
        /\ <<m[4]>> \o r5 \in Seq(Int)
    BY <1>1, <1>2, <1>5, NumNext
  <2> QED BY <2>1, <1>2 DEF r4
<1>7. ReadText(Rd(r3, Upto(m, 2))) = Rd(r4, Upto(m, 3)) /\ r3 \in Seq(Int)
  <2>1. /\ ReadText(Rd(Text(m[3]) \o r4, Upto(m, 3 - 1))) = Rd(r4, Upto(m, 3))
        /\ Text(m[3]) \o r4 \in Seq(Int)
    BY <1>1, <1>2, <1>6, TextNext
  <2> QED BY <2>1, <1>2 DEF r3
<1>8. ReadText(Rd(r2, Upto(m, 1))) = Rd(r3, Upto(m, 2)) /\ r2 \in Seq(Int)
  <2>1. /\ ReadText(Rd(Text(m[2]) \o r3, Upto(m, 2 - 1))) = Rd(r3, Upto(m, 2))
        /\ Text(m[2]) \o r3 \in Seq(Int)
    BY <1>1, <1>2, <1>7, TextNext
  <2> QED BY <2>1, <1>2 DEF r2
<1>9. ReadNum(Rd(r1, Upto(m, 0))) = Rd(r2, Upto(m, 1)) /\ r1 \in Seq(Int)
  <2>1. /\ ReadNum(Rd(<<m[1]>> \o r2, Upto(m, 1 - 1))) = Rd(r2, Upto(m, 1))
        /\ <<m[1]>> \o r2 \in Seq(Int)
    BY <1>1, <1>2, <1>8, NumNext
  <2> QED BY <2>1, <1>2 DEF r1
<1>10. SerializeMatch(m) = r1
  <2>1. /\ a \in Seq(Int) /\ b \in Seq(Int) /\ c \in Seq(Int)
       /\ d \in Seq(Int) /\ e \in Seq(Int) /\ f \in Seq(Int)
    <3>1. a \in Seq(Int) /\ d \in Seq(Int)
      BY <1>1, LenProperties DEF a, d
    <3>2. b \in Seq(Int) /\ c \in Seq(Int)
      BY <1>1, <1>2, <1>3, TextNext DEF b, c
    <3>3. e \in Seq(Int)
      BY <1>1, <1>3, PlayersRead DEF e
    <3>4. f \in Seq(Int)
      BY <1>1, <1>2, <1>3, BlobNext DEF f
    <3> QED BY <3>1, <3>2, <3>3, <3>4
  <2>2. SerializeMatch(m) = Cat(Cat(Cat(Cat(Cat(a, b), c), d), e), f)
    BY DEF SerializeMatch, Cat, a, b, c, d, e, f
  <2>3. Cat(Cat(Cat(Cat(Cat(a, b), c), d), e), f) = Cat(a, Cat(b, Cat(c, Cat(d, Cat(e, f)))))
    BY <2>1, Join6
  <2>4. r6 = f
    BY <2>1, ConcatEmptySeq DEF r6, r7, f
  <2>5. r4 = Cat(d, Cat(e, f))
    <3>1. Len(m[5]) \in Int /\ m[4] \in Int
      BY <1>1, LenProperties
    <3>2. Cat(e, f) \in Seq(Int)
      BY <2>1, CatLaws
    <3>3. Cat(d, Cat(e, f)) = Cat(<<m[4]>>, Cat(<<Len(m[5])>>, Cat(e, f)))
      BY <3>1, <3>2, TwoCells DEF d
    <3>4. r4 = Cat(<<m[4]>>, Cat(<<Len(m[5])>>, Cat(e, f)))
      BY <2>4 DEF r4, r5, Cat, e
    <3> QED BY <3>3, <3>4
  <2>6. r1 = Cat(a, Cat(b, Cat(c, r4)))
    BY DEF r1, r2, r3, Cat, a, b, c
  <2> QED BY <2>2, <2>3, <2>5, <2>6
<1>11. Upto(m, 0) = << >> /\ Upto(m, 6) = m
  BY <1>1, FrontEnds
<1>12. Reader(r1) = Rd(r1, Upto(m, 0))
  BY <1>11 DEF Reader, Rd
<1>13. DeserializeMatch(r1) = Rd(<< >>, m)
  BY <1>4, <1>5, <1>6, <1>7, <1>8, <1>9, <1>11, <1>12 DEF DeserializeMatch, r7
<1> QED BY <1>9, <1>10, <1>13

(* And a checkpoint.                                                       *)
LEMMA CheckpointLoads ==
    ASSUME NEW c \in SomeCheckpoints
    PROVE  /\ SerializeCheckpoint(c) \in Seq(Int)
           /\ DeserializeCheckpoint(SerializeCheckpoint(c)) = Rd(<< >>, c)
<1> DEFINE T == Int \union Short(Int) \union Seq(Entities) \union Seq(Int)
                \union Short([1..1 -> Int])
           p1 == <<c[1]>>
           p2 == Text(c[2])
           p3 == Text(c[3])
           p4 == <<Len(c[4])>>
           p5 == Each(WriteEntity, c[4])
           p6 == Blob(c[5])
           p7 == Size16(c[6])
           p8 == Flat(c[6])
           p9 == Blob(c[7])
           r8 == << >>
           r7 == Blob(c[7]) \o r8
           r6 == <<Len(c[6])>> \o (Flat(c[6]) \o r7)
           r5 == Blob(c[5]) \o r6
           r4 == <<Len(c[4])>> \o (Each(WriteEntity, c[4]) \o r5)
           r3 == Text(c[3]) \o r4
           r2 == Text(c[2]) \o r3
           r1 == <<c[1]>> \o r2
<1>1. /\ c \in Seq(T) /\ Len(c) = 7
      /\ c[1] \in Int
      /\ c[2] \in Short(Int)
      /\ c[3] \in Short(Int)
      /\ c[4] \in Seq(Entities)
      /\ c[5] \in Seq(Int)
      /\ c[6] \in Short([1..1 -> Int])
      /\ c[7] \in Seq(Int)
  <2>1. c = <<c[1], c[2], c[3], c[4], c[5], c[6], c[7]>>
      /\ c[1] \in Int
      /\ c[2] \in Short(Int)
      /\ c[3] \in Short(Int)
      /\ c[4] \in Seq(Entities)
      /\ c[5] \in Seq(Int)
      /\ c[6] \in Short([1..1 -> Int])
      /\ c[7] \in Seq(Int)
    BY DataAssumption
  <2>2. /\ <<c[1], c[2], c[3], c[4], c[5], c[6], c[7]>> \in Seq(T)
       /\ Len(<<c[1], c[2], c[3], c[4], c[5], c[6], c[7]>>) = 7
    BY <2>1
  <2> QED BY <2>1, <2>2
<1>2. /\ 1 \in 1..Len(c) /\ 2 \in 1..Len(c) /\ 3 \in 1..Len(c)
      /\ 4 \in 1..Len(c) /\ 5 \in 1..Len(c) /\ 6 \in 1..Len(c) /\ 7 \in 1..Len(c)
      /\ 1 - 1 = 0 /\ 2 - 1 = 1 /\ 3 - 1 = 2 /\ 4 - 1 = 3 /\ 5 - 1 = 4 /\ 6 - 1 = 5 /\ 7 - 1 = 6
  BY <1>1
<1> HIDE DEF T, p1, p2, p3, p4, p5, p6, p7, p8, p9, r1, r2, r3, r4, r5, r6, r7, r8
<1>3. r8 \in Seq(Int)
  BY DEF r8
<1>4. ReadBlob(Rd(r7, Upto(c, 6))) = Rd(r8, Upto(c, 7)) /\ r7 \in Seq(Int)
  <2>1. /\ ReadBlob(Rd(Blob(c[7]) \o r8, Upto(c, 7 - 1))) = Rd(r8, Upto(c, 7))
        /\ Blob(c[7]) \o r8 \in Seq(Int)
    BY <1>1, <1>2, <1>3, BlobNext
  <2> QED BY <2>1, <1>2 DEF r7
<1>5. ReadList(Rd(r6, Upto(c, 5)), ReadNum) = Rd(r7, Upto(c, 6)) /\ r6 \in Seq(Int)
  <2> DEFINE o == Upto(c, 5)
             s == c[6]
             count == <<Len(s)>>
             data == Flat(s)
  <2>1. s \in Seq([1..1 -> Int])
    BY <1>1 DEF Short
  <2> HIDE DEF o
  <2>2. /\ data \in Seq(Int)
       /\ ReadList(Rd(count \o (data \o r7), o), ReadNum) = Rd(r7, Append(o, s))
    BY <1>4, <2>1, CellsRead
  <2>3. Append(o, s) = Upto(c, 6)
    <3>1. Append(Upto(c, 6 - 1), s) = Upto(c, 6)
      BY <1>1, <1>2, FrontGrows
    <3> QED BY <3>1, <1>2 DEF o
  <2>4. count \in Seq(Int)
    BY <2>1, LenProperties
  <2> HIDE DEF data, count
  <2>5. data \o r7 \in Seq(Int) /\ count \o (data \o r7) \in Seq(Int)
    BY <1>4, <2>2, <2>4, ConcatProperties
  <2> QED BY <2>2, <2>3, <2>5 DEF r6, o, data, count
<1>6. ReadBlob(Rd(r5, Upto(c, 4))) = Rd(r6, Upto(c, 5)) /\ r5 \in Seq(Int)
  <2>1. /\ ReadBlob(Rd(Blob(c[5]) \o r6, Upto(c, 5 - 1))) = Rd(r6, Upto(c, 5))
        /\ Blob(c[5]) \o r6 \in Seq(Int)
    BY <1>1, <1>2, <1>5, BlobNext
  <2> QED BY <2>1, <1>2 DEF r5
<1>7. ReadList(Rd(r4, Upto(c, 3)), ReadEntity) = Rd(r5, Upto(c, 4)) /\ r4 \in Seq(Int)
  <2> DEFINE o == Upto(c, 3)
             s == c[4]
             count == <<Len(s)>>
             data == Each(WriteEntity, s)
  <2>1. s \in Seq(Entities)
    BY <1>1 DEF Short
  <2> HIDE DEF o
  <2>2. /\ data \in Seq(Int)
       /\ ReadList(Rd(count \o (data \o r5), o), ReadEntity) = Rd(r5, Append(o, s))
    BY <1>6, <2>1, EntitiesRead
  <2>3. Append(o, s) = Upto(c, 4)
    <3>1. Append(Upto(c, 4 - 1), s) = Upto(c, 4)
      BY <1>1, <1>2, FrontGrows
    <3> QED BY <3>1, <1>2 DEF o
  <2>4. count \in Seq(Int)
    BY <2>1, LenProperties
  <2> HIDE DEF data, count
  <2>5. data \o r5 \in Seq(Int) /\ count \o (data \o r5) \in Seq(Int)
    BY <1>6, <2>2, <2>4, ConcatProperties
  <2> QED BY <2>2, <2>3, <2>5 DEF r4, o, data, count
<1>8. ReadText(Rd(r3, Upto(c, 2))) = Rd(r4, Upto(c, 3)) /\ r3 \in Seq(Int)
  <2>1. /\ ReadText(Rd(Text(c[3]) \o r4, Upto(c, 3 - 1))) = Rd(r4, Upto(c, 3))
        /\ Text(c[3]) \o r4 \in Seq(Int)
    BY <1>1, <1>2, <1>7, TextNext
  <2> QED BY <2>1, <1>2 DEF r3
<1>9. ReadText(Rd(r2, Upto(c, 1))) = Rd(r3, Upto(c, 2)) /\ r2 \in Seq(Int)
  <2>1. /\ ReadText(Rd(Text(c[2]) \o r3, Upto(c, 2 - 1))) = Rd(r3, Upto(c, 2))
        /\ Text(c[2]) \o r3 \in Seq(Int)
    BY <1>1, <1>2, <1>8, TextNext
  <2> QED BY <2>1, <1>2 DEF r2
<1>10. ReadNum(Rd(r1, Upto(c, 0))) = Rd(r2, Upto(c, 1)) /\ r1 \in Seq(Int)
  <2>1. /\ ReadNum(Rd(<<c[1]>> \o r2, Upto(c, 1 - 1))) = Rd(r2, Upto(c, 1))
        /\ <<c[1]>> \o r2 \in Seq(Int)
    BY <1>1, <1>2, <1>9, NumNext
  <2> QED BY <2>1, <1>2 DEF r1
<1>11. SerializeCheckpoint(c) = r1
  <2>1. /\ p1 \in Seq(Int) /\ p2 \in Seq(Int) /\ p3 \in Seq(Int)
       /\ p4 \in Seq(Int) /\ p5 \in Seq(Int)
        /\ p6 \in Seq(Int) /\ p7 \in Seq(Int) /\ p8 \in Seq(Int) /\ p9 \in Seq(Int)
    <3>1. p1 \in Seq(Int) /\ p4 \in Seq(Int)
      BY <1>1, LenProperties DEF p1, p4
    <3>2. p2 \in Seq(Int) /\ p3 \in Seq(Int)
      BY <1>1, <1>2, <1>3, TextNext DEF p2, p3
    <3>3. p5 \in Seq(Int)
      BY <1>1, <1>3, EntitiesRead DEF p5
    <3>4. p6 \in Seq(Int) /\ p9 \in Seq(Int)
      BY <1>1, <1>2, <1>3, BlobNext DEF p6, p9
    <3>5. p7 \in Seq(Int)
      <4>1. p7 = <<Len(c[6])>> /\ Len(c[6]) \in Nat
        BY <1>1, SizeOfShort DEF p7
      <4> QED BY <4>1
    <3>6. p8 \in Seq(Int)
      BY <1>1, <1>3, SizeOfShort, CellsRead DEF p8
    <3> QED BY <3>1, <3>2, <3>3, <3>4, <3>5, <3>6
  <2>2. SerializeCheckpoint(c)
          = Cat(Cat(Cat(Cat(Cat(Cat(Cat(Cat(p1, p2), p3), p4), p5), p6), p7), p8), p9)
    BY DEF SerializeCheckpoint, Cat, p1, p2, p3, p4, p5, p6, p7, p8, p9
  <2>3. Cat(Cat(Cat(Cat(Cat(Cat(Cat(Cat(p1, p2), p3), p4), p5), p6), p7), p8), p9)
          = Cat(p1, Cat(p2, Cat(p3, Cat(p4, Cat(p5, Cat(p6, Cat(p7, Cat(p8, p9))))))))
    <3> DEFINE y == Cat(p6, Cat(p7, Cat(p8, p9)))
               z == Cat(Cat(Cat(Cat(p1, p2), p3), p4), p5)
               w == Cat(Cat(Cat(p1, p2), p3), p4)
               x == Cat(p5, y)
    <3>1. Cat(p7, Cat(p8, p9)) \in Seq(Int)
      <4>1. Cat(p8, p9) \in Seq(Int)
        BY <2>1, CatLaws
      <4> QED BY <2>1, <4>1, CatLaws
    <3>2. y \in Seq(Int)
      BY <2>1, <3>1, CatLaws
    <3>3. z \in Seq(Int) /\ w \in Seq(Int) /\ x \in Seq(Int)
      BY <2>1, <3>2, CatLaws, Join4, Join5
    <3> HIDE DEF z
    <3>4. Cat(Cat(Cat(Cat(z, p6), p7), p8), p9) = Cat(z, y)
      BY <2>1, <3>3, Join5, SMTT(30)
    <3> HIDE DEF x
    <3>5. Cat(Cat(Cat(Cat(p1, p2), p3), p4), x) = Cat(p1, Cat(p2, Cat(p3, Cat(p4, x))))
      BY <2>1, <3>3, Join5, SMTT(30)
    <3> HIDE DEF y, w
    <3>6. Cat(Cat(w, p5), y) = Cat(w, x)
      BY <2>1, <3>2, <3>3, CatLaws DEF x
    <3> QED BY <3>4, <3>5, <3>6 DEF w, x, y, z
  <2>4. r7 = p9
    BY <2>1, ConcatEmptySeq DEF r7, r8, p9
  <2>5. r6 = Cat(p7, Cat(p8, p9))
    <3>1. p7 = <<Len(c[6])>>
      BY <1>1, SizeOfShort DEF p7
    <3> QED BY <2>4, <3>1 DEF r6, Cat, p8
  <2>6. r4 = Cat(p4, Cat(p5, Cat(p6, r6)))
    BY DEF r4, r5, Cat, p4, p5, p6
  <2>7. r1 = Cat(p1, Cat(p2, Cat(p3, r4)))
    BY DEF r1, r2, r3, Cat, p1, p2, p3
  <2> QED BY <2>2, <2>3, <2>5, <2>6, <2>7
<1>12. Upto(c, 0) = << >> /\ Upto(c, 7) = c
  BY <1>1, FrontEnds
<1>13. Reader(r1) = Rd(r1, Upto(c, 0))
  BY <1>12 DEF Reader, Rd
<1>14. DeserializeCheckpoint(r1) = Rd(<< >>, c)
  BY <1>4, <1>5, <1>6, <1>7, <1>8, <1>9, <1>10, <1>12, <1>13 DEF DeserializeCheckpoint, r8
<1> QED BY <1>10, <1>11, <1>14
------------------------------------------------------------------------------
(* Behind a header of three cells a payload starts at the fourth.          *)
LEMMA Behind ==
    ASSUME NEW S, NEW h \in Seq(S), NEW p \in Seq(S), Len(h) = 3
    PROVE  /\ h \o p \in Seq(S) /\ Len(h \o p) = 3 + Len(p) /\ Len(p) \in Nat
           /\ (h \o p)[1] = h[1] /\ (h \o p)[2] = h[2] /\ (h \o p)[3] = h[3]
           /\ SubSeq(h \o p, 4, Len(h \o p)) = p
<1>1. /\ h \o p \in Seq(S) /\ Len(h \o p) = Len(h) + Len(p)
      /\ \A i \in 1..Len(h) + Len(p) :
            (h \o p)[i] = IF i <= Len(h) THEN h[i] ELSE p[i - Len(h)]
  BY ConcatProperties
<1>2. Len(p) \in Nat
  BY LenProperties
<1> DEFINE all == h \o p
           n == Len(p)
<1>3. /\ n \in Nat /\ all \in Seq(S) /\ Len(all) = 3 + n
      /\ \A i \in 1..3 + n : all[i] = IF i <= 3 THEN h[i] ELSE p[i - 3]
  BY <1>1, <1>2
<1> HIDE DEF all, n
<1>4. all[1] = h[1] /\ all[2] = h[2] /\ all[3] = h[3]
  <2>1. 1 \in 1..3 + n /\ 2 \in 1..3 + n /\ 3 \in 1..3 + n
    BY <1>3
  <2> QED BY <1>3, <2>1
<1>5. SubSeq(all, 4, 3 + n) = p
  <2> DEFINE k == 3 + n
             q == SubSeq(all, 4, k)
  <2>1. k \in Int /\ k - 4 + 1 = n /\ (4 <= k <=> n > 0)
    BY <1>3
  <2>2. \A i \in 4..k : all[i] \in S
    BY <1>3, ElementOfSeq
  <2> HIDE DEF k
  <2>3. /\ q \in Seq(S) /\ Len(q) = (IF 4 <= k THEN k - 4 + 1 ELSE 0)
        /\ \A i \in 1..k - 4 + 1 : q[i] = all[4 + i - 1]
    BY <2>1, <2>2, SubSeqProperties
  <2> HIDE DEF q
  <2>4. q \in Seq(S) /\ Len(q) = n /\ \A i \in 1..n : q[i] = all[4 + i - 1]
    BY <1>3, <2>1, <2>3
  <2>5. \A i \in 1..n : 4 + i - 1 \in 1..3 + n /\ ~(4 + i - 1 <= 3) /\ 4 + i - 1 - 3 = i
    BY <1>3
  <2>6. \A i \in 1..n : q[i] = p[i]
    BY <1>3, <2>4, <2>5
  <2>7. q = p
    BY <2>4, <2>6, SeqEqual DEF n
  <2> QED BY <2>7 DEF q, k
<1>6. QED
  BY <1>1, <1>3, <1>4, <1>5 DEF all, n

(* A container has three cells of header, and opens with its payload.      *)
LEMMA ContainerLoads ==
    ASSUME NEW m, NEW p \in Seq(Int)
    PROVE  /\ Unpacks(m, PackContainer(m, p)) /\ Payload(PackContainer(m, p)) = p
           /\ PackContainer(m, p) \in Seq(Int \union {m, Crc(p)})
           /\ Len(PackContainer(m, p)) = 3 + Len(p) /\ Len(p) \in Nat
           /\ PackContainer(m, p)[2] = Len(p)
<1> DEFINE c == Crc(p)
           n == Len(p)
           h == <<m, n, c>>
           S == Int \union {m, c}
           f == h \o p
<1>1. n \in Int
  BY LenProperties
<1>2. p \in Seq(S)
  OBVIOUS
<1>3. m \in S /\ n \in S /\ c \in S
  BY <1>1
<1> HIDE DEF c, n, S
<1>4. h \in Seq(S) /\ Len(h) = 3 /\ h[1] = m /\ h[2] = n /\ h[3] = c
  BY <1>3
<1>5. PackContainer(m, p) = f
  BY DEF PackContainer, n, c
<1> HIDE DEF h
<1>6. /\ f \in Seq(S) /\ Len(f) = 3 + Len(p) /\ Len(p) \in Nat
      /\ f[1] = h[1] /\ f[2] = h[2] /\ f[3] = h[3]
      /\ SubSeq(f, 4, Len(f)) = p
  BY <1>2, <1>4, Behind
<1> HIDE DEF f
<1>7. Len(f) >= 3 /\ f[1] = m /\ f[2] = Len(p) /\ f[3] = c
  BY <1>4, <1>6 DEF n
<1>8. Unpacks(m, f)
  BY <1>6, <1>7 DEF Unpacks, c
<1>9. Payload(f) = p
  BY <1>6 DEF Payload
<1>10. f \in Seq(Int \union {m, Crc(p)})
  BY <1>6 DEF S, c
<1>11. QED
  BY <1>5, <1>6, <1>7, <1>8, <1>9, <1>10

(* With its end missing, a container does not open: it is not of its size. *)
LEMMA CutRefused ==
    ASSUME NEW m, NEW p \in Seq(Int), NEW cut \in CutShort(PackContainer(m, p)), NEW k
    PROVE  ~Unpacks(k, cut)
<1> DEFINE f == PackContainer(m, p)
           S == Int \union {m, Crc(p)}
           l == Len(p)
<1>1. f \in Seq(S) /\ Len(f) = 3 + l /\ f[2] = l /\ l \in Nat
  BY ContainerLoads
<1>2. PICK n \in 0..Len(f) - 1 : cut = SubSeq(f, 1, n)
  BY DEF CutShort
<1> HIDE DEF f, S, l
<1>3. n \in Nat /\ n < 3 + l
  BY <1>1, <1>2
<1>4. \A i \in 1..n : f[i] \in S
  BY <1>1, <1>3, ElementOfSeq
<1>5. cut \in Seq(S) /\ Len(cut) = n /\ \A i \in 1..n : cut[i] = f[i]
  BY <1>2, <1>3, <1>4, SubSeqProperties
<1>6. CASE n < 3
  BY <1>5, <1>6 DEF Unpacks
<1>7. CASE n >= 3
  <2>1. cut[2] = l
    BY <1>1, <1>3, <1>5, <1>7
  <2> DEFINE q == SubSeq(cut, 4, n)
  <2>2. \A i \in 4..n : cut[i] \in S
    BY <1>3, <1>5, ElementOfSeq
  <2>3. Len(q) = IF 4 <= n THEN n - 4 + 1 ELSE 0
    BY <1>3, <2>2, SubSeqProperties
  <2> HIDE DEF q
  <2>4. Len(q) # l
    BY <1>1, <1>3, <1>7, <2>3
  <2>5. QED
    BY <2>1, <2>4, <1>5 DEF Unpacks, q
<1>8. QED
  BY <1>3, <1>6, <1>7

(* There is no container in an empty file.                                 *)
LEMMA NoneUnpacks == \A m : ~Unpacks(m, << >>)
BY DEF Unpacks
(* A path is of one kind.                                                  *)
LEMMA OneKind ==
    ASSUME NEW p
    PROVE  /\ p \in Profiles => /\ ToSave(p) = SomeProfiles
                                /\ \A v : Packed(p, v) = PackContainer(1, SerializeProfile(v))
                                /\ \A f : Read(p, f) = LoadProfile(f, 0)
           /\ p \in Matches => /\ ToSave(p) = SomeMatches
                               /\ \A v : Packed(p, v) = PackContainer(2, SerializeMatch(v))
                               /\ \A f : Read(p, f) = LoadMatchRecord(f)
           /\ p \in Checkpoints => /\ ToSave(p) = SomeCheckpoints
                                   /\ \A v : Packed(p, v) = PackContainer(3, SerializeCheckpoint(v))
                                   /\ \A f : Read(p, f) = LoadCheckpoint(f)
<1>1. /\ p \in Profiles => p \notin Matches /\ p \notin Checkpoints
      /\ p \in Matches => p \notin Profiles /\ p \notin Checkpoints
      /\ p \in Checkpoints => p \notin Profiles /\ p \notin Matches
  BY SaveAssumption
<1>2. CASE p \in Profiles
  BY <1>1, <1>2 DEF ToSave, Packed, Read
<1>3. CASE p \in Matches
  BY <1>1, <1>3 DEF ToSave, Packed, Read
<1>4. CASE p \in Checkpoints
  BY <1>1, <1>4 DEF ToSave, Packed, Read
<1>5. QED
  BY <1>2, <1>3, <1>4

(* What a complete reader gives.                                           *)
LEMMA WholeRead == \A v : Rd(<< >>, v).out = v /\ Rd(<< >>, v).ok
BY DEF Rd

(* A load of what a write packed gives what it saved.                      *)
LEMMA LoadsPacked ==
    ASSUME NEW p \in Paths, NEW v \in ToSave(p) PROVE Read(p, Packed(p, v)) = v
<1>1. CASE p \in Profiles
  <2> DEFINE b == SerializeProfile(v)
  <2>1. v \in SomeProfiles
    BY <1>1, OneKind
  <2>2. b \in Seq(Int) /\ DeserializeProfile(b) = Rd(<< >>, v)
    BY <2>1, ProfileLoads
  <2>3. Packed(p, v) = PackContainer(1, b) /\ Read(p, Packed(p, v)) = LoadProfile(Packed(p, v), 0)
    BY <1>1, OneKind
  <2> HIDE DEF b
  <2>4. Unpacks(1, Packed(p, v)) /\ Payload(Packed(p, v)) = b
    BY <2>2, <2>3, ContainerLoads
  <2>5. QED
    BY <2>2, <2>3, <2>4, WholeRead DEF LoadProfile
<1>2. CASE p \in Matches
  <2> DEFINE b == SerializeMatch(v)
  <2>1. v \in SomeMatches
    BY <1>2, OneKind
  <2>2. b \in Seq(Int) /\ DeserializeMatch(b) = Rd(<< >>, v)
    BY <2>1, MatchLoads
  <2>3. Packed(p, v) = PackContainer(2, b) /\ Read(p, Packed(p, v)) = LoadMatchRecord(Packed(p, v))
    BY <1>2, OneKind
  <2> HIDE DEF b
  <2>4. Unpacks(2, Packed(p, v)) /\ Payload(Packed(p, v)) = b
    BY <2>2, <2>3, ContainerLoads
  <2>5. QED
    BY <2>2, <2>3, <2>4, WholeRead DEF LoadMatchRecord
<1>3. CASE p \in Checkpoints
  <2> DEFINE b == SerializeCheckpoint(v)
  <2>1. v \in SomeCheckpoints
    BY <1>3, OneKind
  <2>2. b \in Seq(Int) /\ DeserializeCheckpoint(b) = Rd(<< >>, v)
    BY <2>1, CheckpointLoads
  <2>3. Packed(p, v) = PackContainer(3, b) /\ Read(p, Packed(p, v)) = LoadCheckpoint(Packed(p, v))
    BY <1>3, OneKind
  <2> HIDE DEF b
  <2>4. Unpacks(3, Packed(p, v)) /\ Payload(Packed(p, v)) = b
    BY <2>2, <2>3, ContainerLoads
  <2>5. QED
    BY <2>2, <2>3, <2>4, WholeRead DEF LoadCheckpoint
<1>4. QED
  BY <1>1, <1>2, <1>3 DEF Paths

(* No file reads as an unreadable one.                                     *)
LEMMA NoFileReads ==
    ASSUME NEW p \in Paths PROVE Read(p, << >>) = Unreadable(p)
<1>1. CASE p \in Profiles
  BY <1>1, OneKind, NoneUnpacks DEF LoadProfile, Unreadable
<1>2. CASE p \in Matches
  BY <1>2, OneKind, NoneUnpacks, SaveAssumption DEF LoadMatchRecord, Unreadable
<1>3. CASE p \in Checkpoints
  BY <1>3, OneKind, NoneUnpacks, SaveAssumption DEF LoadCheckpoint, Unreadable
<1>4. QED
  BY <1>1, <1>2, <1>3 DEF Paths

(* A checkpoint copied in part is no checkpoint.                           *)
LEMMA CutLoadsNothing ==
    ASSUME NEW p \in Checkpoints, NEW v \in ToSave(p), NEW cut \in CutShort(Packed(p, v))
    PROVE  LoadCheckpoint(cut) = Nothing
<1> DEFINE b == SerializeCheckpoint(v)
<1>1. v \in SomeCheckpoints /\ Packed(p, v) = PackContainer(3, b)
  BY OneKind
<1>2. b \in Seq(Int)
  BY <1>1, CheckpointLoads
<1> HIDE DEF b
<1>3. ~Unpacks(3, cut)
  BY <1>1, <1>2, CutRefused
<1>4. QED
  BY <1>3 DEF LoadCheckpoint

(* latest.checkpoint only changes to a copy of the file just written, or   *)
(* to what a broken copy of it leaves.                                     *)
LEMMA StepCopies ==
    ASSUME StageInv, Next, latest' # latest
    PROVE  path \in Checkpoints /\ pc \in {"copy", "copying"} /\ latest' \in {file[path], Torn}
<1> USE DEF StageInv, TypeOK
<1>1. QED
  BY DEF Next, Save, Delete, OpenTmp, FillTmp, RenameTmp, RemoveTarget, RenameAgain, DiscardTmp,
         CopyBegin, CopyEnd, Crash, Restart, OtherCleanup

(* Every step loads as it should: a target that changes is the write under *)
(* way, and latest.checkpoint is the checkpoint written or cut short.      *)
LEMMA StepLoads ==
    ASSUME StageInv, Copying, KindInv, Next
    PROVE  /\ \A p \in Paths : file'[p] # file[p] =>
              IF file'[p] = Absent THEN Read(p, << >>) = Unreadable(p)
              ELSE Read(p, Packed(p, saved[file'[p]])) = saved[file'[p]]
           /\ latest' # latest =>
              LET cells == Packed(path, saved[file[path]])
              IN  IF latest' = Torn
                  THEN \A cut \in CutShort(cells) : LoadCheckpoint(cut) = Nothing
                  ELSE LoadCheckpoint(cells) = saved[latest']
<1>1. ASSUME NEW p \in Paths, file'[p] # file[p], file'[p] # Absent
      PROVE  Read(p, Packed(p, saved[file'[p]])) = saved[file'[p]]
  <2>1. p = path /\ pc \in {"rename", "renameAgain"} /\ file'[p] = writes
    BY <1>1, StepPromotesCurrent
  <2>2. saved[file'[p]] \in ToSave(p)
    BY <2>1 DEF KindInv, Given
  <2>3. QED
    BY <2>2, LoadsPacked
<1>2. ASSUME latest' # latest
      PROVE  LET cells == Packed(path, saved[file[path]])
             IN  IF latest' = Torn
                 THEN \A cut \in CutShort(cells) : LoadCheckpoint(cut) = Nothing
                 ELSE LoadCheckpoint(cells) = saved[latest']
  <2>1. /\ path \in Checkpoints /\ path \in Paths /\ pc \in {"copy", "copying"}
        /\ latest' \in {file[path], Torn}
    BY <1>2, StepCopies DEF Paths
  <2>2. file[path] = writes /\ writes > 0
    BY <2>1 DEF Copying
  <2>3. saved[file[path]] \in ToSave(path)
    BY <2>1, <2>2 DEF KindInv, KindsKept, Given
  <2> DEFINE v == saved[file[path]]
  <2>4. \A cut \in CutShort(Packed(path, v)) : LoadCheckpoint(cut) = Nothing
    BY <2>1, <2>3, CutLoadsNothing
  <2>5. /\ Read(path, Packed(path, v)) = v
       /\ Read(path, Packed(path, v)) = LoadCheckpoint(Packed(path, v))
    BY <2>1, <2>3, LoadsPacked, OneKind
  <2>6. QED
    BY <2>1, <2>4, <2>5
<1>3. QED
  BY <1>1, <1>2, NoFileReads

(* From every step that changes a file on, a load of it gives exactly what *)
(* the write that made it saved, field by field, or says that there is     *)
(* nothing; latest.checkpoint, however far it is copied, is what it names  *)
(* or nothing.  For every value that fits the length fields, whatever      *)
(* fails and whoever cleans up (SaveSystem::loadProfile, loadMatchRecord,  *)
(* loadCheckpoint, and the serialize and deserialize functions they use).  *)
THEOREM LoadsGiveWhatWasSaved == DataSpec => LoadsWhatWasSaved
<1>1. StageInv /\ Copying /\ KindInv /\ [DataNext]_<<vars, saved>> =>
        [/\ \A p \in Paths : file'[p] # file[p] =>
              IF file'[p] = Absent THEN Read(p, << >>) = Unreadable(p)
              ELSE Read(p, Packed(p, saved[file'[p]])) = saved[file'[p]]
         /\ latest' # latest =>
              LET cells == Packed(path, saved[file[path]])
              IN  IF latest' = Torn
                  THEN \A cut \in CutShort(cells) : LoadCheckpoint(cut) = Nothing
                  ELSE LoadCheckpoint(cells) = saved[latest']]_<<vars, saved>>
  BY StepLoads DEF DataNext
<1>2. QED
  BY KindInvariant, <1>1, PTL DEF DataSpec, LoadsWhatWasSaved
===============================================================================
