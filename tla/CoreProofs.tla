------------------------------ MODULE CoreProofs ------------------------------
(***************************************************************************)
(* Proofs about the parts of src/core: the task scheduler, the World and   *)
(* its command buffer.                                                     *)
(*                                                                         *)
(* TaskScheduler, for any number of workers and tasks: a task is in one    *)
(* place from its submission to its end, pending_ counts the tasks that    *)
(* have not counted themselves off, and wait() returns only when every     *)
(* submitted task has finished.                                            *)
(*                                                                         *)
(* The World and its command buffer, for any set of components and values, *)
(* any number of entities and any batch.  First the World by itself:       *)
(* records and rows agree through every swap-removal, and it implements    *)
(* the abstract entity store; the effect of each operation on the living   *)
(* entities is stated as a lemma of its own.  Then the buffer: flushing    *)
(* keeps the World consistent, touches the entities its commands name and  *)
(* no other, and makes of a pending entity what the batch's own commands   *)
(* say.                                                                    *)
(***************************************************************************)
EXTENDS TaskScheduler, CommandBuffer, FiniteSetTheorems, SequenceTheorems, TLAPS

(***************************************************************************)
(* The task scheduler.                                                     *)
(***************************************************************************)

Busy == {"run", "count"}

(* Types, without the numeric bound of pending.                            *)
Shapes ==
    /\ queue \in Seq(Tasks)
    /\ pending \in Int
    /\ queueMutex \in Threads \union {None}
    /\ waitMutex \in Threads \union {None}
    /\ pc \in [Threads -> WorkerPcs \union ClientPcs]
    /\ \A w \in Workers : pc[w] \in WorkerPcs
    /\ pc[Client] \in ClientPcs
    /\ holding \in [Workers -> Tasks \union {None}]
    /\ submitted \in 0..MaxTasks
    /\ pc[Client] = "push" => submitted # 0

(* The queue holds pushed tasks that have not run, each once.              *)
Queued == /\ \A i \in DOMAIN queue : queue[i] \in Pushed \ finished
          /\ \A i, j \in DOMAIN queue : queue[i] = queue[j] => i = j

(* What a worker has in hand is in no queue and in no other hand.          *)
InHand == /\ \A w \in Workers : pc[w] \in Busy => holding[w] \in Pushed
          /\ \A w \in Workers : pc[w] = "run" =>
                /\ holding[w] \notin finished
                /\ \A i \in DOMAIN queue : queue[i] # holding[w]
          /\ \A w \in Workers : pc[w] = "count" => holding[w] \in finished \ Throwing
          /\ \A v, w \in Workers :
                pc[v] \in Busy /\ pc[w] \in Busy /\ holding[v] = holding[w] => v = w

(* No task is nowhere.                                                     *)
Somewhere == \A t \in Pushed : \/ t \in finished
                               \/ \E i \in DOMAIN queue : queue[i] = t
                               \/ \E w \in Workers : pc[w] = "run" /\ holding[w] = t

(* The tasks that pending_ still counts: those that have not finished, are *)
(* about to count themselves off, or never will.                           *)
Outstanding == {t \in 1..submitted : \/ t \notin finished
                                     \/ t \in Throwing
                                     \/ \E w \in Workers : pc[w] = "count" /\ holding[w] = t}
Counts == pending = Cardinality(Outstanding)

Placed == Shapes /\ finished \subseteq Pushed /\ Queued /\ InHand /\ Somewhere
IInv == Placed /\ stopping \in BOOLEAN /\ Counts
------------------------------------------------------------------------------
(* At the start there is no task to be anywhere.                           *)
LEMMA InitPlaced == PoolInit => Placed
BY WorkersAssumption, TasksAssumption
   DEF PoolInit, Placed, Shapes, Queued, InHand, Somewhere, Pushed, Threads, Tasks, WorkerPcs,
       ClientPcs, Busy

(* Threads that only sleep and wake move no task.                          *)
LEMMA NothingMoved ==
    ASSUME Placed, UNCHANGED <<queue, holding, submitted, finished>>, Pushed' = Pushed,
           \A w \in Workers : pc'[w] \in Busy \/ pc[w] \in Busy => pc'[w] = pc[w],
           Shapes'
    PROVE  Placed'
BY DEF Placed, Queued, InHand, Somewhere, Busy

(* What the steps that move a task do to its place.                        *)
LEMMA PushPlaces == Placed /\ SubmitPush => Placed'
<1> SUFFICES ASSUME Placed, SubmitPush PROVE Placed'
  OBVIOUS
<1>1. /\ queue' = Append(queue, submitted) /\ submitted \in Tasks
      /\ submitted \notin Pushed /\ Pushed' = Pushed \union {submitted}
  BY WorkersAssumption, TasksAssumption DEF SubmitPush, Goto, Placed, Shapes, Pushed, Tasks, Threads
<1>2. /\ DOMAIN queue' = 1..Len(queue) + 1 /\ DOMAIN queue = 1..Len(queue) /\ Len(queue) \in Nat
      /\ queue'[Len(queue) + 1] = submitted /\ \A i \in DOMAIN queue : queue'[i] = queue[i]
  BY <1>1 DEF Placed, Shapes
<1>3. Shapes'
  BY <1>1, WorkersAssumption DEF SubmitPush, Goto, Placed, Shapes, Threads, ClientPcs
<1>4. UNCHANGED <<finished, holding>> /\ \A w \in Workers : pc'[w] = pc[w]
  BY WorkersAssumption DEF SubmitPush, Goto, Placed, Shapes, Threads
<1>5. DOMAIN queue' = DOMAIN queue \union {Len(queue) + 1} /\ Len(queue) + 1 \notin DOMAIN queue
  BY <1>2
<1>6. Queued' /\ (finished \subseteq Pushed)'
  BY <1>1, <1>2, <1>4, <1>5 DEF Placed, Queued
<1>7. InHand'
  BY <1>1, <1>2, <1>4, <1>5 DEF Placed, InHand, Busy
<1>8. Somewhere'
  BY <1>1, <1>2, <1>4, <1>5 DEF Placed, Somewhere
<1>9. QED
  BY <1>3, <1>6, <1>7, <1>8 DEF Placed

(* A task taken leaves the queue for one worker's hands.                   *)
LEMMA TakePlaces == ASSUME NEW w \in Workers, Placed, WorkerTake(w) PROVE Placed'
<1>1. /\ queue # <<>> /\ queue' = Tail(queue) /\ pc[w] = "test"
      /\ pc'[w] = "run" /\ holding'[w] = queue[1]
      /\ \A v \in Workers \ {w} : pc'[v] = pc[v] /\ holding'[v] = holding[v]
      /\ UNCHANGED <<submitted, finished>> /\ Pushed' = Pushed
  BY WorkersAssumption DEF WorkerTake, Goto, Placed, Shapes, Threads, Pushed
<1>2. /\ Len(queue) \in Nat \ {0} /\ DOMAIN queue = 1..Len(queue)
      /\ DOMAIN queue' = 1..Len(queue) - 1 /\ queue' \in Seq(Tasks) /\ queue[1] \in Tasks
      /\ \A i \in 1..Len(queue) - 1 : queue'[i] = queue[i + 1]
  BY <1>1 DEF Placed, Shapes
<1>3. Shapes'
  BY <1>2, WorkersAssumption DEF WorkerTake, Goto, Placed, Shapes, Threads, WorkerPcs
<1>4. /\ 1 \in DOMAIN queue
      /\ \A i \in DOMAIN queue' : i + 1 \in DOMAIN queue /\ i + 1 # 1 /\ queue'[i] = queue[i + 1]
      /\ \A i, j \in DOMAIN queue' : i + 1 = j + 1 => i = j
      /\ \A i \in DOMAIN queue : i = 1 \/ \E j \in DOMAIN queue' : queue'[j] = queue[i]
  <2>1. ASSUME NEW i \in DOMAIN queue, i # 1
        PROVE  i - 1 \in DOMAIN queue' /\ queue'[i - 1] = queue[i]
    <3>1. i - 1 \in 1..Len(queue) - 1 /\ (i - 1) + 1 = i
      BY <1>2, <2>1
    <3>2. QED
      BY <1>2, <3>1
  <2>2. QED
    BY <1>2, <2>1
<1>5. \A i \in DOMAIN queue' : queue'[i] # queue[1]
  BY <1>4 DEF Placed, Queued
<1>6. Queued' /\ (finished \subseteq Pushed)'
  BY <1>1, <1>4 DEF Placed, Queued
<1>7. queue[1] \in Pushed \ finished
  BY <1>4 DEF Placed, Queued
<1>8. \A v \in Workers \ {w} : pc[v] \in Busy => holding[v] # queue[1]
  BY <1>4, <1>7 DEF Placed, InHand, Busy
<1>9. InHand'
  <2>1. \A v \in Workers : pc'[v] \in Busy =>
           v = w \/ (pc[v] \in Busy /\ pc'[v] = pc[v] /\ holding'[v] = holding[v])
    <3>1. ASSUME NEW v \in Workers, v # w PROVE pc'[v] = pc[v] /\ holding'[v] = holding[v]
      BY <1>1, <3>1
    <3>2. QED
      BY <3>1 DEF Busy
  <2>2. \A v \in Workers : pc'[v] \in Busy => holding'[v] \in Pushed'
    BY <1>1, <1>7, <2>1 DEF Placed, InHand
  <2>3. ASSUME NEW v \in Workers, pc'[v] = "run"
        PROVE  holding'[v] \notin finished' /\ \A i \in DOMAIN queue' : queue'[i] # holding'[v]
    <3>1. CASE v = w
      BY <1>1, <1>5, <1>7, <3>1
    <3>2. CASE v # w
      BY <1>1, <1>4, <2>3, <3>2 DEF Placed, InHand
    <3>3. QED
      BY <3>1, <3>2
  <2>4. \A v \in Workers : pc'[v] = "count" => holding'[v] \in finished' \ Throwing
    BY <1>1 DEF Placed, InHand
  <2>5. \A u, v \in Workers :
           pc'[u] \in Busy /\ pc'[v] \in Busy /\ holding'[u] = holding'[v] => u = v
    BY <1>1, <1>8, <2>1 DEF Placed, InHand
  <2>6. QED
    BY <2>2, <2>3, <2>4, <2>5 DEF InHand
<1>10. Somewhere'
  BY <1>1, <1>4 DEF Placed, Somewhere
<1>11. QED
  BY <1>3, <1>6, <1>9, <1>10 DEF Placed

(* A task run is finished; its worker goes on to count it, unless it       *)
(* threw.                                                                  *)
LEMMA RunPlaces == ASSUME NEW w \in Workers, Placed, WorkerRun(w) PROVE Placed'
<1>1. /\ pc[w] = "run" /\ finished' = finished \union {holding[w]}
      /\ \A v \in Workers \ {w} : pc'[v] = pc[v] /\ holding'[v] = holding[v]
      /\ \/ pc'[w] = "lock"
         \/ holding[w] \notin Throwing /\ pc'[w] = "count" /\ holding'[w] = holding[w]
      /\ UNCHANGED <<queue, submitted>> /\ Pushed' = Pushed
  BY WorkersAssumption DEF WorkerRun, Goto, Placed, Shapes, Threads, Pushed
<1>2. Shapes'
  BY WorkersAssumption DEF WorkerRun, Goto, Placed, Shapes, Threads, WorkerPcs
<1>3. holding[w] \in Pushed /\ \A i \in DOMAIN queue : queue[i] # holding[w]
  BY <1>1 DEF Placed, InHand, Busy
<1>4. Queued' /\ (finished \subseteq Pushed)'
  BY <1>1, <1>3 DEF Placed, Queued
<1>5. InHand'
  BY <1>1, <1>3 DEF Placed, InHand, Busy
<1>6. Somewhere'
  BY <1>1 DEF Placed, Somewhere
<1>7. QED
  BY <1>2, <1>4, <1>5, <1>6 DEF Placed

(* Counting moves no task.                                                 *)
LEMMA CountPlaces == ASSUME NEW w \in Workers, Placed, WorkerCount(w) PROVE Placed'
<1>1. /\ pc[w] = "count" /\ pc'[w] \in {"lock", "lockWait"}
      /\ \A v \in Workers \ {w} : pc'[v] = pc[v] /\ holding'[v] = holding[v]
      /\ UNCHANGED <<queue, submitted, finished>> /\ Pushed' = Pushed
  BY WorkersAssumption DEF WorkerCount, Goto, Placed, Shapes, Threads, Pushed
<1>2. Shapes'
  BY WorkersAssumption DEF WorkerCount, Goto, Placed, Shapes, Threads, WorkerPcs
<1>3. Queued' /\ (finished \subseteq Pushed)' /\ Somewhere'
  BY <1>1 DEF Placed, Queued, Somewhere
<1>4. InHand'
  BY <1>1 DEF Placed, InHand, Busy
<1>5. QED
  BY <1>2, <1>3, <1>4 DEF Placed

(* Every step keeps each task in its one place.                            *)
LEMMA NextPlaced == Placed /\ [PoolNext]_poolVars => Placed'
<1> SUFFICES ASSUME Placed, [PoolNext]_poolVars PROVE Placed'
  OBVIOUS
<1> USE WorkersAssumption, TasksAssumption
    DEF Placed, Shapes, Queued, InHand, Somewhere, Pushed, Threads, Tasks, WorkerPcs,
        ClientPcs, Busy, Goto
<1>1. CASE SubmitCount
  BY <1>1 DEF SubmitCount
<1>2. CASE SubmitPush
  BY <1>2, PushPlaces
<1>3. CASE SubmitNotify
  <2>1. Shapes'
    BY <1>3 DEF SubmitNotify, Woken, Sleepers
  <2>2. /\ UNCHANGED <<queue, holding, submitted, finished>> /\ Pushed' = Pushed
        /\ \A w \in Workers : pc'[w] \in Busy \/ pc[w] \in Busy => pc'[w] = pc[w]
    BY <1>3 DEF SubmitNotify, Woken, Sleepers
  <2>3. QED
    BY <2>1, <2>2, NothingMoved
<1>4. CASE WaitCall
  BY <1>4 DEF WaitCall
<1>5. CASE WaitLock
  BY <1>5 DEF WaitLock
<1>6. CASE WaitReturn
  BY <1>6 DEF WaitReturn
<1>7. CASE WaitPark
  BY <1>7 DEF WaitPark
<1>8. CASE WaitSleep
  BY <1>8 DEF WaitSleep
<1>9. CASE Destroy
  BY <1>9 DEF Destroy
<1>10. CASE DestroyNotify
  <2>1. Shapes'
    BY <1>10 DEF DestroyNotify, Woken, Sleepers
  <2>2. /\ UNCHANGED <<queue, holding, submitted, finished>> /\ Pushed' = Pushed
        /\ \A w \in Workers : pc'[w] \in Busy \/ pc[w] \in Busy => pc'[w] = pc[w]
    BY <1>10 DEF DestroyNotify, Woken, Sleepers
  <2>3. QED
    BY <2>1, <2>2, NothingMoved
<1>11. CASE DestroyJoin
  BY <1>11 DEF DestroyJoin
<1>12. ASSUME NEW w \in Workers, WorkerLock(w) PROVE Placed'
  BY <1>12 DEF WorkerLock
<1>13. ASSUME NEW w \in Workers, WorkerTake(w) PROVE Placed'
  BY <1>13, TakePlaces
<1>14. ASSUME NEW w \in Workers, WorkerExit(w) PROVE Placed'
  BY <1>14 DEF WorkerExit
<1>15. ASSUME NEW w \in Workers, WorkerPark(w) PROVE Placed'
  BY <1>15 DEF WorkerPark
<1>16. ASSUME NEW w \in Workers, WorkerSleep(w) PROVE Placed'
  <2>1. Shapes'
    BY <1>16 DEF WorkerSleep
  <2>2. /\ UNCHANGED <<queue, holding, submitted, finished>> /\ Pushed' = Pushed
        /\ \A v \in Workers : pc'[v] \in Busy \/ pc[v] \in Busy => pc'[v] = pc[v]
    BY <1>16 DEF WorkerSleep
  <2>3. QED
    BY <2>1, <2>2, NothingMoved
<1>17. ASSUME NEW w \in Workers, WorkerRun(w) PROVE Placed'
  BY <1>17, RunPlaces
<1>18. ASSUME NEW w \in Workers, WorkerCount(w) PROVE Placed'
  BY <1>18, CountPlaces
<1>19. ASSUME NEW w \in Workers, WorkerNotify(w) PROVE Placed'
  <2>1. Shapes'
    BY <1>19 DEF WorkerNotify
  <2>2. /\ UNCHANGED <<queue, holding, submitted, finished>> /\ Pushed' = Pushed
        /\ \A v \in Workers : pc'[v] \in Busy \/ pc[v] \in Busy => pc'[v] = pc[v]
    BY <1>19 DEF WorkerNotify
  <2>3. QED
    BY <2>1, <2>2, NothingMoved
<1>20. ASSUME NEW t \in Threads, SpuriousWake(t) PROVE Placed'
  BY <1>20 DEF SpuriousWake
<1>21. CASE UNCHANGED poolVars
  BY <1>21 DEF poolVars
<1>22. QED
  BY <1>1, <1>2, <1>3, <1>4, <1>5, <1>6, <1>7, <1>8, <1>9, <1>10, <1>11, <1>12, <1>13,
     <1>14, <1>15, <1>16, <1>17, <1>18, <1>19, <1>20, <1>21 DEF PoolNext, ClientStep, WorkerStep

(* stopping_ is a truth value.                                             *)
LEMMA StoppingType == stopping \in BOOLEAN /\ [PoolNext]_poolVars => stopping' \in BOOLEAN
BY DEF PoolNext, poolVars, ClientStep, WorkerStep, SubmitCount, SubmitPush, SubmitNotify, WaitCall,
       WaitLock, WaitReturn, WaitPark, WaitSleep, Destroy, DestroyNotify, DestroyJoin,
       WorkerLock, WorkerTake, WorkerExit, WorkerPark, WorkerSleep, WorkerRun, WorkerCount,
       WorkerNotify, SpuriousWake
------------------------------------------------------------------------------
(* The outstanding tasks are some of the finitely many submitted.          *)
LEMMA OutstandingFinite ==
    ASSUME Placed
    PROVE  IsFiniteSet(Outstanding) /\ Outstanding \subseteq Tasks
           /\ Cardinality(Outstanding) \in 0..submitted
<1>1. submitted \in Nat /\ 1..submitted \subseteq Tasks
  BY TasksAssumption DEF Placed, Shapes, Tasks
<1>2. IsFiniteSet(1..submitted) /\ Cardinality(1..submitted) = submitted
  BY <1>1, FS_Interval
<1>3. Outstanding \subseteq 1..submitted
  BY DEF Outstanding
<1>4. IsFiniteSet(Outstanding) /\ Cardinality(Outstanding) <= submitted
  BY <1>2, <1>3, FS_Subset
<1>5. QED
  BY <1>1, <1>3, <1>4, FS_CardinalityType

(* A step that neither submits nor counts off changes no reckoning.        *)
LEMMA SameReckoning ==
    ASSUME Placed, Counts, UNCHANGED <<pending, submitted>>,
           \/ /\ UNCHANGED <<holding, finished>>
              /\ \A w \in Workers : pc'[w] = "count" <=> pc[w] = "count"
           \/ \E w \in Workers : WorkerTake(w) \/ WorkerRun(w)
    PROVE  Counts'
<1>1. Outstanding' = Outstanding
  <2>1. CASE /\ UNCHANGED <<holding, finished>>
             /\ \A w \in Workers : pc'[w] = "count" <=> pc[w] = "count"
    BY <2>1 DEF Outstanding
  <2>2. ASSUME NEW w \in Workers, WorkerTake(w) PROVE Outstanding' = Outstanding
    <3>1. /\ pc[w] = "test" /\ pc'[w] = "run" /\ finished' = finished
          /\ \A v \in Workers \ {w} : pc'[v] = pc[v] /\ holding'[v] = holding[v]
      BY <2>2, WorkersAssumption DEF WorkerTake, Goto, Placed, Shapes, Threads
    <3>2. QED
      BY <3>1 DEF Outstanding
  <2>3. ASSUME NEW w \in Workers, WorkerRun(w) PROVE Outstanding' = Outstanding
    <3>1. /\ pc[w] = "run" /\ finished' = finished \union {holding[w]}
          /\ \A v \in Workers \ {w} : pc'[v] = pc[v] /\ holding'[v] = holding[v]
          /\ \/ holding[w] \in Throwing /\ pc'[w] = "lock"
             \/ pc'[w] = "count" /\ holding'[w] = holding[w]
      BY <2>3, WorkersAssumption DEF WorkerRun, Goto, Placed, Shapes, Threads
    <3>2. holding[w] \notin finished
      BY <3>1 DEF Placed, InHand
    <3>3. QED
      BY <3>1, <3>2 DEF Outstanding
  <2>4. QED
    BY <2>1, <2>2, <2>3
<1>2. QED
  BY <1>1 DEF Counts

(* pending_ stays the number of the outstanding tasks.                     *)
LEMMA NextCounts == Placed /\ Counts /\ [PoolNext]_poolVars => Counts'
<1> SUFFICES ASSUME Placed, Counts, [PoolNext]_poolVars PROVE Counts'
  OBVIOUS
<1>1. CASE SubmitCount
  <2>1. /\ submitted' = submitted + 1 /\ pending' = pending + 1 /\ submitted \in Nat
        /\ UNCHANGED <<holding, finished>> /\ \A w \in Workers : pc'[w] = pc[w]
        /\ pc[Client] = "idle"
    BY <1>1, WorkersAssumption DEF SubmitCount, Goto, Placed, Shapes, Threads
  <2>2. submitted' \notin finished
    BY <2>1 DEF Placed, Pushed
  <2>3. 1..submitted' = (1..submitted) \union {submitted'} /\ submitted' \notin 1..submitted
    BY <2>1
  <2>4. Outstanding' = Outstanding \union {submitted'} /\ submitted' \notin Outstanding
    BY <2>1, <2>2, <2>3 DEF Outstanding
  <2>5. Cardinality(Outstanding') = Cardinality(Outstanding) + 1
    BY <2>4, OutstandingFinite, FS_AddElement
  <2>6. QED
    BY <2>1, <2>5 DEF Counts
<1>2. ASSUME NEW w \in Workers, WorkerCount(w) PROVE Counts'
  <2>1. /\ pc[w] = "count" /\ pc'[w] # "count" /\ pending' = pending - 1
        /\ \A v \in Workers \ {w} : pc'[v] = pc[v] /\ holding'[v] = holding[v]
        /\ UNCHANGED <<submitted, finished>>
    BY <1>2, WorkersAssumption DEF WorkerCount, Goto, Placed, Shapes, Threads
  <2>2. /\ holding[w] \in finished \ Throwing /\ holding[w] \in Pushed
        /\ \A v \in Workers \ {w} : pc[v] = "count" => holding[v] # holding[w]
    BY <2>1 DEF Placed, InHand, Busy
  <2>3. holding[w] \in 1..submitted
    BY <2>2 DEF Pushed, Placed, Shapes
  <2>4. Outstanding' = Outstanding \ {holding[w]} /\ holding[w] \in Outstanding
    BY <2>1, <2>2, <2>3 DEF Outstanding
  <2>5. Cardinality(Outstanding') = Cardinality(Outstanding) - 1
    BY <2>4, OutstandingFinite, FS_RemoveElement
  <2>6. QED
    BY <2>1, <2>5 DEF Counts
<1>3. ASSUME NEW w \in Workers, WorkerTake(w) \/ WorkerRun(w) PROVE Counts'
  <2>1. UNCHANGED <<pending, submitted>>
    BY <1>3 DEF WorkerTake, WorkerRun
  <2>2. QED
    BY <1>3, <2>1, SameReckoning
<1>4. ASSUME \/ SubmitPush \/ SubmitNotify \/ WaitCall \/ WaitLock \/ WaitReturn \/ WaitPark
             \/ WaitSleep \/ Destroy \/ DestroyNotify \/ DestroyJoin
      PROVE  Counts'
  <2>1. /\ UNCHANGED <<pending, submitted, holding, finished>>
        /\ \A w \in Workers : pc'[w] = "count" <=> pc[w] = "count"
    <3>1. CASE SubmitNotify \/ DestroyNotify
      <4>1. PICK W \in SUBSET Sleepers : \E label : pc' = [Woken(W) EXCEPT ![Client] = label]
        BY <3>1 DEF SubmitNotify, DestroyNotify
      <4>2. \A w \in Workers : pc'[w] = IF w \in W THEN "lock" ELSE pc[w]
        BY <4>1, WorkersAssumption DEF Woken, Threads
      <4>3. \A w \in Workers : pc'[w] = "count" <=> pc[w] = "count"
        BY <4>2 DEF Sleepers
      <4>4. QED
        BY <3>1, <4>3 DEF SubmitNotify, DestroyNotify
    <3>2. CASE ~(SubmitNotify \/ DestroyNotify)
      BY <1>4, <3>2, WorkersAssumption
         DEF Goto, Placed, Shapes, Threads, SubmitPush, WaitCall, WaitLock, WaitReturn, WaitPark,
             WaitSleep, Destroy, DestroyJoin
    <3>3. QED
      BY <3>1, <3>2
  <2>2. QED
    BY <2>1, SameReckoning
<1>5. ASSUME \/ \E w \in Workers : \/ WorkerLock(w) \/ WorkerExit(w) \/ WorkerPark(w)
                                   \/ WorkerSleep(w) \/ WorkerNotify(w)
             \/ \E t \in Threads : SpuriousWake(t)
             \/ UNCHANGED poolVars
      PROVE  Counts'
  <2>1. /\ UNCHANGED <<pending, submitted, holding, finished>>
        /\ \A w \in Workers : pc'[w] = "count" <=> pc[w] = "count"
    BY <1>5, WorkersAssumption DEF Goto, Placed, Shapes, Threads, poolVars, WorkerLock, WorkerExit, WorkerPark,
       WorkerSleep, WorkerNotify, SpuriousWake
  <2>2. QED
    BY <2>1, SameReckoning
<1>6. QED
  BY <1>1, <1>2, <1>3, <1>4, <1>5 DEF PoolNext, ClientStep, WorkerStep
------------------------------------------------------------------------------
(* The inductive invariant: where each task is, and that pending_ is the   *)
(* number of those whose decrement is to come or never comes, for they     *)
(* threw (TaskScheduler::submit, workerLoop).                              *)
THEOREM PoolInductive == PoolSpec => []IInv
<1>1. PoolInit => IInv
  <2>1. ASSUME PoolInit PROVE Counts
    <3>1. Outstanding = {} /\ pending = 0
      BY <2>1 DEF PoolInit, Outstanding
    <3>2. QED
      BY <3>1, FS_EmptySet DEF Counts
  <2>2. PoolInit => stopping \in BOOLEAN
    BY DEF PoolInit
  <2>3. QED
    BY <2>1, <2>2, InitPlaced DEF IInv
<1>2. IInv /\ [PoolNext]_poolVars => IInv'
  BY NextPlaced, NextCounts, StoppingType DEF IInv
<1>3. QED
  BY <1>1, <1>2, PTL DEF PoolSpec

(* Every pushed task is in the queue, in the hands of one worker, or       *)
(* finished, and in one of them only: none is lost, taken twice or run     *)
(* twice, with any number of workers and at shutdown.                      *)
THEOREM TasksOnce == PoolSpec => []EachTaskOnce
<1>1. IInv => EachTaskOnce
  <2> SUFFICES ASSUME IInv PROVE EachTaskOnce
    OBVIOUS
  <2>1. PoolTypeOK
    <3>1. pending \in 0..MaxTasks
      BY OutstandingFinite, TasksAssumption DEF IInv, Counts, Placed, Shapes
    <3>2. finished \subseteq Tasks
      BY TasksAssumption DEF IInv, Placed, Shapes, Pushed, Tasks
    <3>3. QED
      BY <3>1, <3>2 DEF IInv, Placed, Shapes, PoolTypeOK
  <2>2. finished \union ToSet(queue) \subseteq Pushed
    BY DEF IInv, Placed, Queued, ToSet
  <2>3. ASSUME NEW t \in Pushed
        PROVE  (IF t \in finished THEN 1 ELSE 0) + Cardinality(Running(t))
                  + Cardinality({k \in DOMAIN queue : queue[k] = t}) = 1
    <3> DEFINE At == {k \in DOMAIN queue : queue[k] = t}
    <3>1. CASE t \in finished
      <4>1. Running(t) = {} /\ At = {}
        BY <3>1 DEF Running, IInv, Placed, Queued, InHand
      <4>2. QED
        BY <3>1, <4>1, FS_EmptySet
    <3>2. ASSUME t \notin finished, NEW i \in DOMAIN queue, queue[i] = t
          PROVE  Cardinality(Running(t)) = 0 /\ Cardinality(At) = 1
      <4>1. Running(t) = {} /\ At = {i}
        BY <3>2 DEF Running, IInv, Placed, Queued, InHand
      <4>2. QED
        BY <4>1, FS_EmptySet, FS_Singleton
    <3>3. ASSUME t \notin finished, NEW w \in Workers, pc[w] = "run", holding[w] = t
          PROVE  Cardinality(Running(t)) = 1 /\ Cardinality(At) = 0
      <4>1. Running(t) = {w} /\ At = {}
        BY <3>3 DEF Running, IInv, Placed, Queued, InHand, Busy
      <4>2. QED
        BY <4>1, FS_EmptySet, FS_Singleton
    <3>4. QED
      BY <3>1, <3>2, <3>3 DEF IInv, Placed, Somewhere
  <2>4. QED
    BY <2>1, <2>2, <2>3 DEF EachTaskOnce
<1>2. QED
  BY <1>1, PoolInductive, PTL

(* wait() is a barrier: when it returns, every task submitted before has   *)
(* finished, whatever the workers and their last notification do.          *)
THEOREM WaitBarrier == PoolSpec => WaitIsBarrier
<1>1. ASSUME IInv, PoolNext, pc[Client] = "test", pc'[Client] = "idle"
      PROVE  1..submitted \subseteq finished
  <2>1. pending = 0
    BY <1>1, WorkersAssumption
       DEF IInv, Placed, Shapes, Threads, PoolNext, ClientStep, WorkerStep, Goto, Woken, Sleepers,
           SubmitCount, SubmitPush, SubmitNotify, WaitCall, WaitLock, WaitReturn, WaitPark,
           WaitSleep, Destroy, DestroyNotify, DestroyJoin, WorkerLock, WorkerTake, WorkerExit,
           WorkerPark, WorkerSleep, WorkerRun, WorkerCount, WorkerNotify, SpuriousWake
  <2>2. Outstanding = {}
    BY <1>1, <2>1, OutstandingFinite, FS_EmptySet DEF IInv, Counts
  <2>3. QED
    BY <2>2 DEF Outstanding
<1>2. IInv /\ [PoolNext]_poolVars =>
         [pc[Client] = "test" /\ pc'[Client] = "idle" => 1..submitted \subseteq finished]_poolVars
  BY <1>1 DEF poolVars
<1>3. QED
  BY <1>2, PoolInductive, PTL DEF PoolSpec, WaitIsBarrier
------------------------------------------------------------------------------
(***************************************************************************)
(* The World and its command buffer.                                       *)
(***************************************************************************)

Records == [archetype : Masks \union {NoArchetype}, row : Nat, generation : 0..MaxGeneration]
Rows    == [entity : Handles, value : UNION {[mask -> Values] : mask \in Masks}]

(* The inductive invariant.                                                *)
Consistent == TypeOK /\ RecordsMatchRows /\ FreeListExact
------------------------------------------------------------------------------
(* Sequences.                                                              *)
LEMMA FunctionIsSeq ==
    ASSUME NEW S, NEW n \in Nat, NEW f \in [1..n -> S]
    PROVE  f \in Seq(S) /\ Len(f) = n
<1>1. f \in Seq(S)
  BY SeqDef
<1>2. 1..Len(f) = 1..n /\ Len(f) \in Nat
  BY <1>1, LenProperties
<1>3. QED
  BY <1>1, <1>2

(* archetypeSwapRemoveRow: the last row fills the hole, the others stay.   *)
LEMMA SwapRemoved ==
    ASSUME NEW S, NEW rows \in Seq(S), NEW r \in 1..Len(rows)
    PROVE  /\ SwapRemove(rows, r) \in Seq(S)
           /\ Len(SwapRemove(rows, r)) = Len(rows) - 1
           /\ DOMAIN SwapRemove(rows, r) = 1..(Len(rows) - 1)
           /\ \A k \in 1..(Len(rows) - 1) :
                 SwapRemove(rows, r)[k] = IF k = r THEN rows[Len(rows)] ELSE rows[k]
<1>1. Len(rows) - 1 \in Nat /\ \A k \in 1..Len(rows) : rows[k] \in S
  OBVIOUS
<1>2. SwapRemove(rows, r) \in [1..(Len(rows) - 1) -> S]
  BY <1>1 DEF SwapRemove
<1>3. QED
  BY <1>1, <1>2, FunctionIsSeq DEF SwapRemove
------------------------------------------------------------------------------
(* Types and links, slot by slot and row by row.                           *)
LEMMA Typed ==
    ASSUME TypeOK
    PROVE  /\ entities \in Seq(Records) /\ Len(entities) \in 0..MaxEntities
           /\ DOMAIN entities = Slots
           /\ \A i \in Slots : entities[i] \in Records
           /\ DOMAIN table = Masks
           /\ \A mask \in Masks : /\ table[mask] \in Seq(Rows) /\ Len(table[mask]) \in Nat
                                  /\ DOMAIN table[mask] = 1..Len(table[mask])
                                  /\ \A r \in 1..Len(table[mask]) : table[mask][r] \in Rows
<1>1. entities \in Seq(Records) /\ table \in [Masks -> Seq(Rows)] /\ Len(entities) <= MaxEntities
  BY DEF TypeOK, Records, Rows
<1>2. Len(entities) \in 0..MaxEntities /\ DOMAIN entities = 1..Len(entities)
  BY <1>1, BoundsAssumption
<1>3. \A i \in 1..Len(entities) : entities[i] \in Records
  BY <1>1
<1>4. ASSUME NEW mask \in Masks
      PROVE  /\ table[mask] \in Seq(Rows) /\ Len(table[mask]) \in Nat
             /\ DOMAIN table[mask] = 1..Len(table[mask])
             /\ \A r \in 1..Len(table[mask]) : table[mask][r] \in Rows
  <2>1. table[mask] \in Seq(Rows)
    BY <1>1
  <2>2. QED
    BY <2>1
<1>5. DOMAIN table = Masks
  BY <1>1
<1>6. QED
  BY <1>1, <1>2, <1>3, <1>4, <1>5 DEF Slots

(* A living handle is a slot's own, with its current generation.           *)
LEMMA AliveSlots ==
    ASSUME TypeOK
    PROVE  /\ Alive \subseteq Handles
           /\ \A e \in Alive : /\ IsAlive(e) /\ e = Handle(e.index) /\ e.index \in Slots
                               /\ entities[e.index].archetype \in Masks
           /\ \A i \in Slots : entities[i].archetype # NoArchetype => Handle(i) \in Alive
           /\ \A e \in Handles : IsAlive(e) <=> e \in Alive
<1>1. \A i \in Slots : /\ Handle(i) \in Handles /\ Handle(i).index = i
                       /\ Handle(i).generation = entities[i].generation
                       /\ entities[i].archetype # NoArchetype => entities[i].archetype \in Masks
  BY Typed, BoundsAssumption DEF Handle, Handles, Slots, Records
<1>2. \A e \in Handles : IsAlive(e) => e = Handle(e.index)
  BY DEF IsAlive, Handle, Handles
<1>3. QED
  BY <1>1, <1>2 DEF Alive, IsAlive

(* A record points at a row that holds its own handle, and a row at its    *)
(* record.                                                                 *)
LEMMA Links ==
    ASSUME Consistent
    PROVE  /\ \A i \in Slots : entities[i].archetype # NoArchetype =>
                 /\ entities[i].row \in 1..Len(table[entities[i].archetype])
                 /\ table[entities[i].archetype][entities[i].row].entity = Handle(i)
           /\ \A mask \in Masks : \A r \in 1..Len(table[mask]) :
                 LET e == table[mask][r].entity
                 IN  /\ e.index \in Slots /\ e = Handle(e.index)
                     /\ entities[e.index].archetype = mask /\ entities[e.index].row = r
                     /\ table[mask][r].value \in [mask -> Values]
<1>1. ASSUME NEW i \in Slots, entities[i].archetype # NoArchetype
      PROVE  /\ entities[i].row \in 1..Len(table[entities[i].archetype])
             /\ table[entities[i].archetype][entities[i].row].entity = Handle(i)
  <2>1. entities[i].archetype \in Masks
    BY <1>1, Typed DEF Consistent, Records
  <2>2. QED
    BY <1>1, <2>1, Typed DEF Consistent, RecordsMatchRows, RowOf, Handle
<1>2. ASSUME NEW mask \in Masks, NEW r \in 1..Len(table[mask])
      PROVE  LET e == table[mask][r].entity
             IN  /\ e.index \in Slots /\ e = Handle(e.index)
                 /\ entities[e.index].archetype = mask /\ entities[e.index].row = r
                 /\ table[mask][r].value \in [mask -> Values]
  <2>1. table[mask][r] \in Rows /\ r \in DOMAIN table[mask]
    BY Typed DEF Consistent
  <2>2. table[mask][r].entity \in Handles
    BY <2>1 DEF Rows
  <2>3. table[mask][r].value \in [mask -> Values]
    BY <2>1 DEF Rows, Consistent, RecordsMatchRows
  <2>4. QED
    BY <2>1, <2>2, <2>3 DEF Consistent, RecordsMatchRows, IsAlive, Handle, Handles
<1>3. QED
  BY <1>1, <1>2
------------------------------------------------------------------------------
(* The row of a living entity e leaves its table.  What is left of every   *)
(* table, and the row that the record of slot i then names.                *)
Source(e)     == entities[e.index].archetype
At(e)         == entities[e.index].row
Kept(e, mask) == IF mask = Source(e) THEN SwapRemove(table[mask], At(e)) ELSE table[mask]
NewRow(e, i)  == IF IsMoved(table[Source(e)], At(e), i) THEN At(e) ELSE entities[i].row

LEMMA KeptTyped ==
    ASSUME Consistent, NEW e \in Alive
    PROVE  /\ Source(e) \in Masks /\ At(e) \in 1..Len(table[Source(e)])
           /\ table[Source(e)][At(e)].entity = e
           /\ \A mask \in Masks : Kept(e, mask) \in Seq(Rows)
           /\ Len(Kept(e, Source(e))) = Len(table[Source(e)]) - 1
           /\ \A k \in 1..(Len(table[Source(e)]) - 1) : Kept(e, Source(e))[k] =
                  IF k = At(e) THEN table[Source(e)][Len(table[Source(e)])]
                               ELSE table[Source(e)][k]
<1>1. Source(e) \in Masks /\ e.index \in Slots /\ e = Handle(e.index)
  BY AliveSlots DEF Consistent, Source
<1>2. At(e) \in 1..Len(table[Source(e)]) /\ table[Source(e)][At(e)].entity = e
  BY <1>1, Links, ValuesAssumption DEF Source, At, Masks
<1>3. \A mask \in Masks : table[mask] \in Seq(Rows)
  BY Typed DEF Consistent
<1>4. QED
  BY <1>1, <1>2, <1>3, SwapRemoved DEF Kept

(* Every other entity keeps its row's contents.                            *)
LEMMA OthersKept ==
    ASSUME Consistent, NEW e \in Alive,
           NEW i \in Slots \ {e.index}, entities[i].archetype # NoArchetype
    PROVE  /\ NewRow(e, i) \in 1..Len(Kept(e, entities[i].archetype))
           /\ Kept(e, entities[i].archetype)[NewRow(e, i)] = RowOf(Handle(i))
<1> DEFINE src == Source(e)
           n   == Len(table[src])
           r   == At(e)
           p   == entities[i].row
<1>1. entities[i].archetype \in Masks /\ p \in 1..Len(table[entities[i].archetype])
  BY Links, Typed DEF Consistent, Records
<1>2. src \in Masks /\ n \in Nat /\ r \in 1..n
  BY KeptTyped, Typed DEF Consistent
<1>3. RowOf(Handle(i)) = table[entities[i].archetype][p]
  BY DEF RowOf, Handle
<1>4. n \in 1..n /\ table[src][n].entity.index = i => entities[i].archetype = src /\ p = n
  BY <1>2, Links
<1>5. ASSUME entities[i].archetype # src
      PROVE  /\ NewRow(e, i) \in 1..Len(Kept(e, entities[i].archetype))
             /\ Kept(e, entities[i].archetype)[NewRow(e, i)] = RowOf(Handle(i))
  BY <1>1, <1>2, <1>3, <1>4, <1>5 DEF NewRow, IsMoved, Kept
<1>6. ASSUME entities[i].archetype = src
      PROVE  /\ NewRow(e, i) \in 1..Len(Kept(e, entities[i].archetype))
             /\ Kept(e, entities[i].archetype)[NewRow(e, i)] = RowOf(Handle(i))
  <2>1. table[src][p].entity = Handle(i) /\ table[src][r].entity = e
    BY <1>6, Links, KeptTyped
  <2>2. p # r
    BY <2>1 DEF Handle
  <2>3. p = n => table[src][n].entity.index = i
    BY <2>1 DEF Handle
  <2>4. Len(Kept(e, src)) = n - 1
    BY KeptTyped
  <2>5. \A k \in 1..(n - 1) : Kept(e, src)[k] = IF k = r THEN table[src][n] ELSE table[src][k]
    BY KeptTyped
  <2>6. NewRow(e, i) = IF r # n /\ table[src][n].entity.index = i THEN r ELSE p
    BY DEF NewRow, IsMoved
  <2>7. NewRow(e, i) \in 1..(n - 1) /\ Kept(e, src)[NewRow(e, i)] = table[src][p]
    <3>1. CASE r # n /\ p = n
      BY <3>1, <1>2, <2>3, <2>5, <2>6
    <3>2. CASE r = n \/ p # n
      BY <3>2, <1>1, <1>2, <1>4, <1>6, <2>2, <2>5, <2>6
    <3>3. QED
      BY <3>1, <3>2
  <2>8. QED
    BY <1>3, <1>6, <2>4, <2>7
<1>7. QED
  BY <1>5, <1>6

(* Every row that is left is the row of another living entity.             *)
LEMMA RowsKept ==
    ASSUME Consistent, NEW e \in Alive, NEW mask \in Masks, NEW q \in 1..Len(Kept(e, mask))
    PROVE  \E i \in Slots \ {e.index} :
              /\ entities[i].archetype = mask /\ NewRow(e, i) = q
              /\ Kept(e, mask)[q] = RowOf(Handle(i))
              /\ Kept(e, mask)[q].entity = Handle(i)
              /\ Kept(e, mask)[q].value \in [mask -> Values]
<1> DEFINE src == Source(e)
           n   == Len(table[src])
           r   == At(e)
           Of(m, k) == table[m][k].entity.index
<1>1. src \in Masks /\ n \in Nat /\ r \in 1..n /\ Of(src, r) = e.index
  BY KeptTyped, Typed DEF Consistent
<1>2. \A m \in Masks : \A k \in 1..Len(table[m]) :
         /\ Of(m, k) \in Slots
         /\ entities[Of(m, k)].archetype = m /\ entities[Of(m, k)].row = k
         /\ table[m][k] = RowOf(Handle(Of(m, k)))
         /\ table[m][k].entity = Handle(Of(m, k))
         /\ table[m][k].value \in [m -> Values]
  <2>1. ASSUME NEW m \in Masks, NEW k \in 1..Len(table[m])
        PROVE  /\ Of(m, k) \in Slots
               /\ entities[Of(m, k)].archetype = m /\ entities[Of(m, k)].row = k
               /\ table[m][k].entity = Handle(Of(m, k))
               /\ table[m][k].value \in [m -> Values]
    BY Links
  <2>2. ASSUME NEW m \in Masks, NEW k \in 1..Len(table[m])
        PROVE  table[m][k] = RowOf(Handle(Of(m, k)))
    <3>1. Handle(Of(m, k)).index = Of(m, k)
      BY DEF Handle
    <3>2. QED
      BY <2>1, <3>1 DEF RowOf
  <2>3. QED
    BY <2>1, <2>2
<1>3. entities[e.index].archetype = src /\ entities[e.index].row = r
  BY DEF Source, At
<1>4. \A i \in Slots : NewRow(e, i) = IF r # n /\ Of(src, n) = i THEN r ELSE entities[i].row
  BY DEF NewRow, IsMoved
<1>5. CASE mask # src
  <2>1. q \in 1..Len(table[mask]) /\ Kept(e, mask) = table[mask]
    BY <1>5 DEF Kept
  <2>2. Of(mask, q) # e.index /\ (r # n => Of(src, n) # Of(mask, q))
    BY <1>1, <1>2, <1>3, <1>5, <2>1
  <2>3. QED
    BY <1>2, <1>4, <2>1, <2>2
<1>6. CASE mask = src
  <2>1. q \in 1..(n - 1)
    BY <1>6, KeptTyped
  <2>2. Kept(e, mask)[q] = IF q = r THEN table[src][n] ELSE table[src][q]
    BY <1>6, <2>1, KeptTyped
  <2>3. CASE q = r
    <3>1. n \in 1..n /\ r # n
      BY <1>1, <2>1, <2>3
    <3>2. Of(src, n) \in Slots \ {e.index}
      BY <1>1, <1>2, <1>3, <3>1
    <3>3. QED
      BY <1>1, <1>2, <1>4, <1>6, <2>2, <2>3, <3>1, <3>2
  <2>4. CASE q # r
    <3>1. q \in 1..n /\ n \in 1..n /\ q # n
      BY <1>1, <2>1
    <3>2. Of(src, q) \in Slots \ {e.index} /\ Of(src, n) # Of(src, q)
      BY <1>1, <1>2, <1>3, <2>4, <3>1
    <3>3. QED
      BY <1>1, <1>2, <1>4, <1>6, <2>2, <2>4, <3>1, <3>2
  <2>5. QED
    BY <2>3, <2>4
<1>7. QED
  BY <1>5, <1>6
------------------------------------------------------------------------------
(* A step takes e's row out of its table and fixes the record of the row   *)
(* that moved: the other entities keep their handles and components.       *)
Vacates(e) ==
    /\ entities' \in Seq(Records) /\ Len(entities') = Len(entities)
    /\ \A i \in Slots \ {e.index} :
          entities'[i] = Record(entities[i].archetype, NewRow(e, i), entities[i].generation)
    /\ \A mask \in Masks : \A q \in 1..Len(Kept(e, mask)) :
          q \in 1..Len(table'[mask]) /\ table'[mask][q] = Kept(e, mask)[q]

LEMMA RecordFields ==
    ASSUME NEW archetype, NEW row, NEW generation
    PROVE  /\ Record(archetype, row, generation).archetype = archetype
           /\ Record(archetype, row, generation).row = row
           /\ Record(archetype, row, generation).generation = generation
BY DEF Record

(* When an entity's row is vacated, every other entity keeps its handle    *)
(* and table, and its record leads to the same row wherever swap-removal   *)
(* moved it.                                                               *)
LEMMA OthersFollow ==
    ASSUME Consistent, NEW e \in Alive, Vacates(e)
    PROVE  /\ Slots' = Slots
           /\ \A i \in Slots \ {e.index} :
                 /\ Handle(i)' = Handle(i)
                 /\ entities'[i].archetype = entities[i].archetype
                 /\ entities[i].archetype # NoArchetype =>
                       /\ entities'[i].row \in 1..Len(table'[entities[i].archetype])
                       /\ RowOf(Handle(i))' = RowOf(Handle(i))
                       /\ RowOf(Handle(i)).entity = Handle(i)
           /\ \A mask \in Masks : \A q \in 1..Len(Kept(e, mask)) :
                 \E i \in Slots \ {e.index} :
                    /\ entities'[i].archetype = mask /\ entities'[i].row = q
                    /\ table'[mask][q].entity = Handle(i)
                    /\ DOMAIN table'[mask][q].value = mask
<1>1. Slots' = Slots
  BY DEF Vacates, Slots
<1>2. \A i \in Slots \ {e.index} :
         /\ entities'[i].archetype = entities[i].archetype
         /\ entities'[i].row = NewRow(e, i)
         /\ entities'[i].generation = entities[i].generation
  BY RecordFields DEF Vacates
<1>3. ASSUME NEW i \in Slots \ {e.index}
      PROVE  /\ Handle(i)' = Handle(i)
             /\ entities[i].archetype # NoArchetype =>
                   /\ entities'[i].row \in 1..Len(table'[entities[i].archetype])
                   /\ RowOf(Handle(i))' = RowOf(Handle(i))
                   /\ RowOf(Handle(i)).entity = Handle(i)
  <2>1. Handle(i)' = Handle(i)
    BY <1>2 DEF Handle
  <2>2. ASSUME entities[i].archetype # NoArchetype
        PROVE  /\ entities'[i].row \in 1..Len(table'[entities[i].archetype])
               /\ RowOf(Handle(i))' = RowOf(Handle(i))
               /\ RowOf(Handle(i)).entity = Handle(i)
    <3>1. entities[i].archetype \in Masks
      BY <2>2, Typed DEF Consistent, Records
    <3>2. /\ entities'[i].row \in 1..Len(table'[entities[i].archetype])
          /\ table'[entities[i].archetype][entities'[i].row] = RowOf(Handle(i))
      BY <1>2, <2>2, <3>1, OthersKept DEF Vacates
    <3>3. RowOf(Handle(i)).entity = Handle(i)
      BY <2>2, Links DEF RowOf, Handle
    <3>4. QED
      BY <1>2, <3>2, <3>3 DEF RowOf, Handle
  <2>3. QED
    BY <2>1, <2>2
<1>4. ASSUME NEW mask \in Masks, NEW q \in 1..Len(Kept(e, mask))
      PROVE  \E i \in Slots \ {e.index} :
                /\ entities'[i].archetype = mask /\ entities'[i].row = q
                /\ table'[mask][q].entity = Handle(i)
                /\ DOMAIN table'[mask][q].value = mask
  <2>1. table'[mask][q] = Kept(e, mask)[q]
    BY DEF Vacates
  <2>2. QED
    BY <1>2, <2>1, RowsKept
<1>5. QED
  BY <1>1, <1>2, <1>3, <1>4
------------------------------------------------------------------------------
(* What each operation does to the living, step by step.                   *)
LEMMA DestroyVacates ==
    ASSUME Consistent, NEW e \in Alive, DestroyEntity(e)
    PROVE  /\ Vacates(e) /\ TypeOK'
           /\ entities'[e.index] = Record(NoArchetype, 0, e.generation + 1)
           /\ \A mask \in Masks : table'[mask] = Kept(e, mask)
<1>1. /\ e.index \in Slots /\ e.generation = entities[e.index].generation /\ Source(e) \in Masks
      /\ e.generation \in 0..MaxGeneration /\ e.generation < MaxGeneration
  BY AliveSlots DEF Consistent, Source, Handles, IsAlive, DestroyEntity
<1>2. entities' = [i \in Slots |->
                      IF i = e.index THEN Record(NoArchetype, 0, e.generation + 1)
                      ELSE IF IsMoved(table[Source(e)], At(e), i)
                           THEN [entities[i] EXCEPT !.row = At(e)] ELSE entities[i]]
  BY DEF DestroyEntity, Bumped, Source, At
<1>3. At(e) \in Nat /\ \A i \in Slots : entities[i] \in Records /\ NewRow(e, i) \in Nat
  BY KeptTyped, Typed DEF Consistent, NewRow, Records
<1>4. ASSUME NEW i \in Slots \ {e.index}
      PROVE  /\ entities'[i] = Record(entities[i].archetype, NewRow(e, i), entities[i].generation)
             /\ entities'[i] \in Records
  <2>1. entities'[i] = Record(entities[i].archetype, NewRow(e, i), entities[i].generation)
    BY <1>2, <1>3 DEF NewRow, Record, Records
  <2>2. QED
    BY <1>3, <2>1 DEF Record, Records
<1>5. entities'[e.index] = Record(NoArchetype, 0, e.generation + 1) /\ entities'[e.index] \in Records
  BY <1>1, <1>2, BoundsAssumption DEF Record, Records
<1>6. entities' \in Seq(Records) /\ Len(entities') = Len(entities)
  <2>1. entities' \in [1..Len(entities) -> Records] /\ Len(entities) \in Nat
    BY <1>2, <1>4, <1>5, Typed DEF Consistent, Slots
  <2>2. QED
    BY <2>1, FunctionIsSeq
<1>7. \A mask \in Masks : table'[mask] = Kept(e, mask)
  BY <1>1, Typed DEF DestroyEntity, Kept, Source, At, Consistent
<1>8. Vacates(e)
  BY <1>4, <1>6, <1>7 DEF Vacates
<1>9. TypeOK'
  <2>1. table' \in [Masks -> Seq(Rows)]
    <3>1. DOMAIN table' = Masks /\ table' = [m \in Masks |-> table'[m]]
      BY Typed DEF DestroyEntity, Consistent, TypeOK
    <3>2. QED
      BY <1>7, <3>1, KeptTyped
  <2>2. freeList' \in Seq(Slots)
    BY <1>1 DEF DestroyEntity, Freed, Consistent, TypeOK
  <2>3. QED
    BY <1>6, <2>1, <2>2, Typed DEF TypeOK, Records, Rows, Slots, Consistent
<1>10. QED
  BY <1>5, <1>7, <1>8, <1>9

(* What destroyEntity() does: its handle dies, all others keep their rows. *)
LEMMA DestroyEffect ==
    ASSUME Consistent, NEW e \in Alive, DestroyEntity(e)
    PROVE  /\ Consistent'
           /\ Alive' = Alive \ {e}
           /\ \A k \in Alive \ {e} : RowOf(k)' = RowOf(k)
           /\ entities'[e.index].generation = e.generation + 1
<1>1. /\ Vacates(e) /\ TypeOK' /\ Slots' = Slots
      /\ \A mask \in Masks : table'[mask] = Kept(e, mask)
  BY DestroyVacates, OthersFollow
<1>2. /\ entities'[e.index].archetype = NoArchetype /\ entities'[e.index].row = 0
      /\ entities'[e.index].generation = e.generation + 1
  BY DestroyVacates, RecordFields
<1>3. /\ e.index \in Slots /\ e = Handle(e.index) /\ entities[e.index].archetype \in Masks
      /\ entities[e.index].archetype # NoArchetype
  BY AliveSlots, ValuesAssumption DEF Consistent, Masks
<1>4. \A i \in Slots \ {e.index} :
         /\ Handle(i)' = Handle(i) /\ entities'[i].archetype = entities[i].archetype
         /\ entities[i].archetype # NoArchetype =>
               /\ entities'[i].row \in 1..Len(table'[entities[i].archetype])
               /\ RowOf(Handle(i))' = RowOf(Handle(i)) /\ RowOf(Handle(i)).entity = Handle(i)
  BY <1>1, OthersFollow
<1>5. RecordsMatchRows'
  <2>1. ASSUME NEW i \in Slots, entities'[i].archetype # NoArchetype
        PROVE  /\ entities'[i].row \in DOMAIN table'[entities'[i].archetype]
               /\ RowOf(Handle(i))'.entity = Handle(i)'
    <3>1. i # e.index /\ entities'[i].archetype \in Masks
      BY <1>2, <1>4, <2>1, Typed DEF Consistent, Records
    <3>2. DOMAIN table'[entities'[i].archetype] = 1..Len(table'[entities'[i].archetype])
      BY <1>1, <3>1, KeptTyped
    <3>3. QED
      BY <1>4, <2>1, <3>1, <3>2
  <2>2. ASSUME NEW mask \in Masks, NEW q \in DOMAIN table'[mask]
        PROVE  /\ IsAlive(table[mask][q].entity)'
               /\ entities'[table'[mask][q].entity.index].archetype = mask
               /\ entities'[table'[mask][q].entity.index].row = q
               /\ DOMAIN table'[mask][q].value = mask
    <3>1. q \in 1..Len(Kept(e, mask))
      BY <1>1, KeptTyped
    <3>2. PICK i \in Slots \ {e.index} :
             /\ entities'[i].archetype = mask /\ entities'[i].row = q
             /\ table'[mask][q].entity = Handle(i)
             /\ DOMAIN table'[mask][q].value = mask
      BY <1>1, <3>1, OthersFollow
    <3>3. Handle(i).index = i /\ Handle(i).generation = entities'[i].generation
      BY <1>4 DEF Handle
    <3>4. mask # NoArchetype
      BY ValuesAssumption DEF Masks
    <3>5. QED
      BY <1>1, <3>2, <3>3, <3>4 DEF IsAlive
  <2>3. QED
    BY <1>1, <2>1, <2>2 DEF RecordsMatchRows, Masks
<1>6. FreeListExact'
  <2>1. freeList' = Append(freeList, e.index) /\ freeList \in Seq(Slots)
    BY DEF DestroyEntity, Freed, Consistent, TypeOK
  <2>2. \A i \in Slots : entities[i].archetype = NoArchetype <=>
                            \E k \in 1..Len(freeList) : freeList[k] = i
    BY <2>1 DEF Consistent, FreeListExact
  <2>3. \A j, k \in 1..Len(freeList) : freeList[j] = freeList[k] => j = k
    BY <2>1 DEF Consistent, FreeListExact
  <2>4. /\ DOMAIN freeList' = 1..(Len(freeList) + 1) /\ Len(freeList) \in Nat
        /\ \A k \in 1..Len(freeList) : freeList'[k] = freeList[k]
        /\ freeList'[Len(freeList) + 1] = e.index
    BY <1>3, <2>1
  <2>5. \A k \in 1..Len(freeList) : freeList[k] # e.index
    BY <1>3, <2>2
  <2>6. \A i \in Slots : entities'[i].archetype = NoArchetype <=>
                            \E k \in DOMAIN freeList' : freeList'[k] = i
    BY <1>2, <1>3, <1>4, <2>2, <2>4
  <2>7. \A j, k \in DOMAIN freeList' : freeList'[j] = freeList'[k] => j = k
    BY <2>3, <2>4, <2>5
  <2>8. QED
    BY <1>1, <2>6, <2>7 DEF FreeListExact
<1>7. Alive' = Alive \ {e}
  <2>1. \A k : k \in Alive' <=>
                  \E i \in Slots : entities'[i].archetype # NoArchetype /\ k = Handle(i)'
    BY <1>1 DEF Alive
  <2>2. \A k : k \in Alive <=>
                  \E i \in Slots : entities[i].archetype # NoArchetype /\ k = Handle(i)
    BY DEF Alive
  <2>3. \A i \in Slots \ {e.index} : Handle(i) # e
    BY <1>3 DEF Handle
  <2>4. ASSUME NEW k PROVE k \in Alive' <=> k \in Alive /\ k # e
    BY <1>2, <1>3, <1>4, <2>1, <2>2, <2>3
  <2>5. QED
    BY <2>4
<1>8. \A k \in Alive \ {e} : RowOf(k)' = RowOf(k)
  <2>1. ASSUME NEW k \in Alive \ {e} PROVE RowOf(k)' = RowOf(k)
    <3>1. PICK i \in Slots : k = Handle(i) /\ entities[i].archetype # NoArchetype
      BY DEF Alive
    <3>2. i # e.index
      BY <1>3, <3>1
    <3>3. QED
      BY <1>4, <3>1, <3>2 DEF RowOf, Handle
  <2>2. QED
    BY <2>1
<1>9. QED
  BY <1>1, <1>2, <1>5, <1>6, <1>7, <1>8 DEF Consistent

(* moveEntity() vacates the row in the old table and appends one to the    *)
(* new.                                                                    *)
LEMMA MoveVacates ==
    ASSUME Consistent, NEW e \in Alive, NEW dst \in Masks \ {Source(e)},
           NEW value \in [dst -> Values], MoveEntity(e, dst, value)
    PROVE  /\ Vacates(e) /\ TypeOK'
           /\ entities'[e.index] = Record(dst, Len(table[dst]) + 1, e.generation)
           /\ \A mask \in Masks \ {dst} : table'[mask] = Kept(e, mask)
           /\ Kept(e, dst) = table[dst] /\ Len(table[dst]) \in Nat
           /\ Len(table'[dst]) = Len(table[dst]) + 1
           /\ table'[dst][Len(table[dst]) + 1] = [entity |-> e, value |-> value]
<1>1. /\ e.index \in Slots /\ e.generation = entities[e.index].generation /\ Source(e) \in Masks
      /\ e.generation \in 0..MaxGeneration /\ e \in Handles
  BY AliveSlots DEF Consistent, Source, Handles, IsAlive
<1>2. entities' = [i \in Slots |->
                      IF i = e.index THEN Record(dst, Len(table[dst]) + 1, e.generation)
                      ELSE IF IsMoved(table[Source(e)], At(e), i)
                           THEN [entities[i] EXCEPT !.row = At(e)] ELSE entities[i]]
  BY DEF MoveEntity, Source, At
<1>3. /\ At(e) \in Nat /\ \A i \in Slots : entities[i] \in Records /\ NewRow(e, i) \in Nat
      /\ Len(table[dst]) \in Nat /\ table[dst] \in Seq(Rows)
  BY KeptTyped, Typed DEF Consistent, NewRow, Records
<1>4. ASSUME NEW i \in Slots \ {e.index}
      PROVE  /\ entities'[i] = Record(entities[i].archetype, NewRow(e, i), entities[i].generation)
             /\ entities'[i] \in Records
  <2>1. entities'[i] = Record(entities[i].archetype, NewRow(e, i), entities[i].generation)
    BY <1>2, <1>3 DEF NewRow, Record, Records
  <2>2. QED
    BY <1>3, <2>1 DEF Record, Records
<1>5. /\ entities'[e.index] = Record(dst, Len(table[dst]) + 1, e.generation)
      /\ entities'[e.index] \in Records
  BY <1>1, <1>2, <1>3 DEF Record, Records
<1>6. entities' \in Seq(Records) /\ Len(entities') = Len(entities)
  <2>1. entities' \in [1..Len(entities) -> Records] /\ Len(entities) \in Nat
    BY <1>2, <1>4, <1>5, Typed DEF Consistent, Slots
  <2>2. QED
    BY <2>1, FunctionIsSeq
<1>7. /\ \A mask \in Masks \ {dst} : table'[mask] = Kept(e, mask)
      /\ table'[dst] = Append(table[dst], [entity |-> e, value |-> value])
      /\ Kept(e, dst) = table[dst]
  <2>1. table' = [table EXCEPT ![dst] = Append(table[dst], [entity |-> e, value |-> value]),
                               ![Source(e)] = SwapRemove(table[Source(e)], At(e))]
    BY Typed DEF MoveEntity, Source, At, Consistent
  <2>2. QED
    BY <1>1, <2>1, Typed DEF Kept, Consistent
<1>8. [entity |-> e, value |-> value] \in Rows
  BY <1>1 DEF Rows
<1>9. /\ table'[dst] \in Seq(Rows) /\ Len(table'[dst]) = Len(table[dst]) + 1
      /\ table'[dst][Len(table[dst]) + 1] = [entity |-> e, value |-> value]
      /\ \A q \in 1..Len(table[dst]) : q \in 1..Len(table'[dst]) /\ table'[dst][q] = table[dst][q]
  BY <1>3, <1>7, <1>8, AppendProperties
<1>10. Vacates(e)
  <2>1. ASSUME NEW mask \in Masks, NEW q \in 1..Len(Kept(e, mask))
        PROVE  q \in 1..Len(table'[mask]) /\ table'[mask][q] = Kept(e, mask)[q]
    <3>1. CASE mask = dst
      <4>1. Kept(e, mask) = table[dst]
        BY <1>7, <3>1
      <4>2. QED
        BY <1>9, <3>1, <4>1
    <3>2. CASE mask # dst
      BY <1>7, <3>2
    <3>3. QED
      BY <3>1, <3>2
  <2>2. QED
    BY <1>4, <1>6, <2>1 DEF Vacates
<1>11. TypeOK'
  <2>1. table' \in [Masks -> Seq(Rows)]
    <3>1. DOMAIN table' = Masks /\ table' = [m \in Masks |-> table'[m]]
      BY Typed DEF MoveEntity, Consistent, TypeOK
    <3>2. ASSUME NEW mask \in Masks PROVE table'[mask] \in Seq(Rows)
      <4>1. CASE mask = dst
        BY <1>9, <4>1
      <4>2. CASE mask # dst
        BY <1>7, <4>2, KeptTyped
      <4>3. QED
        BY <4>1, <4>2
    <3>3. QED
      BY <3>1, <3>2
  <2>2. freeList' \in Seq(Slots)
    BY DEF MoveEntity, Consistent, TypeOK
  <2>3. QED
    BY <1>6, <2>1, <2>2, Typed DEF TypeOK, Records, Rows, Slots, Consistent
<1>12. QED
  BY <1>3, <1>5, <1>7, <1>9, <1>10, <1>11

(* moveEntity() keeps the World consistent and every other entity's row.   *)
LEMMA MoveEffect ==
    ASSUME Consistent, NEW e \in Alive, NEW dst \in Masks \ {Source(e)},
           NEW value \in [dst -> Values], MoveEntity(e, dst, value)
    PROVE  /\ Consistent'
           /\ Alive' = Alive /\ Slots' = Slots
           /\ \A i \in Slots : entities'[i].generation = entities[i].generation
           /\ \A i \in Slots : entities'[i].archetype = NoArchetype <=>
                               entities[i].archetype = NoArchetype
           /\ RowOf(e)' = [entity |-> e, value |-> value]
           /\ \A k \in Alive \ {e} : RowOf(k)' = RowOf(k)
<1>0. /\ Vacates(e) /\ TypeOK'
      /\ entities'[e.index] = Record(dst, Len(table[dst]) + 1, e.generation)
      /\ \A mask \in Masks \ {dst} : table'[mask] = Kept(e, mask)
      /\ Kept(e, dst) = table[dst] /\ Len(table[dst]) \in Nat
      /\ Len(table'[dst]) = Len(table[dst]) + 1
      /\ table'[dst][Len(table[dst]) + 1] = [entity |-> e, value |-> value]
  BY MoveVacates
<1>1. Vacates(e) /\ TypeOK' /\ Slots' = Slots
  BY <1>0, OthersFollow
<1>2. /\ entities'[e.index].archetype = dst /\ entities'[e.index].row = Len(table[dst]) + 1
      /\ entities'[e.index].generation = e.generation
  BY <1>0, RecordFields
<1>3. /\ e.index \in Slots /\ e = Handle(e.index) /\ entities[e.index].archetype \in Masks
      /\ e \in Handles /\ \A mask \in Masks : mask # NoArchetype
  BY AliveSlots, ValuesAssumption DEF Consistent, Masks
<1>4. \A i \in Slots \ {e.index} :
         /\ Handle(i)' = Handle(i) /\ entities'[i].archetype = entities[i].archetype
         /\ entities[i].archetype # NoArchetype =>
               /\ entities'[i].row \in 1..Len(table'[entities[i].archetype])
               /\ RowOf(Handle(i))' = RowOf(Handle(i)) /\ RowOf(Handle(i)).entity = Handle(i)
  BY <1>1, OthersFollow
<1>5. /\ Len(table[dst]) \in Nat /\ Len(table'[dst]) = Len(table[dst]) + 1
      /\ table'[dst][Len(table[dst]) + 1] = [entity |-> e, value |-> value]
  BY <1>0
<1>6. \A mask \in Masks : DOMAIN table'[mask] = 1..Len(table'[mask])
  <2>1. \A mask \in Masks : table'[mask] \in Seq(Rows)
    BY <1>1 DEF TypeOK, Rows
  <2>2. QED
    BY <2>1
<1>7. Handle(e.index)' = e
  BY <1>2, <1>3 DEF Handle, Handles
<1>8. RowOf(e)' = [entity |-> e, value |-> value]
  BY <1>2, <1>5 DEF RowOf
<1>9. RecordsMatchRows'
  <2>1. ASSUME NEW i \in Slots, entities'[i].archetype # NoArchetype
        PROVE  /\ entities'[i].row \in DOMAIN table'[entities'[i].archetype]
               /\ RowOf(Handle(i))'.entity = Handle(i)'
    <3>1. CASE i = e.index
      BY <1>2, <1>5, <1>6, <1>7, <1>8, <3>1 DEF RowOf
    <3>2. CASE i # e.index
      <4>1. entities'[i].archetype \in Masks
        BY <1>4, <2>1, <3>2, Typed DEF Consistent, Records
      <4>2. QED
        BY <1>4, <1>6, <2>1, <3>2, <4>1
    <3>3. QED
      BY <3>1, <3>2
  <2>2. ASSUME NEW mask \in Masks, NEW q \in DOMAIN table'[mask]
        PROVE  /\ IsAlive(table[mask][q].entity)'
               /\ entities'[table'[mask][q].entity.index].archetype = mask
               /\ entities'[table'[mask][q].entity.index].row = q
               /\ DOMAIN table'[mask][q].value = mask
    <3>1. CASE q \in 1..Len(Kept(e, mask))
      <4>1. PICK i \in Slots \ {e.index} :
               /\ entities'[i].archetype = mask /\ entities'[i].row = q
               /\ table'[mask][q].entity = Handle(i)
               /\ DOMAIN table'[mask][q].value = mask
        BY <1>1, <3>1, OthersFollow
      <4>2. Handle(i).index = i /\ Handle(i).generation = entities'[i].generation
        BY <1>4 DEF Handle
      <4>3. QED
        BY <1>1, <1>3, <4>1, <4>2 DEF IsAlive
    <3>2. CASE q \notin 1..Len(Kept(e, mask))
      <4>1. mask = dst /\ q = Len(table[dst]) + 1
        BY <1>0, <1>6, <3>2
      <4>2. /\ table'[mask][q].entity = e /\ DOMAIN table'[mask][q].value = mask
        BY <1>5, <4>1
      <4>3. QED
        BY <1>1, <1>2, <1>3, <4>1, <4>2 DEF IsAlive
    <3>3. QED
      BY <3>1, <3>2
  <2>3. QED
    BY <1>1, <2>1, <2>2 DEF RecordsMatchRows, Masks
<1>10. /\ \A i \in Slots : entities'[i].archetype = NoArchetype <=>
                             entities[i].archetype = NoArchetype
       /\ \A i \in Slots : Handle(i)' = Handle(i)
       /\ \A i \in Slots : entities'[i].generation = entities[i].generation
  <2>1. \A i \in Slots : Handle(i)' = Handle(i)
    BY <1>3, <1>4, <1>7
  <2>2. \A i \in Slots : entities'[i].generation = entities[i].generation
    BY <2>1 DEF Handle
  <2>3. QED
    BY <1>2, <1>3, <1>4, <2>1, <2>2
<1>11. FreeListExact'
  <2>1. freeList' = freeList
    BY DEF MoveEntity
  <2>2. QED
    BY <1>1, <1>10, <2>1 DEF Consistent, FreeListExact
<1>12. Alive' = Alive
  <2>1. \A k : k \in Alive' <=>
                  \E i \in Slots : entities'[i].archetype # NoArchetype /\ k = Handle(i)'
    BY <1>1 DEF Alive
  <2>2. \A k : k \in Alive <=>
                  \E i \in Slots : entities[i].archetype # NoArchetype /\ k = Handle(i)
    BY DEF Alive
  <2>3. QED
    BY <1>10, <2>1, <2>2
<1>13. \A k \in Alive \ {e} : RowOf(k)' = RowOf(k)
  <2>1. ASSUME NEW k \in Alive \ {e} PROVE RowOf(k)' = RowOf(k)
    <3>1. PICK i \in Slots : k = Handle(i) /\ entities[i].archetype # NoArchetype
      BY DEF Alive
    <3>2. i # e.index
      BY <1>3, <3>1
    <3>3. QED
      BY <1>4, <3>1, <3>2 DEF RowOf, Handle
  <2>2. QED
    BY <2>1
<1>14. QED
  BY <1>1, <1>8, <1>9, <1>10, <1>11, <1>12, <1>13 DEF Consistent

(* The slot createEntity() takes, from the free list or a new one.         *)
LEMMA CreateShape ==
    ASSUME Consistent, CreateEntity
    PROVE  \E h \in Handles :
              /\ Slots' = Slots \union {h.index}
              /\ h.index \in Slots => /\ entities[h.index].archetype = NoArchetype
                                      /\ entities[h.index].generation = h.generation
              /\ h.index \notin Slots => h.generation = 0
              /\ entities' \in Seq(Records) /\ Len(entities') <= MaxEntities
              /\ entities'[h.index] = Record({}, Len(table[{}]) + 1, h.generation)
              /\ \A i \in Slots \ {h.index} : entities'[i] = entities[i]
              /\ table' = [table EXCEPT ![{}] =
                              Append(@, [entity |-> h, value |-> [c \in {} |-> Default]])]
              /\ freeList' \in Seq(Slots)' /\ FreeListExact'
<1> DEFINE row == Len(table[{}]) + 1
<1>1. {} \in Masks /\ Len(table[{}]) \in Nat /\ row \in Nat
  BY Typed DEF Consistent, Masks
<1>2. freeList \in Seq(Slots) /\ DOMAIN freeList = 1..Len(freeList) /\ Len(freeList) \in Nat
  BY DEF Consistent, TypeOK
<1>3. /\ entities \in Seq(Records) /\ Len(entities) \in 0..MaxEntities
      /\ DOMAIN entities = 1..Len(entities) /\ \A i \in Slots : entities[i] \in Records
  BY Typed DEF Consistent, Slots
<1>4. ASSUME freeList # <<>>,
             NEW i, NEW g, i = freeList[Len(freeList)], g = entities[i].generation,
             entities' = [entities EXCEPT ![i] = Record({}, row, g)],
             table' = [table EXCEPT ![{}] = Append(@, [entity |-> [index |-> i, generation |-> g],
                                                       value |-> [c \in {} |-> Default]])],
             freeList' = Popped(freeList)
      PROVE  \E h \in Handles :
                /\ Slots' = Slots \union {h.index}
                /\ h.index \in Slots => /\ entities[h.index].archetype = NoArchetype
                                        /\ entities[h.index].generation = h.generation
                /\ h.index \notin Slots => h.generation = 0
                /\ entities' \in Seq(Records) /\ Len(entities') <= MaxEntities
                /\ entities'[h.index] = Record({}, row, h.generation)
                /\ \A k \in Slots \ {h.index} : entities'[k] = entities[k]
                /\ table' = [table EXCEPT ![{}] =
                                Append(@, [entity |-> h, value |-> [c \in {} |-> Default]])]
                /\ freeList' \in Seq(Slots)' /\ FreeListExact'
  <2> DEFINE n == Len(freeList)
             h == [index |-> i, generation |-> g]
  <2>1. n \in 1..n /\ n - 1 \in Nat
    BY <1>2, <1>4
  <2>8. /\ \A k \in Slots : entities[k].archetype = NoArchetype <=>
                               \E j \in 1..n : freeList[j] = k
        /\ \A j, k \in 1..n : freeList[j] = freeList[k] => j = k
    BY <1>2 DEF Consistent, FreeListExact
  <2>2. i \in Slots /\ entities[i].archetype = NoArchetype
    <3>1. i \in Slots
      BY <1>2, <1>4, <2>1
    <3>2. QED
      BY <1>4, <2>1, <2>8, <3>1
  <2>3. g \in 0..MaxGeneration /\ [index |-> i, generation |-> g] \in Handles
    <3>1. g \in 0..MaxGeneration
      BY <1>3, <1>4, <2>2 DEF Records
    <3>2. i \in 1..MaxEntities
      BY <1>3, <2>2, BoundsAssumption DEF Slots
    <3>3. QED
      BY <3>1, <3>2 DEF Handles
  <2>4. Record({}, row, g) \in Records
    BY <1>1, <2>3 DEF Record, Records
  <2>5. /\ entities' \in Seq(Records) /\ Len(entities') = Len(entities)
        /\ entities'[i] = Record({}, row, g)
        /\ \A k \in Slots \ {i} : entities'[k] = entities[k]
    BY <1>3, <1>4, <2>2, <2>4 DEF Slots
  <2>6. Slots' = Slots
    BY <2>5 DEF Slots
  <2>7. /\ freeList' \in Seq(Slots) /\ DOMAIN freeList' = 1..(n - 1)
        /\ \A k \in 1..(n - 1) : freeList'[k] = freeList[k]
    BY <1>2, <1>4, <2>1 DEF Popped
  <2>9. entities'[i].archetype # NoArchetype
    BY <1>1, <2>5, RecordFields, ValuesAssumption DEF Masks
  <2>10. \A k \in Slots : entities'[k].archetype = NoArchetype <=>
                             \E j \in 1..(n - 1) : freeList'[j] = k
    <3>1. \A j \in 1..(n - 1) : freeList[j] # i
      BY <1>4, <2>1, <2>8
    <3>2. \A k \in Slots \ {i} : (\E j \in 1..n : freeList[j] = k) <=>
                                 (\E j \in 1..(n - 1) : freeList[j] = k)
      BY <1>4, <2>1
    <3>3. \A k \in Slots : (\E j \in 1..(n - 1) : freeList'[j] = k) <=>
                           (\E j \in 1..(n - 1) : freeList[j] = k)
      BY <2>7
    <3>4. ASSUME NEW k \in Slots
          PROVE  entities'[k].archetype = NoArchetype <=> \E j \in 1..(n - 1) : freeList'[j] = k
      <4>1. CASE k = i
        BY <2>9, <3>1, <3>3, <4>1
      <4>2. CASE k # i
        BY <2>5, <2>8, <3>2, <3>3, <4>2
      <4>3. QED
        BY <4>1, <4>2
    <3>5. QED
      BY <3>4
  <2>11. \A j, k \in 1..(n - 1) : freeList'[j] = freeList'[k] => j = k
    BY <2>1, <2>7, <2>8
  <2>12. FreeListExact'
    BY <2>6, <2>7, <2>10, <2>11 DEF FreeListExact
  <2>13. /\ h.index = i /\ h.generation = g /\ Slots' = Slots \union {i}
         /\ Len(entities') <= MaxEntities /\ freeList' \in Seq(Slots')
    BY <1>3, <2>2, <2>5, <2>6, <2>7
  <2>14. table' = [table EXCEPT ![{}] = Append(@, [entity |-> h, value |-> [c \in {} |-> Default]])]
    BY <1>4
  <2>15. QED
    BY <1>4, <2>2, <2>3, <2>5, <2>12, <2>13, <2>14
<1>5. ASSUME freeList = <<>>, Len(entities) < MaxEntities,
             entities' = Append(entities, Record({}, row, 0)),
             table' = [table EXCEPT ![{}] =
                          Append(@, [entity |-> [index |-> Len(entities) + 1, generation |-> 0],
                                     value |-> [c \in {} |-> Default]])],
             freeList' = freeList
      PROVE  \E h \in Handles :
                /\ Slots' = Slots \union {h.index}
                /\ h.index \in Slots => /\ entities[h.index].archetype = NoArchetype
                                        /\ entities[h.index].generation = h.generation
                /\ h.index \notin Slots => h.generation = 0
                /\ entities' \in Seq(Records) /\ Len(entities') <= MaxEntities
                /\ entities'[h.index] = Record({}, row, h.generation)
                /\ \A k \in Slots \ {h.index} : entities'[k] = entities[k]
                /\ table' = [table EXCEPT ![{}] =
                                Append(@, [entity |-> h, value |-> [c \in {} |-> Default]])]
                /\ freeList' \in Seq(Slots)' /\ FreeListExact'
  <2> DEFINE i == Len(entities) + 1
             h == [index |-> i, generation |-> 0]
  <2>1. i \in 1..MaxEntities /\ i \notin Slots /\ 0 \in 0..MaxGeneration
    BY <1>3, <1>5, BoundsAssumption DEF Slots
  <2>2. [index |-> i, generation |-> 0] \in Handles
    BY <2>1 DEF Handles
  <2>3. Record({}, row, 0) \in Records
    BY <1>1, <2>1 DEF Record, Records
  <2>4. /\ entities' \in Seq(Records) /\ Len(entities') = i
        /\ entities'[i] = Record({}, row, 0)
        /\ \A k \in Slots : entities'[k] = entities[k]
    BY <1>3, <1>5, <2>1, <2>3, AppendProperties DEF Slots
  <2>5. Slots' = Slots \union {i}
    BY <1>3, <2>4 DEF Slots
  <2>6. freeList' \in Seq(Slots')
    BY <1>5
  <2>7. entities'[i].archetype # NoArchetype
    BY <1>1, <2>4, RecordFields, ValuesAssumption DEF Masks
  <2>8. FreeListExact'
    <3>1. DOMAIN freeList = {} /\ DOMAIN freeList' = {}
      BY <1>5
    <3>2. \A k \in Slots : entities[k].archetype # NoArchetype
      BY <3>1 DEF Consistent, FreeListExact
    <3>3. \A k \in Slots' : entities'[k].archetype # NoArchetype
      BY <2>4, <2>5, <2>7, <3>2
    <3>4. QED
      BY <3>1, <3>3 DEF FreeListExact
  <2>9. h.index = i /\ h.generation = 0 /\ Slots' = Slots \union {i} /\ Len(entities') <= MaxEntities
    BY <2>1, <2>4, <2>5
  <2>10. table' = [table EXCEPT ![{}] = Append(@, [entity |-> h, value |-> [c \in {} |-> Default]])]
    BY <1>5
  <2>11. QED
    BY <2>1, <2>2, <2>4, <2>6, <2>8, <2>9, <2>10
<1>6. QED
  BY <1>4, <1>5 DEF CreateEntity

(* The handles that have been handed out, by their slots.                  *)
LEMMA IssuedBySlot ==
    \A k \in Handles : k \in Issued <=>
        /\ k.index \in Slots
        /\ \/ k.generation < entities[k.index].generation
           \/ /\ entities[k.index].archetype # NoArchetype
              /\ entities[k.index].generation = k.generation
BY DEF Issued, IsAlive

(* createEntity() keeps the World consistent; its handle is new and its    *)
(* row empty.                                                              *)
LEMMA CreateEffect ==
    ASSUME Consistent, CreateEntity
    PROVE  /\ Consistent' /\ Slots \subseteq Slots'
           /\ \A i \in Slots : entities'[i].generation = entities[i].generation
           /\ \A i \in Slots : entities[i].archetype # NoArchetype => entities'[i] = entities[i]
           /\ \E h \in Handles \ Issued :
                 /\ Alive' = Alive \union {h}
                 /\ Issued' = Issued \union {h}
                 /\ RowOf(h)' = [entity |-> h, value |-> [c \in {} |-> Default]]
                 /\ entities'[h.index].archetype = {}
                 /\ entities'[h.index].row = Len(table[{}]) + 1
                 /\ \A k \in Alive : RowOf(k)' = RowOf(k)
<1> DEFINE n    == Len(table[{}])
           last == n + 1
<1>1. PICK h \in Handles :
         /\ Slots' = Slots \union {h.index}
         /\ h.index \in Slots => /\ entities[h.index].archetype = NoArchetype
                                 /\ entities[h.index].generation = h.generation
         /\ h.index \notin Slots => h.generation = 0
         /\ entities' \in Seq(Records) /\ Len(entities') <= MaxEntities
         /\ entities'[h.index] = Record({}, last, h.generation)
         /\ \A i \in Slots \ {h.index} : entities'[i] = entities[i]
         /\ table' = [table EXCEPT ![{}] =
                         Append(@, [entity |-> h, value |-> [c \in {} |-> Default]])]
         /\ freeList' \in Seq(Slots)' /\ FreeListExact'
  BY CreateShape
<1> DEFINE new == [entity |-> h, value |-> [c \in {} |-> Default]]
<1>2. {} \in Masks /\ n \in Nat /\ table[{}] \in Seq(Rows) /\ new \in Rows /\ DOMAIN table = Masks
  <2>1. [c \in {} |-> Default] \in [{} -> Values]
    OBVIOUS
  <2>2. {} \in Masks
    BY DEF Masks
  <2>3. QED
    BY <2>1, <2>2, Typed DEF Consistent, Rows
<1>3. /\ \A mask \in Masks \ {{}} : table'[mask] = table[mask]
      /\ table'[{}] \in Seq(Rows) /\ DOMAIN table'[{}] = 1..last /\ table'[{}][last] = new
      /\ \A q \in 1..n : table'[{}][q] = table[{}][q]
  <2>1. table'[{}] = Append(table[{}], new) /\ \A mask \in Masks \ {{}} : table'[mask] = table[mask]
    BY <1>1, <1>2
  <2>2. QED
    BY <1>2, <2>1, AppendProperties
<1>4. /\ entities'[h.index].archetype = {} /\ entities'[h.index].row = last
      /\ entities'[h.index].generation = h.generation
  BY <1>1, RecordFields
<1>5. \A mask \in Masks : mask # NoArchetype
  BY ValuesAssumption DEF Masks
<1>6. Handle(h.index)' = h /\ h.index \in Slots'
  BY <1>1, <1>4 DEF Handle, Handles
<1>7. ASSUME NEW i \in Slots, entities[i].archetype # NoArchetype
      PROVE  /\ i # h.index /\ entities'[i] = entities[i] /\ Handle(i)' = Handle(i)
             /\ entities[i].archetype \in Masks
             /\ entities[i].row \in DOMAIN table'[entities[i].archetype]
             /\ RowOf(Handle(i))' = RowOf(Handle(i)) /\ RowOf(Handle(i)).entity = Handle(i)
  <2>1. i # h.index /\ entities'[i] = entities[i]
    BY <1>1, <1>7
  <2>2. Handle(i)' = Handle(i) /\ Handle(i).index = i
    BY <2>1 DEF Handle
  <2>3. entities[i].archetype \in Masks
    BY <1>7, Typed DEF Consistent, Records
  <2>4. /\ entities[i].row \in 1..Len(table[entities[i].archetype])
        /\ table[entities[i].archetype][entities[i].row].entity = Handle(i)
    BY <1>7, Links
  <2>5. ASSUME NEW mask \in Masks, NEW q \in 1..Len(table[mask])
        PROVE  q \in DOMAIN table'[mask] /\ table'[mask][q] = table[mask][q]
    <3>1. CASE mask = {}
      <4>1. q \in 1..n
        BY <3>1
      <4>2. QED
        BY <1>2, <1>3, <3>1, <4>1
    <3>2. CASE mask # {}
      <4>1. table'[mask] = table[mask] /\ DOMAIN table[mask] = 1..Len(table[mask])
        BY <1>3, <3>2, Typed DEF Consistent
      <4>2. QED
        BY <4>1
    <3>3. QED
      BY <3>1, <3>2
  <2>6. QED
    BY <2>1, <2>2, <2>3, <2>4, <2>5 DEF RowOf
<1>8. TypeOK'
  <2>1. table' \in [Masks -> Seq(Rows)]
    <3>1. \A mask \in Masks : table'[mask] \in Seq(Rows)
      BY <1>3, Typed DEF Consistent
    <3>2. DOMAIN table' = Masks /\ table' = [m \in Masks |-> table'[m]]
      BY <1>1, <1>2
    <3>3. QED
      BY <3>1, <3>2
  <2>2. QED
    BY <1>1, <2>1 DEF TypeOK, Records, Rows
<1>9. RecordsMatchRows'
  <2>1. ASSUME NEW i \in Slots', entities'[i].archetype # NoArchetype
        PROVE  /\ entities'[i].row \in DOMAIN table'[entities'[i].archetype]
               /\ RowOf(Handle(i))'.entity = Handle(i)'
    <3>1. CASE i = h.index
      <4>1. last \in 1..last
        BY <1>2
      <4>2. RowOf(Handle(i))' = table'[entities'[h.index].archetype][entities'[h.index].row]
        BY <1>6, <3>1 DEF RowOf
      <4>3. RowOf(Handle(i))' = table'[{}][last]
        BY <1>4, <4>2
      <4>4. RowOf(Handle(i))'.entity = h
        BY <1>3, <4>3
      <4>5. entities'[i].row \in DOMAIN table'[entities'[i].archetype]
        BY <1>3, <1>4, <3>1, <4>1
      <4>6. QED
        BY <1>6, <3>1, <4>4, <4>5
    <3>2. CASE i # h.index
      BY <1>1, <1>7, <2>1, <3>2
    <3>3. QED
      BY <3>1, <3>2
  <2>2. ASSUME NEW mask \in Masks, NEW q \in DOMAIN table'[mask]
        PROVE  /\ IsAlive(table[mask][q].entity)'
               /\ entities'[table'[mask][q].entity.index].archetype = mask
               /\ entities'[table'[mask][q].entity.index].row = q
               /\ DOMAIN table'[mask][q].value = mask
    <3>1. CASE mask = {} /\ q = last
      <4>1. table'[mask][q] = new /\ new.entity = h /\ DOMAIN new.value = {}
        BY <1>3, <3>1
      <4>2. IsAlive(h)'
        BY <1>2, <1>4, <1>5, <1>6 DEF IsAlive
      <4>3. table'[mask][q].entity = h /\ DOMAIN table'[mask][q].value = {}
        BY <4>1
      <4>4. IsAlive(table[mask][q].entity)'
        BY <4>2, <4>3 DEF IsAlive
      <4>5. QED
        BY <1>4, <3>1, <4>3, <4>4
    <3>2. CASE ~(mask = {} /\ q = last)
      <4> DEFINE i == table[mask][q].entity.index
      <4>1. q \in 1..Len(table[mask]) /\ table'[mask][q] = table[mask][q]
        <5>1. CASE mask = {}
          BY <1>2, <1>3, <3>2, <5>1
        <5>2. CASE mask # {}
          <6>1. table'[mask] = table[mask] /\ DOMAIN table[mask] = 1..Len(table[mask])
            BY <1>3, <5>2, Typed DEF Consistent
          <6>2. QED
            BY <6>1
        <5>3. QED
          BY <5>1, <5>2
      <4>2. /\ i \in Slots /\ table[mask][q].entity = Handle(i)
            /\ entities[i].archetype = mask /\ entities[i].row = q
            /\ table[mask][q].value \in [mask -> Values]
        BY <4>1, Links
      <4>3. entities'[i] = entities[i] /\ i \in Slots'
        BY <1>1, <1>5, <1>7, <4>2
      <4>4. Handle(i).generation = entities[i].generation
        BY DEF Handle
      <4>5. QED
        BY <1>5, <4>1, <4>2, <4>3, <4>4 DEF IsAlive
    <3>3. QED
      BY <3>1, <3>2
  <2>3. QED
    BY <2>1, <2>2 DEF RecordsMatchRows, Masks
<1>10. Alive' = Alive \union {h}
  <2>1. \A k : k \in Alive' <=>
                  \E i \in Slots' : entities'[i].archetype # NoArchetype /\ k = Handle(i)'
    BY DEF Alive
  <2>2. \A k : k \in Alive <=>
                  \E i \in Slots : entities[i].archetype # NoArchetype /\ k = Handle(i)
    BY DEF Alive
  <2>3. ASSUME NEW k PROVE k \in Alive' <=> k \in Alive \/ k = h
    <3>1. ASSUME k \in Alive' PROVE k \in Alive \/ k = h
      BY <1>1, <1>6, <1>7, <2>1, <2>2, <3>1
    <3>2. ASSUME k \in Alive PROVE k \in Alive'
      BY <1>1, <1>7, <2>1, <2>2, <3>2
    <3>3. h \in Alive'
      BY <1>2, <1>4, <1>5, <1>6, <2>1
    <3>4. QED
      BY <3>1, <3>2, <3>3
  <2>4. QED
    BY <2>3
<1>11. h \notin Issued /\ Issued' = Issued \union {h}
  <2>1. Issued \subseteq Handles /\ Issued' \subseteq Handles
    BY DEF Issued
  <2>2. \A k \in Handles : k \in Issued' <=>
           /\ k.index \in Slots'
           /\ \/ k.generation < entities'[k.index].generation
              \/ /\ entities'[k.index].archetype # NoArchetype
                 /\ entities'[k.index].generation = k.generation
    BY DEF Issued, IsAlive
  <2>3. h.generation \in Int
    BY DEF Handles
  <2>4. h \notin Issued
    BY <1>1, <2>3, IssuedBySlot
  <2>5. ASSUME NEW k \in Handles PROVE k \in Issued' <=> k \in Issued \/ k = h
    <3>1. CASE k.index # h.index
      BY <1>1, <2>2, <3>1, IssuedBySlot
    <3>2. CASE k.index = h.index
      <4>1. k = h <=> k.generation = h.generation
        BY <3>2 DEF Handles
      <4>2. k \in Issued' <=> (k.generation < h.generation \/ k = h)
        BY <1>2, <1>4, <1>5, <1>6, <2>2, <3>2, <4>1
      <4>3. CASE h.index \in Slots
        BY <1>1, <2>4, <3>2, <4>2, <4>3, IssuedBySlot
      <4>4. CASE h.index \notin Slots
        <5>1. ~(k.generation < h.generation)
          BY <1>1, <4>4 DEF Handles
        <5>2. k \notin Issued
          BY <3>2, <4>4, IssuedBySlot
        <5>3. QED
          BY <4>2, <5>1, <5>2
      <4>5. QED
        BY <4>3, <4>4
    <3>3. QED
      BY <3>1, <3>2
  <2>6. QED
    BY <2>1, <2>4, <2>5
<1>12. RowOf(h)' = new /\ \A k \in Alive : RowOf(k)' = RowOf(k)
  <2>1. RowOf(h)' = new
    BY <1>3, <1>4 DEF RowOf
  <2>2. ASSUME NEW k \in Alive PROVE RowOf(k)' = RowOf(k)
    <3>1. PICK i \in Slots : k = Handle(i) /\ entities[i].archetype # NoArchetype
      BY DEF Alive
    <3>2. QED
      BY <1>7, <3>1
  <2>3. QED
    BY <2>1, <2>2
<1>13. /\ Slots \subseteq Slots'
       /\ \A i \in Slots : entities'[i].generation = entities[i].generation
       /\ \A i \in Slots : entities[i].archetype # NoArchetype => entities'[i] = entities[i]
  BY <1>1, <1>4, <1>7
<1>14. QED
  BY <1>4, <1>8, <1>9, <1>1, <1>10, <1>11, <1>12, <1>13 DEF Consistent

(* A step that keeps the slots, their generations and who is alive hands   *)
(* out no handle.                                                          *)
LEMMA SameHandles ==
    ASSUME Slots' = Slots,
           \A i \in Slots : entities'[i].generation = entities[i].generation,
           \A i \in Slots : entities'[i].archetype = NoArchetype <=>
                            entities[i].archetype = NoArchetype
    PROVE  Alive' = Alive /\ Issued' = Issued
<1>1. \A i \in Slots : Handle(i)' = Handle(i)
  BY DEF Handle
<1>2. Alive' = Alive
  <2>1. \A k : k \in Alive' <=>
                  \E i \in Slots : entities'[i].archetype # NoArchetype /\ k = Handle(i)'
    BY DEF Alive
  <2>2. \A k : k \in Alive <=>
                  \E i \in Slots : entities[i].archetype # NoArchetype /\ k = Handle(i)
    BY DEF Alive
  <2>3. ASSUME NEW k PROVE k \in Alive' <=> k \in Alive
    BY <1>1, <2>1, <2>2
  <2>4. QED
    BY <2>3
<1>3. \A k \in Handles : k \in Issued' <=>
         /\ k.index \in Slots'
         /\ \/ k.generation < entities'[k.index].generation
            \/ /\ entities'[k.index].archetype # NoArchetype
               /\ entities'[k.index].generation = k.generation
  BY DEF Issued, IsAlive
<1>4. Issued \subseteq Handles /\ Issued' \subseteq Handles
  BY DEF Issued
<1>5. \A k \in Handles : k \in Issued' <=> k \in Issued
  BY <1>3, IssuedBySlot
<1>6. QED
  BY <1>2, <1>4, <1>5

(* destroyEntity() hands no generation out and takes none back.            *)
LEMMA DestroyIssues ==
    ASSUME Consistent, NEW e \in Alive, DestroyEntity(e)
    PROVE  /\ Issued' = Issued /\ Slots' = Slots
           /\ \A i \in Slots \ {e.index} :
                 /\ entities'[i].generation = entities[i].generation
                 /\ entities'[i].archetype = entities[i].archetype
<1>1. /\ Vacates(e) /\ Slots' = Slots
      /\ entities'[e.index] = Record(NoArchetype, 0, e.generation + 1)
  BY DestroyVacates, OthersFollow
<1>2. entities'[e.index].archetype = NoArchetype /\ entities'[e.index].generation = e.generation + 1
  BY <1>1, RecordFields
<1>3. \A i \in Slots \ {e.index} : /\ entities'[i].generation = entities[i].generation
                                   /\ entities'[i].archetype = entities[i].archetype
  BY <1>1, RecordFields DEF Vacates
<1>4. /\ e.index \in Slots /\ entities[e.index].generation = e.generation
      /\ entities[e.index].archetype # NoArchetype /\ e \in Handles
  BY AliveSlots DEF Consistent, IsAlive
<1>5. \A k \in Handles : k \in Issued' <=>
         /\ k.index \in Slots'
         /\ \/ k.generation < entities'[k.index].generation
            \/ /\ entities'[k.index].archetype # NoArchetype
               /\ entities'[k.index].generation = k.generation
  BY DEF Issued, IsAlive
<1>6. ASSUME NEW k \in Handles PROVE k \in Issued' <=> k \in Issued
  <2>1. CASE k.index # e.index
    BY <1>1, <1>3, <1>5, <2>1, IssuedBySlot
  <2>2. CASE k.index = e.index
    <3>1. k.generation \in Int /\ e.generation \in Int
      BY <1>4 DEF Handles
    <3>2. k \in Issued' <=> k.generation < e.generation + 1
      BY <1>1, <1>2, <1>4, <1>5, <2>2
    <3>3. k \in Issued <=> k.generation < e.generation \/ k.generation = e.generation
      BY <1>4, <2>2, IssuedBySlot
    <3>4. QED
      BY <3>1, <3>2, <3>3
  <2>3. QED
    BY <2>1, <2>2
<1>7. Issued \subseteq Handles /\ Issued' \subseteq Handles
  BY DEF Issued
<1>8. QED
  BY <1>1, <1>3, <1>6, <1>7

(* What a living entity holds.                                             *)
LEMMA LivingRow ==
    ASSUME Consistent, NEW e \in Alive
    PROVE  /\ Source(e) \in Masks /\ RowOf(e).entity = e
           /\ RowOf(e) = table[Source(e)][At(e)]
           /\ RowOf(e).value \in [Source(e) -> Values] /\ DOMAIN RowOf(e).value = Source(e)
<1>1. /\ Source(e) \in Masks /\ At(e) \in 1..Len(table[Source(e)])
      /\ table[Source(e)][At(e)].entity = e
  BY KeptTyped
<1>2. RowOf(e) = table[Source(e)][At(e)]
  BY DEF RowOf, Source, At
<1>3. table[Source(e)][At(e)].value \in [Source(e) -> Values]
  BY <1>1, Links
<1>4. QED
  BY <1>1, <1>2, <1>3

(* A row whose values are replaced keeps its entity.                       *)
LEMMA RowWritten ==
    ASSUME NEW row \in Rows, NEW value
    PROVE  [row EXCEPT !.value = value] = [entity |-> row.entity, value |-> value]
BY DEF Rows

(* The entity's archetype and row stay what they are: only the value in    *)
(* the row changes.                                                        *)
LEMMA WriteEffect ==
    ASSUME Consistent, NEW e \in Alive, NEW c \in Components, NEW v \in Values,
           WriteComponent(e, c, v)
    PROVE  /\ Consistent'
           /\ UNCHANGED <<entities, freeList>>
           /\ c \in Source(e)
           /\ RowOf(e)' = [entity |-> e, value |-> [RowOf(e).value EXCEPT ![c] = v]]
           /\ \A k \in Alive \ {e} : RowOf(k)' = RowOf(k)
<1> DEFINE src == Source(e)
           r   == At(e)
           new == [entity |-> e, value |-> [RowOf(e).value EXCEPT ![c] = v]]
<1>1. UNCHANGED <<entities, freeList>> /\ c \in src
  BY DEF WriteComponent, Source
<1>2. /\ src \in Masks /\ table \in [Masks -> Seq(Rows)] /\ table[src] \in Seq(Rows)
      /\ r \in 1..Len(table[src]) /\ RowOf(e) = table[src][r]
  BY KeptTyped, LivingRow, Typed DEF Consistent, TypeOK, Rows
<1>3. RowOf(e) \in Rows /\ RowOf(e).entity = e /\ e \in Handles
      /\ RowOf(e).value \in [src -> Values]
      /\ [RowOf(e).value EXCEPT ![c] = v] \in [src -> Values]
  <2>1. RowOf(e) \in Rows
    BY <1>2
  <2>2. RowOf(e).entity = e /\ RowOf(e).value \in [src -> Values]
    BY LivingRow
  <2>3. e \in Handles
    BY AliveSlots DEF Consistent
  <2>4. QED
    BY <2>1, <2>2, <2>3
<1>4. new \in Rows /\ new.entity = e /\ DOMAIN new.value = src
  BY <1>2, <1>3 DEF Rows
<1>5. [RowOf(e) EXCEPT !.value = [RowOf(e).value EXCEPT ![c] = v]] = new
  BY <1>3, RowWritten
<1>6. table' = [table EXCEPT ![src] = [table[src] EXCEPT ![r] = new]]
  <2>1. table' = [table EXCEPT ![src][r].value[c] = v]
    BY DEF WriteComponent, Source, At
  <2>2. table' = [table EXCEPT ![src] = [table[src] EXCEPT ![r] =
           [table[src][r] EXCEPT !.value = [table[src][r].value EXCEPT ![c] = v]]]]
    BY <2>1
  <2>3. QED
    BY <1>2, <1>5, <2>2
<1>7. /\ table' \in [Masks -> Seq(Rows)]
      /\ table'[src][r] = new
      /\ \A mask \in Masks : \A q \in 1..Len(table[mask]) :
            ~(mask = src /\ q = r) => table'[mask][q] = table[mask][q]
      /\ \A mask \in Masks : DOMAIN table'[mask] = 1..Len(table[mask])
  <2>1. /\ [table[src] EXCEPT ![r] = new] \in Seq(Rows)
        /\ DOMAIN [table[src] EXCEPT ![r] = new] = 1..Len(table[src])
    BY <1>2, <1>4
  <2>2. \A mask \in Masks : DOMAIN table[mask] = 1..Len(table[mask])
    BY Typed DEF Consistent
  <2>3. QED
    BY <1>2, <1>6, <2>1, <2>2
<1>8. TypeOK'
  BY <1>1, <1>7 DEF Consistent, TypeOK, Slots, Rows
<1>9. FreeListExact'
  BY <1>1 DEF Consistent, FreeListExact, Slots
<1>10. RowOf(e)' = new
  BY <1>1, <1>7 DEF RowOf, Source, At
<1>11. ASSUME NEW i \in Slots, entities[i].archetype # NoArchetype
       PROVE  /\ RowOf(Handle(i))'.entity = Handle(i)
              /\ Handle(i) # e => RowOf(Handle(i))' = RowOf(Handle(i))
  <2>1. Handle(i)' = Handle(i) /\ Handle(i).index = i
    BY <1>1 DEF Handle
  <2>2. /\ entities[i].archetype \in Masks
        /\ entities[i].row \in 1..Len(table[entities[i].archetype])
        /\ table[entities[i].archetype][entities[i].row].entity = Handle(i)
    BY <1>11, Links, Typed DEF Consistent, Records
  <2>3. table[src][r].entity = e
    BY <1>2, <1>3
  <2>4. /\ RowOf(Handle(i)) = table[entities[i].archetype][entities[i].row]
        /\ RowOf(Handle(i))' = table'[entities[i].archetype][entities[i].row]
    BY <1>1, <2>1 DEF RowOf
  <2>5. CASE entities[i].archetype = src /\ entities[i].row = r
    <3>1. Handle(i) = e
      BY <2>2, <2>3, <2>5
    <3>2. RowOf(Handle(i))' = new
      BY <1>7, <2>5, <2>4
    <3>3. QED
      BY <1>4, <3>1, <3>2
  <2>6. CASE ~(entities[i].archetype = src /\ entities[i].row = r)
    BY <1>7, <2>2, <2>6, <2>4
  <2>7. QED
    BY <2>5, <2>6
<1>12. RecordsMatchRows'
  <2>1. ASSUME NEW i \in Slots, entities[i].archetype # NoArchetype
        PROVE  /\ entities[i].row \in DOMAIN table'[entities[i].archetype]
               /\ RowOf(Handle(i))'.entity = Handle(i)'
    <3>1. Handle(i)' = Handle(i)
      BY <1>1 DEF Handle
    <3>2. /\ entities[i].archetype \in Masks
          /\ entities[i].row \in 1..Len(table[entities[i].archetype])
      BY <2>1, Links, Typed DEF Consistent, Records
    <3>3. QED
      BY <1>7, <1>11, <2>1, <3>1, <3>2
  <2>2. ASSUME NEW mask \in Masks, NEW q \in DOMAIN table'[mask]
        PROVE  /\ IsAlive(table[mask][q].entity)'
               /\ entities[table'[mask][q].entity.index].archetype = mask
               /\ entities[table'[mask][q].entity.index].row = q
               /\ DOMAIN table'[mask][q].value = mask
    <3>1. q \in DOMAIN table[mask] /\ DOMAIN table[mask] = 1..Len(table[mask])
      BY <1>7, Typed DEF Consistent
    <3>2. /\ IsAlive(table[mask][q].entity)
          /\ entities[table[mask][q].entity.index].archetype = mask
          /\ entities[table[mask][q].entity.index].row = q
          /\ DOMAIN table[mask][q].value = mask
      BY <3>1 DEF Consistent, RecordsMatchRows
    <3>3. table'[mask][q].entity = table[mask][q].entity /\ DOMAIN table'[mask][q].value = mask
      <4>1. CASE mask = src /\ q = r
        <5>1. table'[mask][q] = new /\ table[mask][q].entity = e
          BY <1>2, <1>3, <1>7, <4>1
        <5>2. QED
          BY <1>4, <4>1, <5>1
      <4>2. CASE ~(mask = src /\ q = r)
        BY <1>7, <3>1, <3>2, <4>2
      <4>3. QED
        BY <4>1, <4>2
    <3>4. QED
      BY <1>1, <3>2, <3>3 DEF IsAlive, Slots
  <2>3. QED
    BY <1>1, <2>1, <2>2 DEF RecordsMatchRows, Slots, Masks
<1>13. \A k \in Alive \ {e} : RowOf(k)' = RowOf(k)
  <2>1. ASSUME NEW k \in Alive \ {e} PROVE RowOf(k)' = RowOf(k)
    <3>1. PICK i \in Slots : k = Handle(i) /\ entities[i].archetype # NoArchetype
      BY DEF Alive
    <3>2. k = Handle(i)'
      BY <1>1, <3>1 DEF Handle
    <3>3. QED
      BY <1>11, <3>1, <3>2
  <2>2. QED
    BY <2>1
<1>14. QED
  BY <1>1, <1>8, <1>9, <1>10, <1>12, <1>13 DEF Consistent

(* What a step that changes e's components leaves alone.                   *)
OnlyHolds(e, value) ==
    /\ Slots' = Slots /\ Alive' = Alive /\ Issued' = Issued
    /\ \A i \in Slots : entities'[i].generation = entities[i].generation
    /\ \A i \in Slots : entities'[i].archetype = NoArchetype <=>
                        entities[i].archetype = NoArchetype
    /\ RowOf(e)' = [entity |-> e, value |-> value]
    /\ \A k \in Alive \ {e} : RowOf(k)' = RowOf(k)

(* addComponent() leaves the entity holding what it had and the value, and *)
(* every other entity as it was.                                           *)
LEMMA AddEffect ==
    ASSUME Consistent, NEW e \in Alive, NEW c \in Components, NEW v \in Values,
           AddComponent(e, c, v)
    PROVE  /\ Consistent' /\ c \notin Source(e)
           /\ OnlyHolds(e, [k \in Source(e) \union {c} |-> IF k = c THEN v ELSE RowOf(e).value[k]])
<1> DEFINE dst   == Source(e) \union {c}
           value == [k \in dst |-> IF k = c THEN v ELSE RowOf(e).value[k]]
<1>1. c \notin Source(e) /\ MoveEntity(e, dst, value)
  BY DEF AddComponent, Copied, Source
<1>2. Source(e) \in Masks /\ RowOf(e).value \in [Source(e) -> Values]
  BY LivingRow
<1>3. dst \in Masks \ {Source(e)} /\ value \in [dst -> Values]
  BY <1>1, <1>2 DEF Masks
<1> HIDE DEF dst, value
<1>4. /\ Consistent' /\ Slots' = Slots
      /\ \A i \in Slots : entities'[i].generation = entities[i].generation
      /\ \A i \in Slots : entities'[i].archetype = NoArchetype <=>
                          entities[i].archetype = NoArchetype
      /\ RowOf(e)' = [entity |-> e, value |-> value]
      /\ \A k \in Alive \ {e} : RowOf(k)' = RowOf(k)
  BY <1>1, <1>3, MoveEffect
<1>5. OnlyHolds(e, value)
  BY <1>4, SameHandles DEF OnlyHolds
<1>6. QED
  BY <1>1, <1>4, <1>5 DEF dst, value

(* removeComponent() leaves the entity holding the rest of what it had.    *)
LEMMA RemoveEffect ==
    ASSUME Consistent, NEW e \in Alive, NEW c \in Components, RemoveComponent(e, c)
    PROVE  /\ Consistent' /\ c \in Source(e)
           /\ OnlyHolds(e, [k \in Source(e) \ {c} |-> RowOf(e).value[k]])
<1> DEFINE dst   == Source(e) \ {c}
           value == [k \in dst |-> RowOf(e).value[k]]
<1>1. c \in Source(e) /\ MoveEntity(e, dst, value)
  BY DEF RemoveComponent, Copied, Source
<1>2. Source(e) \in Masks /\ RowOf(e).value \in [Source(e) -> Values]
  BY LivingRow
<1>3. dst \in Masks \ {Source(e)} /\ value \in [dst -> Values]
  BY <1>1, <1>2 DEF Masks
<1> HIDE DEF dst, value
<1>4. /\ Consistent' /\ Slots' = Slots
      /\ \A i \in Slots : entities'[i].generation = entities[i].generation
      /\ \A i \in Slots : entities'[i].archetype = NoArchetype <=>
                          entities[i].archetype = NoArchetype
      /\ RowOf(e)' = [entity |-> e, value |-> value]
      /\ \A k \in Alive \ {e} : RowOf(k)' = RowOf(k)
  BY <1>1, <1>3, MoveEffect
<1>5. OnlyHolds(e, value)
  BY <1>4, SameHandles DEF OnlyHolds
<1>6. QED
  BY <1>1, <1>4, <1>5 DEF dst, value

(* A write leaves the entity holding the value in its component.           *)
LEMMA WriteHolds ==
    ASSUME Consistent, NEW e \in Alive, NEW c \in Components, NEW v \in Values,
           WriteComponent(e, c, v)
    PROVE  /\ Consistent' /\ c \in Source(e)
           /\ OnlyHolds(e, [RowOf(e).value EXCEPT ![c] = v])
<1>1. /\ Consistent' /\ UNCHANGED <<entities, freeList>> /\ c \in Source(e)
      /\ RowOf(e)' = [entity |-> e, value |-> [RowOf(e).value EXCEPT ![c] = v]]
      /\ \A k \in Alive \ {e} : RowOf(k)' = RowOf(k)
  BY WriteEffect
<1>2. Slots' = Slots
  BY <1>1 DEF Slots
<1>3. QED
  BY <1>1, <1>2, SameHandles DEF OnlyHolds
------------------------------------------------------------------------------
(* An empty World is consistent.                                           *)
LEMMA InitConsistent == Init => Consistent
<1> SUFFICES ASSUME Init PROVE Consistent
  OBVIOUS
<1>1. TypeOK
  BY BoundsAssumption DEF Init, TypeOK, Slots
<1>2. Slots = {} /\ DOMAIN freeList = {} /\ \A mask \in Masks : DOMAIN table[mask] = {}
  BY DEF Init, Slots
<1>3. RecordsMatchRows /\ FreeListExact
  BY <1>2 DEF RecordsMatchRows, FreeListExact
<1>4. QED
  BY <1>1, <1>3 DEF Consistent

(* Every call keeps it so.                                                 *)
LEMMA NextConsistent == Consistent /\ Next => Consistent'
<1> SUFFICES ASSUME Consistent, Next PROVE Consistent'
  OBVIOUS
<1>1. CASE CreateEntity
  BY <1>1, CreateEffect
<1>2. ASSUME NEW e \in Alive, DestroyEntity(e) PROVE Consistent'
  BY <1>2, DestroyEffect
<1>3. ASSUME NEW e \in Alive, NEW c \in Components, RemoveComponent(e, c) PROVE Consistent'
  BY <1>3, RemoveEffect
<1>4. ASSUME NEW e \in Alive, NEW c \in Components, NEW v \in Values, AddComponent(e, c, v)
      PROVE  Consistent'
  BY <1>4, AddEffect
<1>5. ASSUME NEW e \in Alive, NEW c \in Components, NEW v \in Values, WriteComponent(e, c, v)
      PROVE  Consistent'
  BY <1>5, WriteHolds
<1>6. QED
  BY <1>1, <1>2, <1>3, <1>4, <1>5 DEF Next

(* Consistency speaks of nothing but the variables.                        *)
LEMMA StutterConsistent == Consistent /\ UNCHANGED vars => Consistent'
<1> SUFFICES ASSUME Consistent, UNCHANGED <<entities, freeList, table>> PROVE Consistent'
  BY DEF vars
<1>1. TypeOK'
  BY DEF Consistent, TypeOK, Slots
<1>2. RecordsMatchRows'
  BY DEF Consistent, RecordsMatchRows, IsAlive, RowOf, Handle, Slots
<1>3. FreeListExact'
  BY DEF Consistent, FreeListExact, Slots
<1>4. QED
  BY <1>1, <1>2, <1>3 DEF Consistent

(* Records, rows and the free list agree after any history of creations,   *)
(* destructions, component changes and writes.                             *)
THEOREM WorldIsConsistent == Spec => []Consistent
<1>1. Consistent /\ [Next]_vars => Consistent'
  BY NextConsistent, StutterConsistent
<1>2. QED
  BY <1>1, InitConsistent, PTL DEF Spec

(* A slot's generation never goes back, and within one generation a slot   *)
(* that has died stays dead: no stale handle comes back to life.           *)
NoRevival == \A i \in Slots :
    /\ entities'[i].generation >= entities[i].generation
    /\ entities'[i].generation = entities[i].generation =>
          (entities'[i].archetype = NoArchetype <=> entities[i].archetype = NoArchetype)
          \/ entities[i].archetype = NoArchetype

(* No call makes a dead handle alive again.                                *)
LEMMA NextRevivesNone == Consistent /\ Next => NoRevival
<1> SUFFICES ASSUME Consistent, Next PROVE NoRevival
  OBVIOUS
<1>0. \A i \in Slots : entities[i].generation \in Int
  BY Typed DEF Consistent, Records
<1>1. CASE CreateEntity
  <2>1. /\ \A i \in Slots : entities'[i].generation = entities[i].generation
        /\ \A i \in Slots : entities[i].archetype # NoArchetype => entities'[i] = entities[i]
    BY <1>1, CreateEffect
  <2>2. QED
    BY <1>0, <2>1 DEF NoRevival
<1>2. ASSUME NEW e \in Alive, DestroyEntity(e) PROVE NoRevival
  <2>1. entities'[e.index].generation = e.generation + 1
    BY <1>2, DestroyEffect
  <2>2. e.generation = entities[e.index].generation
    BY AliveSlots DEF Consistent, IsAlive
  <2>3. \A i \in Slots \ {e.index} : /\ entities'[i].generation = entities[i].generation
                                     /\ entities'[i].archetype = entities[i].archetype
    BY <1>2, DestroyIssues
  <2>4. QED
    BY <1>0, <2>1, <2>2, <2>3 DEF NoRevival
<1>3. ASSUME NEW e, NEW value, OnlyHolds(e, value) PROVE NoRevival
  BY <1>0, <1>3 DEF OnlyHolds, NoRevival
<1>4. ASSUME NEW e \in Alive, NEW c \in Components, RemoveComponent(e, c) PROVE NoRevival
  BY <1>3, <1>4, RemoveEffect
<1>5. ASSUME NEW e \in Alive, NEW c \in Components, NEW v \in Values, AddComponent(e, c, v)
      PROVE  NoRevival
  BY <1>3, <1>5, AddEffect
<1>6. ASSUME NEW e \in Alive, NEW c \in Components, NEW v \in Values, WriteComponent(e, c, v)
      PROVE  NoRevival
  BY <1>3, <1>6, WriteHolds
<1>7. QED
  BY <1>1, <1>2, <1>4, <1>5, <1>6 DEF Next

(* A handle that has died names no entity again, although its slot is      *)
(* recycled (World::destroyEntity, createEntity).                          *)
THEOREM HandlesStayDead == Spec => StaleHandlesStayDead
<1>1. Consistent /\ [Next]_vars => [NoRevival]_vars
  BY NextRevivesNone
<1>2. QED
  BY <1>1, WorldIsConsistent, PTL DEF Spec, StaleHandlesStayDead, NoRevival
------------------------------------------------------------------------------
(* The refinement of the entity store, operation by operation.             *)
LEMMA StoreIs == Store = [e \in Alive |-> RowOf(e).value] /\ DOMAIN Store = Alive
BY DEF Store

(* createEntity() is the store's Create.                                   *)
LEMMA CreateRefines == Consistent /\ CreateEntity => Abstract!Create
<1> SUFFICES ASSUME Consistent, CreateEntity PROVE Abstract!Create
  OBVIOUS
<1>1. PICK h \in Handles \ Issued :
         /\ Alive' = Alive \union {h} /\ Issued' = Issued \union {h}
         /\ RowOf(h)' = [entity |-> h, value |-> [c \in {} |-> Default]]
         /\ \A k \in Alive : RowOf(k)' = RowOf(k)
  BY CreateEffect
<1>2. h \notin Alive
  <2>1. \A k \in Alive : k \in Issued
    BY AliveSlots DEF Consistent, Issued, IsAlive
  <2>2. QED
    BY <2>1
<1>3. Store' = [k \in Alive' |-> RowOf(k)'.value]
  BY DEF Store
<1>4. Store' = [k \in Alive \union {h} |-> IF k = h THEN [c \in {} |-> Default] ELSE Store[k]]
  BY <1>1, <1>2, <1>3, StoreIs
<1>5. QED
  BY <1>1, <1>4, StoreIs DEF Abstract!Create

(* destroyEntity() is the store's Destroy.                                 *)
LEMMA DestroyRefines ==
    ASSUME Consistent, NEW e \in Alive, DestroyEntity(e) PROVE Abstract!Destroy(e)
<1>1. /\ Alive' = Alive \ {e} /\ Issued' = Issued
      /\ \A k \in Alive \ {e} : RowOf(k)' = RowOf(k)
  BY DestroyEffect, DestroyIssues
<1>2. Store' = [k \in Alive' |-> RowOf(k)'.value]
  BY DEF Store
<1>3. Store' = [k \in Alive \ {e} |-> Store[k]]
  BY <1>1, <1>2, StoreIs
<1>4. QED
  BY <1>1, <1>3, StoreIs DEF Abstract!Destroy

(* When one entity's values change and nothing else, the store changes at  *)
(* its handle alone.                                                       *)
LEMMA HoldsRefines ==
    ASSUME NEW e \in Alive, NEW value, OnlyHolds(e, value)
    PROVE  Store' = [Store EXCEPT ![e] = value] /\ Issued' = Issued
<1>1. /\ Alive' = Alive /\ Issued' = Issued /\ RowOf(e)' = [entity |-> e, value |-> value]
      /\ \A k \in Alive \ {e} : RowOf(k)' = RowOf(k)
  BY DEF OnlyHolds
<1>2. Store' = [k \in Alive' |-> RowOf(k)'.value]
  BY DEF Store
<1>3. RowOf(e)'.value = value
  BY <1>1
<1>4. QED
  BY <1>1, <1>2, <1>3, StoreIs

(* addComponent() and a write are the store's Put.                         *)
LEMMA AddRefines ==
    ASSUME Consistent, NEW e \in Alive, NEW c \in Components, NEW v \in Values,
           AddComponent(e, c, v) \/ WriteComponent(e, c, v)
    PROVE  Abstract!Put(e, c, v)
<1>1. Store[e] = RowOf(e).value /\ DOMAIN Store[e] = Source(e) /\ DOMAIN Store = Alive
  BY LivingRow, StoreIs
<1> DEFINE value == [k \in Source(e) \union {c} |-> IF k = c THEN v ELSE Store[e][k]]
<1>2. OnlyHolds(e, value)
  <2>1. CASE AddComponent(e, c, v)
    BY <1>1, <2>1, AddEffect
  <2>2. CASE WriteComponent(e, c, v)
    <3>1. c \in Source(e) /\ OnlyHolds(e, [RowOf(e).value EXCEPT ![c] = v])
      BY <2>2, WriteHolds
    <3>2. [RowOf(e).value EXCEPT ![c] = v] = value
      BY <1>1, <3>1, LivingRow
    <3>3. QED
      BY <3>1, <3>2
  <2>3. QED
    BY <2>1, <2>2
<1>3. Store' = [Store EXCEPT ![e] = value] /\ Issued' = Issued
  BY <1>2, HoldsRefines
<1>4. QED
  BY <1>1, <1>3 DEF Abstract!Put

(* removeComponent() is the store's Take.                                  *)
LEMMA RemoveRefines ==
    ASSUME Consistent, NEW e \in Alive, NEW c \in Components, RemoveComponent(e, c)
    PROVE  Abstract!Take(e, c)
<1>1. Store[e] = RowOf(e).value /\ DOMAIN Store[e] = Source(e) /\ DOMAIN Store = Alive
  BY LivingRow, StoreIs
<1>2. c \in Source(e) /\ OnlyHolds(e, [k \in Source(e) \ {c} |-> Store[e][k]])
  BY <1>1, RemoveEffect
<1>3. Store' = [Store EXCEPT ![e] = [k \in Source(e) \ {c} |-> Store[e][k]]] /\ Issued' = Issued
  BY <1>2, HoldsRefines
<1>4. QED
  BY <1>1, <1>2, <1>3 DEF Abstract!Take

(* Every call is a step of the store.                                      *)
LEMMA NextRefines == Consistent /\ Next => Abstract!Next
<1> SUFFICES ASSUME Consistent, Next PROVE Abstract!Next
  OBVIOUS
<1>1. CASE CreateEntity
  BY <1>1, CreateRefines DEF Abstract!Next
<1>2. ASSUME NEW e \in Alive, DestroyEntity(e) PROVE Abstract!Next
  BY <1>2, DestroyRefines, StoreIs DEF Abstract!Next
<1>3. ASSUME NEW e \in Alive, NEW c \in Components, RemoveComponent(e, c) PROVE Abstract!Next
  BY <1>3, RemoveRefines, StoreIs DEF Abstract!Next
<1>4. ASSUME NEW e \in Alive, NEW c \in Components, NEW v \in Values,
             AddComponent(e, c, v) \/ WriteComponent(e, c, v)
      PROVE  Abstract!Next
  BY <1>4, AddRefines, StoreIs DEF Abstract!Next
<1>5. QED
  BY <1>1, <1>2, <1>3, <1>4 DEF Next

LEMMA StutterRefines == UNCHANGED vars => UNCHANGED <<Store, Issued>>
BY DEF vars, Store, Issued, Alive, RowOf, Handle, IsAlive, Slots

(* An empty World is an empty store.                                       *)
LEMMA InitRefines == Init => Abstract!Init
<1> SUFFICES ASSUME Init PROVE Abstract!Init
  OBVIOUS
<1>1. Alive = {} /\ Issued = {}
  BY DEF Init, Alive, Issued, IsAlive, Slots
<1>2. QED
  BY <1>1 DEF Abstract!Init, Store

(* The World implements the entity store: a handle's components are what   *)
(* was last put there, and a handle is never handed out twice.             *)
THEOREM WorldIsEntityStore == Spec => Refinement
<1>1. Consistent /\ [Next]_vars => [Abstract!Next]_(Abstract!vars)
  BY NextRefines, StutterRefines DEF Abstract!vars
<1>2. QED
  BY <1>1, InitRefines, WorldIsConsistent, PTL DEF Spec, Refinement, Abstract!Spec
------------------------------------------------------------------------------
(* The command buffer.                                                     *)
IsCreate(i) == cmds[i].type = "Create"

(* A batch: every pending number has one Create, before its other commands.*)
Recorded ==
    /\ cmds \in Seq(Command) /\ Len(cmds) <= MaxCommands
    /\ pendingCount \in Nat
    /\ at \in 0..(Len(cmds) + 1)
    /\ \A i \in DOMAIN cmds : IsCreate(i) => IsPending(cmds[i].entity)
    /\ \A i \in DOMAIN cmds : IsPending(cmds[i].entity) =>
          \E j \in DOMAIN cmds : j <= i /\ IsCreate(j) /\ cmds[j].entity = cmds[i].entity
    /\ \A k \in 1..pendingCount : \E i \in DOMAIN cmds : IsCreate(i) /\ Names(i, k)
    /\ \A i, j \in DOMAIN cmds :
          IsCreate(i) /\ IsCreate(j) /\ cmds[i].entity = cmds[j].entity => i = j

(* flush()'s map: the pending numbers whose Create has run, each resolved  *)
(* to a handle that no other number and no recorded command names.         *)
Mapped ==
    /\ at = 0 => pendingMap = <<>>
    /\ DOMAIN pendingMap \subseteq 1..pendingCount
    /\ \A k \in 1..pendingCount :
          k \in DOMAIN pendingMap <=> \E i \in DOMAIN cmds : i < at /\ IsCreate(i) /\ Names(i, k)
    /\ \A k \in DOMAIN pendingMap : pendingMap[k] \in Issued
    /\ \A j, k \in DOMAIN pendingMap : pendingMap[j] = pendingMap[k] => j = k
    /\ \A k \in DOMAIN pendingMap : \A i \in DOMAIN cmds : cmds[i].entity # pendingMap[k]

(* Among the commands before p: one destroys k; i is the Add whose value k *)
(* holds for c; every Add of c has been removed again.                     *)
GoneBefore(p, k)    == \E i \in DOMAIN cmds : i < p /\ cmds[i].type = "Destroy" /\ Names(i, k)
IsAdd(i)            == cmds[i].type = "Add"
Undone(j, p, k, c)  == \E r \in Changes(k, c) : j < r /\ r < p /\ ~IsAdd(r)
Holds(i, p, k, c)   == /\ i \in Changes(k, c) /\ i < p /\ IsAdd(i) /\ ~Undone(i, p, k, c)
                       /\ \A j \in Changes(k, c) : j < i /\ IsAdd(j) => Undone(j, i, k, c)
AllUndone(p, k, c)  == \A j \in Changes(k, c) : j < p /\ IsAdd(j) => Undone(j, p, k, c)

FateOf(e, p, k) ==
    /\ IsAlive(e) <=> ~GoneBefore(p, k)
    /\ IsAlive(e) => \A c \in Components :
          \/ /\ c \in DOMAIN RowOf(e).value
             /\ \E i \in DOMAIN cmds : Holds(i, p, k, c) /\ RowOf(e).value[c] = cmds[i].value
          \/ c \notin DOMAIN RowOf(e).value /\ AllUndone(p, k, c)

Fates == \A k \in DOMAIN pendingMap : \A e \in {pendingMap[k]}, p \in {at} : FateOf(e, p, k)

BufferInv == Consistent /\ Recorded /\ Mapped /\ Fates
------------------------------------------------------------------------------
(* No call of the World takes back a generation that was handed out.       *)
LEMMA StepIssues ==
    ASSUME Consistent, Next \/ UNCHANGED vars
    PROVE  Consistent' /\ Issued \subseteq Issued'
<1>1. ASSUME NEW e, NEW value, OnlyHolds(e, value) PROVE Issued \subseteq Issued'
  BY <1>1 DEF OnlyHolds
<1>2. CASE Next
  <2>1. CASE CreateEntity
    BY <2>1, CreateEffect
  <2>2. ASSUME NEW e \in Alive, DestroyEntity(e) PROVE Issued \subseteq Issued'
    BY <2>2, DestroyIssues
  <2>3. ASSUME NEW e \in Alive, NEW c \in Components, RemoveComponent(e, c)
        PROVE  Issued \subseteq Issued'
    BY <1>1, <2>3, RemoveEffect
  <2>4. ASSUME NEW e \in Alive, NEW c \in Components, NEW v \in Values,
               AddComponent(e, c, v) \/ WriteComponent(e, c, v)
        PROVE  Issued \subseteq Issued'
    BY <1>1, <2>4, AddEffect, WriteHolds
  <2>5. QED
    BY <1>2, <2>1, <2>2, <2>3, <2>4, NextConsistent DEF Next
<1>3. CASE UNCHANGED vars
  BY <1>3, StutterConsistent, StutterRefines
<1>4. QED
  BY <1>2, <1>3

(* A living handle is one that was handed out, and carries a generation in *)
(* range.                                                                  *)
LEMMA AliveIssued == Consistent => Alive \subseteq Issued /\ Issued \subseteq Handles
<1> SUFFICES ASSUME Consistent PROVE Alive \subseteq Issued
  BY DEF Issued
<1>1. QED
  BY AliveSlots DEF Consistent, Issued, IsAlive

(* A caller names a handle of the World or a pending number, and the index *)
(* tells which.                                                            *)
LEMMA NameableIs ==
    /\ \A e \in Issued : e \in Handles /\ ~IsPending(e)
    /\ \A k \in Nat \ {0} : IsPending(Pending(k)) /\ Pending(k).index - PendingBase = k
    /\ pendingCount \in Nat => \A e \in Nameable : IsPending(e) =>
          /\ e.index - PendingBase \in 1..pendingCount
          /\ e = Pending(e.index - PendingBase)
<1>1. \A e \in Issued : e \in Handles /\ ~IsPending(e)
  BY BoundsAssumption DEF Issued, Handles, IsPending, PendingBase
<1>2. \A k \in Nat \ {0} : IsPending(Pending(k)) /\ Pending(k).index - PendingBase = k
  BY BoundsAssumption DEF IsPending, Pending, PendingBase
<1>3. QED
  BY <1>1, <1>2 DEF Nameable

(* The fields of a recorded command.                                       *)
LEMMA CommandFields ==
    \A cmd \in Command :
        /\ cmd.entity \in Nameable
        /\ cmd.type \in {"Create", "Destroy", "Add", "Remove"}
        /\ cmd.type \in {"Add", "Remove"} => cmd.component \in Components
        /\ cmd.type = "Add" => cmd.value \in Values
BY DEF Command

(* Commands stay commands while handles are handed out.                    *)
LEMMA CommandGrows ==
    ASSUME Nameable \subseteq Nameable'
    PROVE  Seq(Command) \subseteq Seq(Command')
<1>1. ASSUME NEW cmd \in Command PROVE cmd \in Command'
  <2>1. CASE cmd \in [type : {"Create", "Destroy"}, entity : Nameable]
    BY <2>1 DEF Command
  <2>2. CASE cmd \in [type : {"Add"}, entity : Nameable, component : Components, value : Values]
    BY <2>2 DEF Command
  <2>3. CASE cmd \in [type : {"Remove"}, entity : Nameable, component : Components]
    BY <2>3 DEF Command
  <2>4. QED
    BY <2>1, <2>2, <2>3 DEF Command
<1>2. QED
  BY <1>1
------------------------------------------------------------------------------
(* The entity a command stands for, once flush() has reached it.           *)
LEMMA ResolvedIsIssued ==
    ASSUME Consistent, Recorded, Mapped, at \in DOMAIN cmds, ~IsCreate(at)
    PROVE  Resolve(cmds[at].entity) \in Issued
<1>1. cmds[at].entity \in Nameable
  BY CommandFields DEF Recorded
<1>2. CASE ~IsPending(cmds[at].entity)
  BY <1>1, <1>2, NameableIs DEF Resolve, Nameable
<1>3. CASE IsPending(cmds[at].entity)
  <2> DEFINE k == cmds[at].entity.index - PendingBase
  <2>1. k \in 1..pendingCount /\ cmds[at].entity = Pending(k)
    BY <1>1, <1>3, NameableIs DEF Recorded
  <2>2. PICK j \in DOMAIN cmds : j <= at /\ IsCreate(j) /\ cmds[j].entity = cmds[at].entity
    BY <1>3 DEF Recorded
  <2>3. j < at
    BY <2>2 DEF Recorded
  <2>4. k \in DOMAIN pendingMap
    BY <2>1, <2>2, <2>3 DEF Mapped, Names
  <2>5. QED
    BY <1>3, <2>4 DEF Mapped, Resolve
<1>4. QED
  BY <1>2, <1>3

(* A command other than a Create is skipped or applied to its entity.      *)
LEMMA ApplyOther ==
    ASSUME Consistent, NEW cmd \in Command, cmd.type # "Create",
           NEW e \in Issued, e = Resolve(cmd.entity), Apply(cmd)
    PROVE  /\ pendingMap' = pendingMap
           /\ \/ /\ UNCHANGED vars
                 /\ e \in Alive /\ cmd.type = "Add" => cmd.component \in Source(e)
                 /\ e \in Alive /\ cmd.type = "Remove" => cmd.component \notin Source(e)
                 /\ e \in Alive => cmd.type # "Destroy"
              \/ e \in Alive /\ cmd.type = "Destroy" /\ DestroyEntity(e)
              \/ e \in Alive /\ cmd.type = "Add" /\ AddComponent(e, cmd.component, cmd.value)
              \/ e \in Alive /\ cmd.type = "Remove" /\ RemoveComponent(e, cmd.component)
<1>1. Live(e) <=> e \in Alive
  BY AliveSlots, NameableIs DEF Live, Consistent
<1>2. e \in Alive => Handle(e.index) = e
  BY AliveSlots DEF Consistent
<1>3. Skipped(cmd) <=> \/ e \notin Alive
                       \/ cmd.type = "Add" /\ cmd.component \in Source(e)
                       \/ cmd.type = "Remove" /\ cmd.component \notin Source(e)
  BY <1>1 DEF Skipped, Has, Source
<1>4. CASE Skipped(cmd)
  <2>1. UNCHANGED <<vars, pendingMap>>
    BY <1>4 DEF Apply
  <2>2. QED
    BY <1>3, <1>4, <2>1, CommandFields
<1>5. CASE ~Skipped(cmd)
  <2>1. /\ pendingMap' = pendingMap
        /\ \/ cmd.type = "Destroy" /\ DestroyEntity(Handle(e.index))
           \/ cmd.type = "Add" /\ AddComponent(Handle(e.index), cmd.component, cmd.value)
           \/ cmd.type = "Remove" /\ RemoveComponent(Handle(e.index), cmd.component)
    BY <1>5 DEF Apply
  <2>2. QED
    BY <1>2, <1>3, <1>5, <2>1
<1>6. QED
  BY <1>4, <1>5

(* A Create adds a handle never issued before, and maps its number to it.  *)
LEMMA CreateMaps ==
    ASSUME Consistent, NEW cmd, NEW n, n = cmd.entity.index - PendingBase, ApplyCreate(cmd)
    PROVE  \E h \in Handles \ Issued :
              /\ Alive' = Alive \union {h} /\ Issued' = Issued \union {h}
              /\ RowOf(h)' = [entity |-> h, value |-> [c \in {} |-> Default]]
              /\ \A k \in Alive : RowOf(k)' = RowOf(k)
              /\ DOMAIN pendingMap' = DOMAIN pendingMap \union {n}
              /\ pendingMap'[n] = h
              /\ \A j \in DOMAIN pendingMap \ {n} : pendingMap'[j] = pendingMap[j]
<1>1. CreateEntity /\ Consistent'
  BY CreateEffect DEF ApplyCreate
<1>2. PICK h \in Handles \ Issued :
         /\ Alive' = Alive \union {h} /\ Issued' = Issued \union {h}
         /\ RowOf(h)' = [entity |-> h, value |-> [c \in {} |-> Default]]
         /\ entities'[h.index].archetype = {}
         /\ entities'[h.index].row = Len(table[{}]) + 1
         /\ \A k \in Alive : RowOf(k)' = RowOf(k)
  BY <1>1, CreateEffect
<1>3. PICK i \in DOMAIN entities' :
         /\ entities'[i].archetype = {} /\ entities'[i].row = Len(table[{}]) + 1
         /\ pendingMap' = [k \in DOMAIN pendingMap \union {n} |->
               IF k = n THEN [index |-> i, generation |-> entities'[i].generation]
                        ELSE pendingMap[k]]
  BY DEF ApplyCreate
<1>4. Slots' = DOMAIN entities'
  BY <1>1 DEF Consistent, TypeOK, Slots
<1>5. h.index \in Slots' /\ entities'[h.index].generation = h.generation
  <2>1. \A k \in Alive' : k.index \in Slots' /\ k.generation = entities'[k.index].generation
    BY DEF Alive, Handle
  <2>2. QED
    BY <1>2, <2>1
<1>6. {} # NoArchetype
  BY ValuesAssumption
<1>7. \A s \in Slots' : entities'[s].archetype # NoArchetype =>
         table'[entities'[s].archetype][entities'[s].row].entity.index = s
  <2>1. ASSUME NEW s \in Slots'
        PROVE  /\ Handle(s)'.index = s
               /\ RowOf(Handle(s))' = table'[entities'[s].archetype][entities'[s].row]
    BY DEF RowOf, Handle
  <2>2. \A s \in Slots' : entities'[s].archetype # NoArchetype =>
           RowOf(Handle(s))'.entity = Handle(s)'
    BY <1>1 DEF Consistent, RecordsMatchRows
  <2>3. QED
    BY <2>1, <2>2
<1>8. i = h.index
  BY <1>2, <1>3, <1>4, <1>5, <1>6, <1>7
<1>9. h = [index |-> i, generation |-> entities'[i].generation]
  BY <1>5, <1>8 DEF Handles
<1>10. QED
  BY <1>2, <1>3, <1>9

(* Every step of the buffer is a step of the World or leaves it alone.     *)
LEMMA FlushSteps == Consistent /\ Recorded /\ Mapped /\ FlushNext => Next \/ UNCHANGED vars
<1> SUFFICES ASSUME Consistent, Recorded, Mapped, FlushNext PROVE Next \/ UNCHANGED vars
  OBVIOUS
<1>1. at \in DOMAIN cmds /\ Apply(cmds[at])
  BY DEF FlushNext
<1>2. CASE cmds[at].type = "Create"
  BY <1>1, <1>2 DEF Apply, Skipped, ApplyCreate, Next
<1>3. CASE cmds[at].type # "Create"
  <2>1. PICK cmd \in Command : cmd = cmds[at]
    BY <1>1 DEF Recorded
  <2>2. PICK e \in Issued : e = Resolve(cmd.entity)
    BY <1>1, <1>3, <2>1, ResolvedIsIssued DEF IsCreate
  <2>3. \/ UNCHANGED vars
        \/ e \in Alive /\ cmd.type = "Destroy" /\ DestroyEntity(e)
        \/ e \in Alive /\ cmd.type = "Add" /\ AddComponent(e, cmd.component, cmd.value)
        \/ e \in Alive /\ cmd.type = "Remove" /\ RemoveComponent(e, cmd.component)
    BY <1>1, <1>3, <2>1, <2>2, ApplyOther
  <2>4. QED
    BY <2>1, <2>3, CommandFields DEF Next
<1>4. QED
  BY <1>2, <1>3

(* Whatever the buffer does, the World takes one of its own steps or none, *)
(* and stays consistent.                                                   *)
LEMMA WorldSteps ==
    ASSUME Consistent, Recorded, Mapped, BufferNext
    PROVE  Next \/ UNCHANGED vars
<1>1. CASE FlushNext
  BY <1>1, FlushSteps
<1>2. CASE ~FlushNext
  BY <1>2 DEF BufferNext, RecordCreate, RecordOne, Direct, FlushBegin, FlushEnd
<1>3. QED
  BY <1>1, <1>2
------------------------------------------------------------------------------
(* Recording.                                                              *)
LEMMA Appended ==
    ASSUME Recorded, NEW cmd, cmds' = Append(cmds, cmd)
    PROVE  /\ DOMAIN cmds = 1..Len(cmds) /\ Len(cmds) \in Nat
           /\ Len(cmds') = Len(cmds) + 1 /\ DOMAIN cmds' = 1..(Len(cmds) + 1)
           /\ DOMAIN cmds' = DOMAIN cmds \union {Len(cmds) + 1}
           /\ cmds'[Len(cmds) + 1] = cmd
           /\ \A i \in DOMAIN cmds : cmds'[i] = cmds[i]
BY DEF Recorded

(* createEntity() of the buffer keeps the record of the batch in shape.    *)
LEMMA CreateRecorded ==
    ASSUME Recorded, RecordCreate
    PROVE  Recorded'
<1> DEFINE n   == pendingCount + 1
           cmd == [type |-> "Create", entity |-> Pending(n)]
           len == Len(cmds) + 1
<1>1. /\ at = 0 /\ at' = 0 /\ Len(cmds) < MaxCommands /\ pendingCount' = n
      /\ cmds' = Append(cmds, cmd) /\ UNCHANGED vars
  BY DEF RecordCreate, Recording
<1>2. pendingCount \in Nat /\ n \in Nat \ {0} /\ n \in 1..n
  BY DEF Recorded
<1>3. /\ DOMAIN cmds = 1..Len(cmds) /\ Len(cmds) \in Nat /\ Len(cmds') = len
      /\ DOMAIN cmds' = DOMAIN cmds \union {len} /\ cmds'[len] = cmd
      /\ \A i \in DOMAIN cmds : cmds'[i] = cmds[i] /\ i < len
  BY <1>1, Appended
<1>4. cmd.type = "Create" /\ cmd.entity = Pending(n) /\ IsPending(Pending(n))
      /\ Pending(n).index - PendingBase = n
  BY <1>2, NameableIs
<1>5. Issued' = Issued
  BY <1>1, StutterRefines
<1>6. Nameable \subseteq Nameable' /\ Pending(n) \in Nameable'
  BY <1>1, <1>2, <1>5 DEF Nameable, Pending, PendingBase
<1>7. cmds' \in Seq(Command')
  <2>1. cmds \in Seq(Command')
    BY <1>6, CommandGrows DEF Recorded
  <2>2. cmd \in Command'
    BY <1>6 DEF Command
  <2>3. QED
    BY <1>1, <2>1, <2>2
<1>8. \A i \in DOMAIN cmds : cmds[i].entity # Pending(n)
  <2>1. ASSUME NEW i \in DOMAIN cmds, IsPending(cmds[i].entity) PROVE cmds[i].entity # Pending(n)
    <3>1. cmds[i].entity.index - PendingBase \in 1..pendingCount
      BY <1>2, <2>1, CommandFields, NameableIs DEF Recorded
    <3>2. QED
      BY <1>2, <1>4, <3>1
  <2>2. QED
    BY <1>4, <2>1
<1> HIDE DEF cmd, len
<1>9. \A i \in DOMAIN cmds' : IsCreate(i)' => IsPending(cmds'[i].entity)
  BY <1>3, <1>4 DEF Recorded, IsCreate
<1>10. \A i \in DOMAIN cmds' : IsPending(cmds'[i].entity) =>
          \E j \in DOMAIN cmds' : j <= i /\ IsCreate(j)' /\ cmds'[j].entity = cmds'[i].entity
  <2>1. \E l \in DOMAIN cmds' : l = len /\ l <= l /\ IsCreate(l)'
    <3>1. cmds'[len].type = "Create" /\ len \in DOMAIN cmds'
      BY <1>3, <1>4
    <3>2. len <= len
      BY <1>3 DEF len
    <3>3. QED
      BY <3>1, <3>2 DEF IsCreate
  <2>2. \A i \in DOMAIN cmds : (IsCreate(i)' <=> IsCreate(i)) /\ cmds'[i].entity = cmds[i].entity
    BY <1>3 DEF IsCreate
  <2>3. ASSUME NEW i \in DOMAIN cmds, IsPending(cmds'[i].entity)
        PROVE  \E j \in DOMAIN cmds : j <= i /\ IsCreate(j)' /\ cmds'[j].entity = cmds'[i].entity
    BY <2>2, <2>3 DEF Recorded
  <2>4. QED
    BY <1>3, <2>1, <2>3
<1>11. \A k \in 1..n : \E i \in DOMAIN cmds' : IsCreate(i)' /\ Names(i, k)'
  <2>1. ASSUME NEW k \in 1..n PROVE \E i \in DOMAIN cmds' : IsCreate(i)' /\ Names(i, k)'
    <3>1. CASE k = n
      <4>1. cmds'[len].type = "Create" /\ cmds'[len].entity = Pending(n) /\ len \in DOMAIN cmds'
        BY <1>3, <1>4
      <4>2. QED
        BY <3>1, <4>1 DEF IsCreate, Names, Pending, PendingBase
    <3>2. CASE k # n
      <4>1. k \in 1..pendingCount
        BY <1>2, <3>2
      <4>2. PICK i \in DOMAIN cmds : IsCreate(i) /\ Names(i, k)
        BY <4>1 DEF Recorded
      <4>3. QED
        BY <1>3, <4>2 DEF IsCreate, Names, Pending, PendingBase
    <3>3. QED
      BY <3>1, <3>2
  <2>2. QED
    BY <2>1
<1>12. \A i, j \in DOMAIN cmds' :
          IsCreate(i)' /\ IsCreate(j)' /\ cmds'[i].entity = cmds'[j].entity => i = j
  BY <1>3, <1>4, <1>8 DEF Recorded, IsCreate
<1>13. Len(cmds') <= MaxCommands /\ at' \in 0..(Len(cmds') + 1)
  BY <1>1, <1>3, CommandsAssumption DEF len
<1>14. QED
  BY <1>1, <1>2, <1>7, <1>9, <1>10, <1>11, <1>12, <1>13 DEF Recorded, IsPending, PendingBase

(* So do the other recording functions, whose target is pending or real.   *)
LEMMA OtherRecorded ==
    ASSUME Recorded, NEW cmd \in Command, cmd.type # "Create", RecordOne(cmd)
    PROVE  Recorded'
<1> DEFINE len == Len(cmds) + 1
<1>1. /\ at = 0 /\ at' = 0 /\ Len(cmds) < MaxCommands /\ pendingCount' = pendingCount
      /\ cmds' = Append(cmds, cmd) /\ UNCHANGED vars
  BY DEF RecordOne, Recording
<1>2. /\ DOMAIN cmds = 1..Len(cmds) /\ Len(cmds) \in Nat /\ Len(cmds') = len
      /\ DOMAIN cmds' = DOMAIN cmds \union {len} /\ cmds'[len] = cmd
      /\ \A i \in DOMAIN cmds : cmds'[i] = cmds[i] /\ i < len
  BY <1>1, Appended
<1>3. Command' = Command
  <2>1. Issued' = Issued
    BY <1>1, StutterRefines
  <2>2. Nameable' = Nameable
    BY <1>1, <2>1 DEF Nameable, Pending, PendingBase
  <2>3. QED
    BY <2>2 DEF Command
<1>4. cmds' \in Seq(Command')
  BY <1>1, <1>3 DEF Recorded
<1>5. IsPending(cmd.entity) => \E j \in DOMAIN cmds : IsCreate(j) /\ cmds[j].entity = cmd.entity
  <2> SUFFICES ASSUME IsPending(cmd.entity)
               PROVE  \E j \in DOMAIN cmds : IsCreate(j) /\ cmds[j].entity = cmd.entity
    OBVIOUS
  <2> DEFINE k == cmd.entity.index - PendingBase
  <2>1. k \in 1..pendingCount /\ cmd.entity = Pending(k)
    BY CommandFields, NameableIs DEF Recorded
  <2>2. QED
    BY <2>1 DEF Recorded, Names
<1> HIDE DEF len
<1>6. \A i \in DOMAIN cmds' : IsCreate(i)' => i \in DOMAIN cmds /\ IsCreate(i)
  BY <1>2 DEF IsCreate
<1>7. \A i \in DOMAIN cmds : (IsCreate(i)' <=> IsCreate(i)) /\ cmds'[i].entity = cmds[i].entity
  BY <1>2 DEF IsCreate
<1>8. \A i \in DOMAIN cmds' : IsCreate(i)' => IsPending(cmds'[i].entity)
  BY <1>6, <1>7 DEF Recorded
<1>9. \A i \in DOMAIN cmds' : IsPending(cmds'[i].entity) =>
         \E j \in DOMAIN cmds' : j <= i /\ IsCreate(j)' /\ cmds'[j].entity = cmds'[i].entity
  <2>1. ASSUME NEW i \in DOMAIN cmds, IsPending(cmds'[i].entity)
        PROVE  \E j \in DOMAIN cmds : j <= i /\ IsCreate(j)' /\ cmds'[j].entity = cmds'[i].entity
    BY <1>7, <2>1 DEF Recorded
  <2>2. ASSUME IsPending(cmds'[len].entity)
        PROVE  \E j \in DOMAIN cmds : j <= len /\ IsCreate(j)' /\ cmds'[j].entity = cmds'[len].entity
    BY <1>2, <1>5, <1>7, <2>2
  <2>3. QED
    BY <1>2, <2>1, <2>2
<1>10. \A k \in 1..pendingCount : \E i \in DOMAIN cmds' : IsCreate(i)' /\ Names(i, k)'
  BY <1>2, <1>7 DEF Recorded, Names, Pending, PendingBase
<1>11. \A i, j \in DOMAIN cmds' :
          IsCreate(i)' /\ IsCreate(j)' /\ cmds'[i].entity = cmds'[j].entity => i = j
  BY <1>6, <1>7 DEF Recorded
<1>12. Len(cmds') <= MaxCommands /\ at' \in 0..(Len(cmds') + 1)
  BY <1>1, <1>2, CommandsAssumption DEF len
<1>13. QED
  BY <1>1, <1>4, <1>8, <1>9, <1>10, <1>11, <1>12 DEF Recorded, IsPending, PendingBase

(* Every step keeps the record of the batch in shape.                      *)
LEMMA RecordedNext ==
    ASSUME Consistent, Recorded, Mapped, BufferNext
    PROVE  Recorded'
<1>1. CASE RecordCreate
  BY <1>1, CreateRecorded
<1>2. ASSUME NEW e \in Nameable, NEW cmd,
             \/ cmd = [type |-> "Destroy", entity |-> e]
             \/ \E c \in Components :
                   \/ cmd = [type |-> "Remove", entity |-> e, component |-> c]
                   \/ \E v \in Values :
                         cmd = [type |-> "Add", entity |-> e, component |-> c, value |-> v],
             RecordOne(cmd)
      PROVE  Recorded'
  <2>1. cmd \in Command /\ cmd.type # "Create"
    BY <1>2 DEF Command
  <2>2. QED
    BY <1>2, <2>1, OtherRecorded
<1>3. CASE Direct \/ FlushBegin \/ FlushNext
  <2>1. /\ UNCHANGED <<cmds, pendingCount>>
        /\ at' \in 0..(Len(cmds) + 1)
    BY <1>3 DEF Direct, buffer, FlushBegin, FlushNext, Recorded
  <2>2. Nameable \subseteq Nameable'
    <3>1. Issued \subseteq Issued'
      BY WorldSteps, StepIssues
    <3>2. QED
      BY <2>1, <3>1 DEF Nameable, Pending, PendingBase
  <2>3. cmds' \in Seq(Command')
    BY <2>1, <2>2, CommandGrows DEF Recorded
  <2>4. QED
    BY <2>1, <2>3 DEF Recorded, IsPending, IsCreate, Names, Pending, PendingBase
<1>4. CASE FlushEnd
  <2>1. cmds' = <<>> /\ pendingCount' = 0 /\ at' = 0
    BY <1>4 DEF FlushEnd
  <2>2. DOMAIN cmds' = {} /\ Len(cmds') = 0 /\ cmds' \in Seq(Command') /\ 1..pendingCount' = {}
    BY <2>1
  <2>3. QED
    BY <2>1, <2>2, CommandsAssumption DEF Recorded
<1>5. QED
  BY <1>1, <1>2, <1>3, <1>4 DEF BufferNext
------------------------------------------------------------------------------
(* The map, and through it the names that commands resolve to.             *)
LEMMA OneCreate ==
    ASSUME Recorded, Mapped, at \in DOMAIN cmds, IsCreate(at),
           NEW n, n = cmds[at].entity.index - PendingBase
    PROVE  n \in 1..pendingCount /\ Names(at, n) /\ n \notin DOMAIN pendingMap
<1>1. IsPending(cmds[at].entity) /\ cmds[at].entity \in Nameable
  BY CommandFields DEF Recorded
<1>2. n \in 1..pendingCount /\ cmds[at].entity = Pending(n)
  BY <1>1, NameableIs DEF Recorded
<1>3. \A i \in DOMAIN cmds : IsCreate(i) /\ Names(i, n) => i = at
  BY <1>2 DEF Recorded, Names
<1>4. at \in Int
  BY DEF Recorded
<1>5. QED
  BY <1>2, <1>3, <1>4 DEF Mapped, Names

(* Every step keeps flush()'s map: one entry for each pending entity       *)
(* created so far, no entity twice.                                        *)
LEMMA MappedNext ==
    ASSUME Consistent, Recorded, Mapped, FlushNext
    PROVE  Mapped'
<1>1. /\ at \in DOMAIN cmds /\ Apply(cmds[at]) /\ at' = at + 1
      /\ cmds' = cmds /\ pendingCount' = pendingCount
  BY DEF FlushNext
<1>2. /\ at \in 1..Len(cmds) /\ DOMAIN cmds = 1..Len(cmds) /\ Len(cmds) \in Nat
      /\ at' # 0
  BY <1>1 DEF Recorded
<1>3. Issued \subseteq Issued'
  BY FlushSteps, StepIssues
<1>4. \A i \in DOMAIN cmds : i < at' <=> i < at \/ i = at
  BY <1>1, <1>2
<1>5. \A i \in DOMAIN cmds : IsCreate(i)' <=> IsCreate(i)
  BY <1>1 DEF IsCreate
<1>6. \A i \in DOMAIN cmds, k \in 1..pendingCount : Names(i, k)' <=> Names(i, k)
  BY <1>1 DEF Names, Pending, PendingBase
<1>7. CASE ~IsCreate(at)
  <2>1. pendingMap' = pendingMap
    <3>1. PICK cmd \in Command : cmd = cmds[at]
      BY <1>1 DEF Recorded
    <3>2. PICK e \in Issued : e = Resolve(cmd.entity)
      BY <1>1, <1>7, <3>1, ResolvedIsIssued
    <3>3. QED
      BY <1>1, <1>7, <3>1, <3>2, ApplyOther DEF IsCreate
  <2>2. \A k \in 1..pendingCount :
           k \in DOMAIN pendingMap <=>
               \E i \in DOMAIN cmds : i < at' /\ IsCreate(i)' /\ Names(i, k)'
    BY <1>4, <1>5, <1>6, <1>7 DEF Mapped
  <2>3. QED
    BY <1>1, <1>2, <1>3, <2>1, <2>2 DEF Mapped
<1>8. CASE IsCreate(at)
  <2>1. PICK n : n = cmds[at].entity.index - PendingBase
    OBVIOUS
  <2>2. n \in 1..pendingCount /\ Names(at, n) /\ n \notin DOMAIN pendingMap
    BY <1>1, <1>8, <2>1, OneCreate
  <2>3. PICK cmd : cmd = cmds[at]
    OBVIOUS
  <2>4. ApplyCreate(cmd)
    BY <1>1, <1>8, <2>3 DEF Apply, Skipped, IsCreate
  <2>5. PICK h \in Handles \ Issued :
           /\ Issued' = Issued \union {h}
           /\ DOMAIN pendingMap' = DOMAIN pendingMap \union {n}
           /\ pendingMap'[n] = h
           /\ \A j \in DOMAIN pendingMap \ {n} : pendingMap'[j] = pendingMap[j]
    BY <2>1, <2>3, <2>4, CreateMaps
  <2>6. \A k \in 1..pendingCount :
           k \in DOMAIN pendingMap' <=>
               \E i \in DOMAIN cmds : i < at' /\ IsCreate(i)' /\ Names(i, k)'
    <3>1. ASSUME NEW k \in 1..pendingCount
          PROVE  k \in DOMAIN pendingMap' <=>
                     \E i \in DOMAIN cmds : i < at' /\ IsCreate(i)' /\ Names(i, k)'
      <4>1. Names(at, k) <=> k = n
        BY <2>2, NameableIs DEF Names, Recorded
      <4>2. k \in DOMAIN pendingMap <=> \E i \in DOMAIN cmds : i < at /\ IsCreate(i) /\ Names(i, k)
        BY DEF Mapped
      <4>3. QED
        BY <1>1, <1>4, <1>5, <1>6, <1>8, <2>5, <4>1, <4>2
    <3>2. QED
      BY <3>1
  <2>7. \A i \in DOMAIN cmds : cmds[i].entity # h
    <3>1. \A i \in DOMAIN cmds : cmds[i].entity \in Nameable
      BY CommandFields DEF Recorded
    <3>2. ~IsPending(h)
      BY BoundsAssumption DEF IsPending, PendingBase, Handles
    <3>3. \A e \in Nameable : e \in Issued \/ IsPending(e)
      BY NameableIs DEF Nameable, Recorded
    <3>4. QED
      BY <2>5, <3>1, <3>2, <3>3
  <2>8. \A k \in DOMAIN pendingMap : pendingMap'[k] = pendingMap[k] /\ pendingMap[k] \in Issued
    BY <2>2, <2>5 DEF Mapped
  <2>9. /\ DOMAIN pendingMap' \subseteq 1..pendingCount
        /\ \A k \in DOMAIN pendingMap' : pendingMap'[k] \in Issued'
    BY <2>2, <2>5, <2>8 DEF Mapped
  <2>10. \A j, k \in DOMAIN pendingMap' : pendingMap'[j] = pendingMap'[k] => j = k
    BY <2>5, <2>8 DEF Mapped
  <2>11. \A k \in DOMAIN pendingMap' : \A i \in DOMAIN cmds : cmds[i].entity # pendingMap'[k]
    BY <2>5, <2>7, <2>8 DEF Mapped
  <2>12. QED
    BY <1>1, <1>2, <2>6, <2>9, <2>10, <2>11 DEF Mapped
<1>9. QED
  BY <1>7, <1>8

(* Outside flush() and at its first command nothing is resolved yet.       *)
LEMMA NothingMapped ==
    ASSUME Recorded', pendingMap' = <<>>, at' \in {0, 1}
    PROVE  Mapped' /\ Fates'
<1>1. DOMAIN pendingMap' = {} /\ DOMAIN cmds' \subseteq Nat \ {0}
  BY DEF Recorded
<1>2. \A i \in DOMAIN cmds' : ~(i < at')
  BY <1>1
<1>3. QED
  BY <1>1, <1>2 DEF Mapped, Fates
------------------------------------------------------------------------------
(* The fate of a pending entity, one command further.                      *)
LEMMA Unnamed ==
    ASSUME Recorded, NEW p \in DOMAIN cmds, NEW k, NEW c, p \notin Changes(k, c)
    PROVE  /\ \A i : Holds(i, p, k, c) => Holds(i, p + 1, k, c)
           /\ AllUndone(p, k, c) => AllUndone(p + 1, k, c)
<1>1. DOMAIN cmds \subseteq Int /\ Changes(k, c) \subseteq DOMAIN cmds
  BY DEF Recorded, Changes
<1>2. \A i \in DOMAIN cmds : i < p + 1 <=> i < p \/ i = p
  BY <1>1
<1>3. \A j : Undone(j, p + 1, k, c) <=> Undone(j, p, k, c)
  BY <1>1, <1>2 DEF Undone
<1>4. QED
  BY <1>1, <1>2, <1>3 DEF Holds, AllUndone

(* After an Add the value that stayed still stays; if none did, the new    *)
(* one does.                                                               *)
LEMMA Added ==
    ASSUME Recorded, NEW p \in DOMAIN cmds, NEW k, NEW c, p \in Changes(k, c), IsAdd(p)
    PROVE  /\ \A i : Holds(i, p, k, c) => Holds(i, p + 1, k, c)
           /\ AllUndone(p, k, c) => Holds(p, p + 1, k, c)
<1>1. DOMAIN cmds \subseteq Int /\ Changes(k, c) \subseteq DOMAIN cmds
  BY DEF Recorded, Changes
<1>2. \A i \in DOMAIN cmds : (i < p + 1 <=> i < p \/ i = p) /\ ~(p < i /\ i < p + 1)
  BY <1>1
<1>3. \A j : Undone(j, p + 1, k, c) <=> Undone(j, p, k, c)
  BY <1>1, <1>2 DEF Undone
<1>4. ~Undone(p, p, k, c)
  BY <1>1 DEF Undone
<1>5. QED
  BY <1>1, <1>2, <1>3, <1>4 DEF Holds, AllUndone

(* After a Remove no value of its component stays.                         *)
LEMMA Removed ==
    ASSUME Recorded, NEW p \in DOMAIN cmds, NEW k, NEW c, p \in Changes(k, c), ~IsAdd(p)
    PROVE  AllUndone(p + 1, k, c)
<1>1. DOMAIN cmds \subseteq Int /\ Changes(k, c) \subseteq DOMAIN cmds
  BY DEF Recorded, Changes
<1>2. \A i \in DOMAIN cmds : (i < p + 1 <=> i < p \/ i = p) /\ p < p + 1
  BY <1>1
<1>3. QED
  BY <1>1, <1>2 DEF AllUndone, Undone

(* One more command destroys what was destroyed, and what it names itself. *)
LEMMA GoneFurther ==
    ASSUME Recorded, NEW p \in DOMAIN cmds, NEW k
    PROVE  GoneBefore(p + 1, k) <=>
              GoneBefore(p, k) \/ (cmds[p].type = "Destroy" /\ Names(p, k))
<1>1. DOMAIN cmds \subseteq Int
  BY DEF Recorded
<1>2. \A i \in DOMAIN cmds : i < p + 1 <=> i < p \/ i = p
  BY <1>1
<1>3. QED
  BY <1>2 DEF GoneBefore

(* What the batch says is rigid while the batch stands.                    *)
LEMMA SameBatch ==
    ASSUME cmds' = cmds
    PROVE  \A p, k : /\ GoneBefore(p, k)' <=> GoneBefore(p, k)
                     /\ \A c : AllUndone(p, k, c)' <=> AllUndone(p, k, c)
                     /\ \A c, i : Holds(i, p, k, c)' <=> Holds(i, p, k, c)
<1>1. \A i, k : Names(i, k)' <=> Names(i, k)
  BY DEF Names, Pending, PendingBase
<1>2. \A k, c : Changes(k, c)' = Changes(k, c)
  BY <1>1 DEF Changes
<1>3. \A i : IsAdd(i)' <=> IsAdd(i)
  BY DEF IsAdd
<1>4. \A j, p, k, c : Undone(j, p, k, c)' <=> Undone(j, p, k, c)
  BY <1>2, <1>3 DEF Undone
<1>5. QED
  BY <1>1, <1>2, <1>3, <1>4 DEF GoneBefore, AllUndone, Holds

(* An entity changed as command p says, or left alone when p is not about  *)
(* it, has the fate of the commands up to and including p.                 *)
LEMMA FateFollows ==
    ASSUME Recorded, cmds' = cmds, NEW p \in DOMAIN cmds, NEW k, NEW e, FateOf(e, p, k),
           IsAlive(e)' <=> IsAlive(e) /\ ~(cmds[p].type = "Destroy" /\ Names(p, k)),
           IsAlive(e)' => \A c \in Components :
              \/ /\ p \notin Changes(k, c)
                 /\ c \in DOMAIN RowOf(e)'.value <=> c \in DOMAIN RowOf(e).value
                 /\ c \in DOMAIN RowOf(e).value => RowOf(e)'.value[c] = RowOf(e).value[c]
              \/ /\ p \in Changes(k, c) /\ IsAdd(p)
                 /\ c \in DOMAIN RowOf(e)'.value
                 /\ RowOf(e)'.value[c] = IF c \in DOMAIN RowOf(e).value THEN RowOf(e).value[c]
                                                                    ELSE cmds[p].value
              \/ p \in Changes(k, c) /\ ~IsAdd(p) /\ c \notin DOMAIN RowOf(e)'.value
    PROVE  FateOf(e, p + 1, k)'
<1>1. IsAlive(e)' <=> ~GoneBefore(p + 1, k)
  BY GoneFurther DEF FateOf
<1>2. ASSUME IsAlive(e)', NEW c \in Components
      PROVE  \/ /\ c \in DOMAIN RowOf(e)'.value
                /\ \E i \in DOMAIN cmds :
                      Holds(i, p + 1, k, c) /\ RowOf(e)'.value[c] = cmds[i].value
             \/ c \notin DOMAIN RowOf(e)'.value /\ AllUndone(p + 1, k, c)
  <2>1. \/ /\ c \in DOMAIN RowOf(e).value
           /\ \E i \in DOMAIN cmds : Holds(i, p, k, c) /\ RowOf(e).value[c] = cmds[i].value
        \/ c \notin DOMAIN RowOf(e).value /\ AllUndone(p, k, c)
    BY <1>2 DEF FateOf
  <2>2. CASE p \notin Changes(k, c)
    BY <1>2, <2>1, <2>2, Unnamed
  <2>3. CASE p \in Changes(k, c) /\ IsAdd(p)
    BY <1>2, <2>1, <2>3, Added
  <2>4. CASE p \in Changes(k, c) /\ ~IsAdd(p)
    BY <1>2, <2>4, Removed
  <2>5. QED
    BY <2>2, <2>3, <2>4
<1>3. IsAlive(e)' <=> ~GoneBefore(p + 1, k)'
  BY <1>1, SameBatch
<1>4. IsAlive(e)' => \A c \in Components :
         \/ /\ c \in DOMAIN RowOf(e)'.value
            /\ \E i \in DOMAIN cmds :
                  Holds(i, p + 1, k, c)' /\ RowOf(e)'.value[c] = cmds[i].value
         \/ c \notin DOMAIN RowOf(e)'.value /\ AllUndone(p + 1, k, c)'
  BY <1>2, SameBatch
<1>5. QED
  BY <1>3, <1>4 DEF FateOf

(* A handle is alive when it is the one its slot has now.                  *)
LEMMA AliveIs ==
    /\ \A e \in Handles : IsAlive(e) <=> e \in Alive
    /\ \A e \in Handles : IsAlive(e)' <=> e \in Alive'
<1>1. \A e \in Handles : IsAlive(e) <=> e \in Alive
  BY DEF IsAlive, Alive, Handle, Handles
<1>2. \A e \in Handles : IsAlive(e)' <=> e \in Alive'
  BY DEF IsAlive, Alive, Handle, Handles
<1>3. QED
  BY <1>1, <1>2

(* What the step of flush() leaves alone.                                  *)
LEMMA OthersUntouched ==
    ASSUME Consistent, Recorded, Mapped, FlushNext
    PROVE  /\ \A h \in Alive : IsCreate(at) \/ h # Resolve(cmds[at].entity) =>
                 h \in Alive' /\ RowOf(h)' = RowOf(h)
           /\ \A h \in Issued : h \in Alive' => h \in Alive
<1>1. at \in DOMAIN cmds /\ Apply(cmds[at])
  BY DEF FlushNext
<1>2. PICK cmd \in Command : cmd = cmds[at]
  BY <1>1 DEF Recorded
<1>3. CASE IsCreate(at)
  <2>1. ApplyCreate(cmd)
    BY <1>1, <1>2, <1>3 DEF Apply, Skipped, IsCreate
  <2>2. PICK n : n = cmd.entity.index - PendingBase
    OBVIOUS
  <2>3. PICK h \in Handles \ Issued :
           Alive' = Alive \union {h} /\ \A k \in Alive : RowOf(k)' = RowOf(k)
    BY <2>1, <2>2, CreateMaps
  <2>4. QED
    BY <1>3, <2>3
<1>4. CASE ~IsCreate(at)
  <2>1. PICK e \in Issued : e = Resolve(cmd.entity)
    BY <1>1, <1>2, <1>4, ResolvedIsIssued
  <2>2. \/ UNCHANGED vars
        \/ e \in Alive /\ cmd.type = "Destroy" /\ DestroyEntity(e)
        \/ e \in Alive /\ cmd.type = "Add" /\ AddComponent(e, cmd.component, cmd.value)
        \/ e \in Alive /\ cmd.type = "Remove" /\ RemoveComponent(e, cmd.component)
    BY <1>1, <1>2, <1>4, <2>1, ApplyOther DEF IsCreate
  <2>3. ASSUME UNCHANGED vars
        PROVE  Alive' = Alive /\ \A h \in Alive : RowOf(h)' = RowOf(h)
    BY <2>3 DEF vars, Alive, RowOf, Handle, Slots
  <2>4. ASSUME e \in Alive, NEW value, OnlyHolds(e, value)
        PROVE  Alive' = Alive /\ \A h \in Alive \ {e} : RowOf(h)' = RowOf(h)
    BY <2>4 DEF OnlyHolds
  <2>5. /\ Alive' \subseteq Alive
        /\ \A h \in Alive \ {e} : h \in Alive' /\ RowOf(h)' = RowOf(h)
    <3>1. CASE UNCHANGED vars
      BY <2>3, <3>1
    <3>2. CASE e \in Alive /\ cmd.type = "Destroy" /\ DestroyEntity(e)
      BY <3>2, DestroyEffect
    <3>3. CASE e \in Alive /\ cmd.type = "Add" /\ AddComponent(e, cmd.component, cmd.value)
      BY <2>4, <3>3, AddEffect, CommandFields
    <3>4. CASE e \in Alive /\ cmd.type = "Remove" /\ RemoveComponent(e, cmd.component)
      BY <2>4, <3>4, RemoveEffect, CommandFields
    <3>5. QED
      BY <2>2, <3>1, <3>2, <3>3, <3>4
  <2>6. QED
    BY <1>2, <1>4, <2>1, <2>5
<1>5. QED
  BY <1>3, <1>4

(* A command that does not name k does not resolve to k's entity, and one  *)
(* that does is no Create.                                                 *)
LEMMA ResolvesToNamed ==
    ASSUME Consistent, Recorded, Mapped, at \in DOMAIN cmds, NEW k \in DOMAIN pendingMap
    PROVE  /\ Names(at, k) => ~IsCreate(at) /\ Resolve(cmds[at].entity) = pendingMap[k]
           /\ ~Names(at, k) /\ ~IsCreate(at) => Resolve(cmds[at].entity) # pendingMap[k]
<1>1. k \in Nat \ {0} /\ k \in 1..pendingCount
  BY DEF Mapped, Recorded
<1>2. IsPending(Pending(k)) /\ Pending(k).index - PendingBase = k
  BY <1>1, NameableIs
<1>3. Names(at, k) => ~IsCreate(at) /\ Resolve(cmds[at].entity) = pendingMap[k]
  <2>1. Names(at, k) /\ IsCreate(at) => k \notin DOMAIN pendingMap
    BY <1>2, OneCreate DEF Names
  <2>2. QED
    BY <1>2, <2>1 DEF Names, Resolve
<1>4. ASSUME ~Names(at, k), ~IsCreate(at)
      PROVE  Resolve(cmds[at].entity) # pendingMap[k]
  <2>1. cmds[at].entity \in Nameable
    BY CommandFields DEF Recorded
  <2>2. CASE ~IsPending(cmds[at].entity)
    BY <2>2 DEF Resolve, Mapped
  <2>3. CASE IsPending(cmds[at].entity)
    <3> DEFINE j == cmds[at].entity.index - PendingBase
    <3>1. j \in 1..pendingCount /\ cmds[at].entity = Pending(j)
      BY <2>1, <2>3, NameableIs DEF Recorded
    <3>2. j # k
      BY <1>4, <3>1 DEF Names
    <3>3. PICK i \in DOMAIN cmds : i <= at /\ IsCreate(i) /\ cmds[i].entity = cmds[at].entity
      BY <2>3 DEF Recorded
    <3>4. i < at
      BY <1>4, <3>3 DEF Recorded
    <3>5. j \in DOMAIN pendingMap
      BY <3>1, <3>3, <3>4 DEF Mapped, Names
    <3>6. QED
      BY <2>3, <3>2, <3>5 DEF Mapped, Resolve
  <2>4. QED
    BY <2>2, <2>3
<1>5. QED
  BY <1>3, <1>4

(* The entity of k, when the command names another one.                    *)
LEMMA FateOther ==
    ASSUME Consistent, Recorded, Mapped, Fates, FlushNext, NEW p, p = at,
           NEW k \in DOMAIN pendingMap, NEW e, e = pendingMap[k], ~Names(p, k)
    PROVE  FateOf(e, p + 1, k)'
<1>1. p \in DOMAIN cmds /\ cmds' = cmds
  BY DEF FlushNext
<1>2. e \in Issued /\ e \in Handles /\ FateOf(e, p, k)
  BY NameableIs DEF Mapped, Fates
<1>3. IsCreate(at) \/ e # Resolve(cmds[at].entity)
  BY <1>1, ResolvesToNamed
<1>4. e \in Alive' <=> e \in Alive
  BY <1>2, <1>3, OthersUntouched
<1>5. e \in Alive => RowOf(e)' = RowOf(e)
  BY <1>3, OthersUntouched
<1>6. IsAlive(e)' <=> IsAlive(e) /\ ~(cmds[p].type = "Destroy" /\ Names(p, k))
  BY <1>2, <1>4, AliveIs
<1>7. \A c \in Components : p \notin Changes(k, c)
  BY DEF Changes
<1>8. IsAlive(e)' => RowOf(e)' = RowOf(e)
  BY <1>2, <1>4, <1>5, AliveIs
<1>9. QED
  BY <1>1, <1>2, <1>6, <1>7, <1>8, FateFollows

(* The entity of k, when the command names it.                             *)
LEMMA FateNamed ==
    ASSUME Consistent, Recorded, Mapped, Fates, FlushNext, NEW p, p = at,
           NEW k \in DOMAIN pendingMap, NEW e, e = pendingMap[k], Names(p, k)
    PROVE  FateOf(e, p + 1, k)'
<1>1. p \in DOMAIN cmds /\ cmds' = cmds /\ Apply(cmds[p])
  BY DEF FlushNext
<1>2. e \in Issued /\ e \in Handles /\ FateOf(e, p, k)
  BY NameableIs DEF Mapped, Fates
<1>3. PICK cmd \in Command : cmd = cmds[p]
  BY <1>1 DEF Recorded
<1>4. cmd.type # "Create" /\ e = Resolve(cmd.entity)
  BY <1>1, <1>3, ResolvesToNamed DEF IsCreate
<1>5. \/ /\ UNCHANGED vars
         /\ e \in Alive /\ cmd.type = "Add" => cmd.component \in Source(e)
         /\ e \in Alive /\ cmd.type = "Remove" => cmd.component \notin Source(e)
         /\ e \in Alive => cmd.type # "Destroy"
      \/ e \in Alive /\ cmd.type = "Destroy" /\ DestroyEntity(e)
      \/ e \in Alive /\ cmd.type = "Add" /\ AddComponent(e, cmd.component, cmd.value)
      \/ e \in Alive /\ cmd.type = "Remove" /\ RemoveComponent(e, cmd.component)
  BY <1>1, <1>2, <1>3, <1>4, ApplyOther
<1>6. /\ cmd.type \in {"Destroy", "Add", "Remove"}
      /\ cmd.type \in {"Add", "Remove"} => cmd.component \in Components
      /\ cmd.type = "Add" => cmd.value \in Values
  BY <1>4, CommandFields
<1>7. \A c \in Components :
         p \in Changes(k, c) <=> cmd.type \in {"Add", "Remove"} /\ cmd.component = c
  BY <1>1, <1>3 DEF Changes
<1>8. IsAdd(p) <=> cmd.type = "Add"
  BY <1>3 DEF IsAdd
<1>9. e \in Alive => DOMAIN RowOf(e).value = Source(e)
  BY LivingRow
<1>10. CASE /\ UNCHANGED vars /\ e \in Alive /\ cmd.type # "Destroy"
            /\ cmd.type = "Add" => cmd.component \in Source(e)
            /\ cmd.type = "Remove" => cmd.component \notin Source(e)
  <2>1. RowOf(e)' = RowOf(e) /\ (IsAlive(e)' <=> IsAlive(e))
    BY <1>10 DEF vars, RowOf, IsAlive, Slots
  <2>2. \A c \in Components :
           \/ p \notin Changes(k, c)
           \/ p \in Changes(k, c) /\ IsAdd(p) /\ c \in DOMAIN RowOf(e).value
           \/ p \in Changes(k, c) /\ ~IsAdd(p) /\ c \notin DOMAIN RowOf(e).value
    BY <1>6, <1>7, <1>8, <1>9, <1>10
  <2>3. QED
    BY <1>1, <1>2, <1>3, <1>10, <2>1, <2>2, FateFollows
<1>11. CASE e \notin Alive
  <2>1. ~IsAlive(e) /\ ~IsAlive(e)'
    BY <1>2, <1>11, OthersUntouched, AliveIs
  <2>2. QED
    BY <1>1, <1>2, <2>1, FateFollows
<1>12. CASE e \in Alive /\ cmd.type = "Destroy" /\ DestroyEntity(e)
  <2>1. ~IsAlive(e)'
    BY <1>2, <1>12, DestroyEffect, AliveIs
  <2>2. QED
    BY <1>1, <1>2, <1>3, <1>12, <2>1, FateFollows
<1>13. CASE e \in Alive /\ cmd.type = "Add" /\ AddComponent(e, cmd.component, cmd.value)
  <2> DEFINE value == [c \in Source(e) \union {cmd.component} |->
                          IF c = cmd.component THEN cmd.value ELSE RowOf(e).value[c]]
  <2>1. cmd.component \notin Source(e) /\ OnlyHolds(e, value)
    BY <1>6, <1>13, AddEffect
  <2>2. RowOf(e)'.value = value /\ Alive' = Alive
    BY <2>1 DEF OnlyHolds
  <2>3. IsAlive(e)' /\ IsAlive(e)
    BY <1>2, <1>13, <2>2, AliveIs
  <2>4. ASSUME NEW c \in Components
        PROVE  \/ /\ p \notin Changes(k, c)
                  /\ c \in DOMAIN RowOf(e)'.value <=> c \in DOMAIN RowOf(e).value
                  /\ c \in DOMAIN RowOf(e).value => RowOf(e)'.value[c] = RowOf(e).value[c]
               \/ /\ p \in Changes(k, c) /\ IsAdd(p)
                  /\ c \in DOMAIN RowOf(e)'.value
                  /\ RowOf(e)'.value[c] = IF c \in DOMAIN RowOf(e).value THEN RowOf(e).value[c]
                                                                        ELSE cmds[p].value
    BY <1>3, <1>7, <1>8, <1>9, <1>13, <2>1, <2>2
  <2>5. QED
    BY <1>1, <1>2, <1>3, <1>13, <2>3, <2>4, FateFollows
<1>14. CASE e \in Alive /\ cmd.type = "Remove" /\ RemoveComponent(e, cmd.component)
  <2> DEFINE value == [c \in Source(e) \ {cmd.component} |-> RowOf(e).value[c]]
  <2>1. OnlyHolds(e, value)
    BY <1>6, <1>14, RemoveEffect
  <2>2. RowOf(e)'.value = value /\ Alive' = Alive
    BY <2>1 DEF OnlyHolds
  <2>3. IsAlive(e)' /\ IsAlive(e)
    BY <1>2, <1>14, <2>2, AliveIs
  <2>4. ASSUME NEW c \in Components
        PROVE  \/ /\ p \notin Changes(k, c)
                  /\ c \in DOMAIN RowOf(e)'.value <=> c \in DOMAIN RowOf(e).value
                  /\ c \in DOMAIN RowOf(e).value => RowOf(e)'.value[c] = RowOf(e).value[c]
               \/ p \in Changes(k, c) /\ ~IsAdd(p) /\ c \notin DOMAIN RowOf(e)'.value
    BY <1>7, <1>8, <1>9, <1>14, <2>2
  <2>5. QED
    BY <1>1, <1>2, <1>3, <1>14, <2>3, <2>4, FateFollows
<1>15. QED
  BY <1>5, <1>10, <1>11, <1>12, <1>13, <1>14

(* The entity that a Create has just made.                                 *)
LEMMA FateCreated ==
    ASSUME Consistent, Recorded, Mapped, FlushNext, IsCreate(at), NEW p, p = at,
           NEW k, k = cmds[p].entity.index - PendingBase, NEW e, e = pendingMap'[k]
    PROVE  FateOf(e, p + 1, k)'
<1>1. p \in DOMAIN cmds /\ cmds' = cmds /\ Apply(cmds[p])
  BY DEF FlushNext
<1>2. PICK cmd : cmd = cmds[p]
  OBVIOUS
<1>3. ApplyCreate(cmd)
  BY <1>1, <1>2 DEF Apply, Skipped, IsCreate
<1>4. /\ e \in Handles /\ e \in Alive'
      /\ RowOf(e)' = [entity |-> e, value |-> [c \in {} |-> Default]]
  <2>1. k = cmd.entity.index - PendingBase
    BY <1>2
  <2>2. PICK h \in Handles \ Issued :
           /\ Alive' = Alive \union {h} /\ pendingMap'[k] = h
           /\ RowOf(h)' = [entity |-> h, value |-> [c \in {} |-> Default]]
    BY <1>3, <2>1, CreateMaps
  <2>3. h = e
    BY <2>2
  <2>4. QED
    BY <2>2, <2>3
<1>5. IsAlive(e)' /\ DOMAIN RowOf(e)'.value = {}
  BY <1>4, AliveIs
<1>6. Names(p, k)
  BY <1>1, OneCreate
<1>7. DOMAIN cmds \subseteq Int
  BY DEF Recorded
<1>8. \A i \in DOMAIN cmds : i < p + 1 /\ Names(i, k) => i = p
  <2>1. ASSUME NEW i \in DOMAIN cmds, i < p + 1, Names(i, k) PROVE i = p
    <3>1. cmds[i].entity = cmds[p].entity
      BY <1>6, <2>1 DEF Names
    <3>2. IsPending(cmds[i].entity)
      BY <1>1, <3>1 DEF Recorded
    <3>3. PICK j \in DOMAIN cmds : j <= i /\ IsCreate(j) /\ cmds[j].entity = cmds[i].entity
      BY <3>2 DEF Recorded
    <3>4. j = p
      BY <1>1, <3>1, <3>3 DEF Recorded
    <3>5. QED
      BY <1>1, <1>7, <2>1, <3>3, <3>4
  <2>2. QED
    BY <2>1
<1>9. ~GoneBefore(p + 1, k) /\ \A c : AllUndone(p + 1, k, c)
  BY <1>8 DEF GoneBefore, AllUndone, Changes, IsAdd, IsCreate
<1>10. ~GoneBefore(p + 1, k)' /\ \A c : AllUndone(p + 1, k, c)'
  BY <1>1, <1>9, SameBatch
<1>11. QED
  BY <1>5, <1>10 DEF FateOf

(* Every step keeps what the prefix of the batch has made of its entities. *)
LEMMA FatesNext ==
    ASSUME Consistent, Recorded, Mapped, Fates, FlushNext
    PROVE  Fates'
<1>1. PICK p : p = at
  OBVIOUS
<1>2. p \in DOMAIN cmds /\ at' = p + 1 /\ Apply(cmds[p])
  BY <1>1 DEF FlushNext
<1>3. ASSUME NEW k \in DOMAIN pendingMap, pendingMap'[k] = pendingMap[k],
             NEW e, e = pendingMap'[k]
      PROVE  FateOf(e, p + 1, k)'
  BY <1>1, <1>3, FateOther, FateNamed
<1>4. CASE ~IsCreate(at)
  <2>1. pendingMap' = pendingMap
    <3>1. PICK cmd \in Command : cmd = cmds[at]
      BY <1>1, <1>2 DEF Recorded
    <3>2. PICK e \in Issued : e = Resolve(cmd.entity)
      BY <1>1, <1>2, <1>4, <3>1, ResolvedIsIssued
    <3>3. QED
      BY <1>1, <1>2, <1>4, <3>1, <3>2, ApplyOther DEF IsCreate
  <2>2. QED
    BY <1>2, <1>3, <2>1 DEF Fates
<1>5. CASE IsCreate(at)
  <2>1. PICK cmd, n : cmd = cmds[at] /\ n = cmd.entity.index - PendingBase
    OBVIOUS
  <2>2. ApplyCreate(cmd) /\ n \notin DOMAIN pendingMap
    BY <1>1, <1>2, <1>5, <2>1, OneCreate DEF Apply, Skipped, IsCreate
  <2>3. /\ DOMAIN pendingMap' = DOMAIN pendingMap \union {n}
        /\ \A j \in DOMAIN pendingMap \ {n} : pendingMap'[j] = pendingMap[j]
    BY <2>1, <2>2, CreateMaps
  <2>4. \A e \in {pendingMap'[n]} : FateOf(e, p + 1, n)'
    BY <1>1, <1>5, <2>1, FateCreated
  <2>5. \A k \in DOMAIN pendingMap : \A e \in {pendingMap'[k]} : FateOf(e, p + 1, k)'
    BY <1>3, <2>2, <2>3
  <2>6. QED
    BY <1>2, <2>3, <2>4, <2>5 DEF Fates
<1>6. QED
  BY <1>4, <1>5
------------------------------------------------------------------------------
(* The invariant holds of an empty buffer and an empty World.              *)
LEMMA InitBuffer == BufferInit => BufferInv
<1> SUFFICES ASSUME BufferInit PROVE BufferInv
  OBVIOUS
<1>1. Consistent
  BY InitConsistent DEF BufferInit
<1>2. cmds = <<>> /\ pendingCount = 0 /\ pendingMap = <<>> /\ at = 0
  BY DEF BufferInit
<1>3. DOMAIN cmds = {} /\ Len(cmds) = 0 /\ cmds \in Seq(Command) /\ 1..pendingCount = {}
  BY <1>2
<1>4. Recorded
  BY <1>2, <1>3, CommandsAssumption DEF Recorded
<1>5. DOMAIN pendingMap = {}
  BY <1>2
<1>6. Mapped /\ Fates
  BY <1>2, <1>3, <1>5 DEF Mapped, Fates
<1>7. QED
  BY <1>1, <1>4, <1>6 DEF BufferInv

(* Every step of a flush, of recording and of direct calls keeps it.       *)
LEMMA StepBuffer == BufferInv /\ BufferNext => BufferInv'
<1> SUFFICES ASSUME BufferInv, BufferNext PROVE BufferInv'
  OBVIOUS
<1>1. Consistent /\ Recorded /\ Mapped /\ Fates
  BY DEF BufferInv
<1>2. Consistent'
  BY <1>1, WorldSteps, StepIssues
<1>3. Recorded'
  BY <1>1, RecordedNext
<1>4. CASE FlushNext
  BY <1>1, <1>2, <1>3, <1>4, MappedNext, FatesNext DEF BufferInv
<1>5. CASE ~FlushNext
  <2>1. pendingMap' = <<>> /\ at' \in {0, 1}
    BY <1>1, <1>5 DEF BufferNext, RecordCreate, RecordOne, Recording, Direct, buffer, FlushBegin,
                      FlushEnd, Mapped
  <2>2. QED
    BY <1>2, <1>3, <2>1, NothingMapped DEF BufferInv
<1>6. QED
  BY <1>4, <1>5

(* It speaks of nothing but the variables.                                 *)
LEMMA StutterBuffer == BufferInv /\ UNCHANGED allVars => BufferInv'
<1> SUFFICES ASSUME BufferInv, UNCHANGED <<entities, freeList, table, cmds, pendingCount, pendingMap, at>>
             PROVE  BufferInv'
  BY DEF allVars
<1>1. Consistent'
  BY StutterConsistent DEF vars, BufferInv
<1>2. Issued' = Issued /\ Nameable' = Nameable /\ Command' = Command
  <2>1. Issued' = Issued
    BY StutterRefines DEF vars
  <2>2. Nameable' = Nameable
    BY <2>1 DEF Nameable, Pending, PendingBase
  <2>3. QED
    BY <2>1, <2>2 DEF Command
<1>3. Recorded'
  BY <1>2 DEF BufferInv, Recorded, IsCreate, IsPending, PendingBase, Names, Pending
<1>4. Mapped'
  BY <1>2 DEF BufferInv, Mapped, IsCreate, Names, Pending, PendingBase
<1>5. \A e, p, k : FateOf(e, p, k)' <=> FateOf(e, p, k)
  <2>1. \A e : (IsAlive(e)' <=> IsAlive(e)) /\ RowOf(e)' = RowOf(e)
    BY DEF IsAlive, RowOf, Slots
  <2>2. QED
    BY <2>1, SameBatch DEF FateOf
<1>6. Fates'
  BY <1>5 DEF BufferInv, Fates
<1>7. QED
  BY <1>1, <1>3, <1>4, <1>6 DEF BufferInv

(* The inductive invariant: the World is consistent, the batch is as the   *)
(* recording functions leave it, flush()'s map is injective, and each      *)
(* entity made so far is what the prefix applied says                      *)
(* (CommandBuffer::flush).                                                 *)
THEOREM BufferInductive == BufferSpec => []BufferInv
<1>1. BufferInv /\ [BufferNext]_allVars => BufferInv'
  BY StepBuffer, StutterBuffer
<1>2. QED
  BY <1>1, InitBuffer, PTL DEF BufferSpec
------------------------------------------------------------------------------
(* Recording, direct changes and flushes keep records, rows and the free   *)
(* list consistent, and every recorded handle resolvable.                  *)
THEOREM BatchesKeepWorld == BufferSpec => []WorldConsistent
<1>1. BufferInv => WorldConsistent
  <2> SUFFICES ASSUME BufferInv PROVE WorldConsistent
    OBVIOUS
  <2>1. TypeOK /\ RecordsMatchRows /\ FreeListExact
    BY DEF BufferInv, Consistent
  <2>2. Len(cmds) <= MaxCommands /\ \A i \in DOMAIN cmds : cmds[i] \in Command
    BY DEF BufferInv, Recorded
  <2>3. \A k \in DOMAIN pendingMap : k \in 1..pendingCount /\ pendingMap[k] \in Handles
    BY NameableIs DEF BufferInv, Mapped
  <2>4. at \in 0..(Len(cmds) + 1) /\ (at = 0 => pendingMap = <<>>)
    BY DEF BufferInv, Recorded, Mapped
  <2>5. QED
    BY <2>1, <2>2, <2>3, <2>4 DEF WorldConsistent, BufferTypeOK
<1>2. QED
  BY <1>1, BufferInductive, PTL

(* What a whole batch makes of the entity it creates is what its own       *)
(* commands say, whatever else the batch and the World did.                *)
LEMMA AddersHold ==
    ASSUME Recorded, at = Len(cmds) + 1, NEW k, NEW c
    PROVE  /\ \A i : Holds(i, at, k, c) => i \in Adder(k, c) /\ \A j \in Adder(k, c) : j = i
           /\ AllUndone(at, k, c) => Adder(k, c) = {}
<1>1. /\ Changes(k, c) \subseteq DOMAIN cmds /\ DOMAIN cmds \subseteq Int
      /\ \A i \in DOMAIN cmds : i < at
  BY DEF Recorded, Changes
<1>2. \A r \in Changes(k, c) : cmds[r].type = "Remove" <=> ~IsAdd(r)
  BY DEF Changes, IsAdd
<1>3. \A i \in Changes(k, c) :
         ~Undone(i, at, k, c) <=> \A j \in Changes(k, c) : j > i => cmds[j].type = "Add"
  BY <1>1, <1>2 DEF Undone, IsAdd
<1>4. \A i, j \in Changes(k, c) :
         Undone(j, i, k, c) <=>
             \E r \in Changes(k, c) : j < r /\ r < i /\ cmds[r].type = "Remove"
  BY <1>2 DEF Undone
<1>5. \A i : i \in Adder(k, c) <=>
          /\ i \in Changes(k, c) /\ IsAdd(i) /\ ~Undone(i, at, k, c)
          /\ \A j \in Changes(k, c) : j < i /\ IsAdd(j) => Undone(j, i, k, c)
  BY <1>3, <1>4 DEF Adder, IsAdd
<1>6. \A i, j \in Adder(k, c) : ~(j < i)
  <2>1. \A i, j \in Changes(k, c) : Undone(j, i, k, c) => Undone(j, at, k, c)
    BY <1>1 DEF Undone
  <2>2. QED
    BY <1>5, <2>1
<1>7. \A i, j \in Adder(k, c) : i = j
  BY <1>1, <1>5, <1>6
<1>8. \A i : Holds(i, at, k, c) => i \in Adder(k, c)
  BY <1>5 DEF Holds
<1>9. AllUndone(at, k, c) => Adder(k, c) = {}
  BY <1>1, <1>5 DEF AllUndone
<1>10. QED
  BY <1>7, <1>8, <1>9

(* When flush() ends, an entity created by the batch lives or not, and     *)
(* holds the components and values, as the batch's own commands say,       *)
(* whatever was recycled or moved on the way.                              *)
THEOREM PendingEntitiesAsRecorded == BufferSpec => []PendingFate
<1>1. BufferInv => PendingFate
  <2> SUFFICES ASSUME BufferInv, at = Len(cmds) + 1, NEW k \in 1..pendingCount,
                      NEW e, e = pendingMap[k]
               PROVE  /\ IsAlive(e) <=> ~Gone(k)
                      /\ ~Gone(k) =>
                           /\ DOMAIN RowOf(e).value = {c \in Components : Adder(k, c) # {}}
                           /\ \A c \in Components : \A i \in Adder(k, c) :
                                  RowOf(e).value[c] = cmds[i].value
    BY DEF PendingFate
  <2>1. Consistent /\ Recorded /\ Mapped /\ Fates
    BY DEF BufferInv
  <2>2. \A i \in DOMAIN cmds : i < at
    BY <2>1 DEF Recorded
  <2>3. k \in DOMAIN pendingMap
    <3>1. PICK i \in DOMAIN cmds : IsCreate(i) /\ Names(i, k)
      BY <2>1 DEF Recorded
    <3>2. QED
      BY <2>1, <2>2, <3>1 DEF Mapped
  <2>4. FateOf(e, at, k) /\ e \in Handles
    BY <2>1, <2>3, NameableIs DEF Fates, Mapped
  <2>5. GoneBefore(at, k) <=> Gone(k)
    BY <2>2 DEF GoneBefore, Gone
  <2>6. ASSUME ~Gone(k)
        PROVE  /\ DOMAIN RowOf(e).value = {c \in Components : Adder(k, c) # {}}
               /\ \A c \in Components : \A i \in Adder(k, c) : RowOf(e).value[c] = cmds[i].value
    <3>1. e \in Alive
      BY <2>4, <2>5, <2>6, AliveIs DEF FateOf
    <3>2. DOMAIN RowOf(e).value \subseteq Components
      BY <2>1, <3>1, LivingRow DEF Masks
    <3>3. ASSUME NEW c \in Components
          PROVE  /\ c \in DOMAIN RowOf(e).value <=> Adder(k, c) # {}
                 /\ \A i \in Adder(k, c) : RowOf(e).value[c] = cmds[i].value
      <4>1. \/ /\ c \in DOMAIN RowOf(e).value
               /\ \E i \in DOMAIN cmds : Holds(i, at, k, c) /\ RowOf(e).value[c] = cmds[i].value
            \/ c \notin DOMAIN RowOf(e).value /\ AllUndone(at, k, c)
        BY <2>4, <2>5, <2>6 DEF FateOf
      <4>2. QED
        BY <2>1, <4>1, AddersHold
    <3>4. QED
      BY <3>2, <3>3
  <2>7. QED
    BY <2>4, <2>5, <2>6 DEF FateOf
<1>2. QED
  BY <1>1, BufferInductive, PTL

(* The World's own theorems hold of it under a command buffer: whatever    *)
(* the buffer does to the World is a step of the World.                    *)
LEMMA BufferStepsWorld == BufferInv /\ [BufferNext]_allVars => [Next]_vars
BY WorldSteps DEF BufferInv, allVars, vars

(* A handle that has died stays dead, through flushes and through calls    *)
(* outside of them (World::destroyEntity bumps the generation).            *)
THEOREM BatchesKeepHandlesDead == BufferSpec => StaleHandlesStayDead
<1>1. BufferInv /\ [BufferNext]_allVars => [NoRevival]_vars
  BY BufferStepsWorld, NextRevivesNone DEF BufferInv
<1>2. QED
  BY <1>1, BufferInductive, PTL DEF BufferSpec, StaleHandlesStayDead, NoRevival

(* The World under a command buffer implements the entity store: a command *)
(* of flush() is a step of the store or changes nothing.                   *)
THEOREM BatchesRefineStore == BufferSpec => Refinement
<1>1. BufferInv /\ [BufferNext]_allVars => [Abstract!Next]_(Abstract!vars)
  BY BufferStepsWorld, NextRefines, StutterRefines DEF BufferInv, Abstract!vars
<1>2. BufferInit => Abstract!Init
  BY InitRefines DEF BufferInit
<1>3. QED
  BY <1>1, <1>2, BufferInductive, PTL DEF BufferSpec, Refinement, Abstract!Spec

(* A command touches the entity it resolves to and no other.               *)
THEOREM CommandsTouchNamed == BufferSpec => TouchesNamed
<1> DEFINE Touch == (at \in DOMAIN cmds /\ at' = at + 1) =>
              \A h \in Alive : (cmds[at].type = "Create" \/ h # Resolve(cmds[at].entity)) =>
                  IsAlive(h)' /\ RowOf(h)' = RowOf(h)
<1>1. BufferInv /\ BufferNext => Touch
  <2> SUFFICES ASSUME BufferInv, BufferNext, at \in DOMAIN cmds, at' = at + 1,
                      NEW h \in Alive, cmds[at].type = "Create" \/ h # Resolve(cmds[at].entity)
               PROVE  IsAlive(h)' /\ RowOf(h)' = RowOf(h)
    OBVIOUS
  <2>1. Consistent /\ Recorded /\ Mapped /\ at \in 1..Len(cmds) /\ Len(cmds) \in Nat
    BY DEF BufferInv, Recorded
  <2>2. FlushNext
    <3>1. at # 0 /\ at # Len(cmds) + 1
      BY <2>1
    <3>2. ~RecordCreate /\ ~Direct /\ ~FlushBegin /\ ~FlushEnd /\ \A cmd : ~RecordOne(cmd)
      BY <3>1 DEF RecordCreate, RecordOne, Recording, Direct, FlushBegin, FlushEnd
    <3>3. QED
      BY <3>2 DEF BufferNext
  <2>3. h \in Alive' /\ RowOf(h)' = RowOf(h)
    BY <2>1, <2>2, OthersUntouched DEF IsCreate
  <2>4. h \in Handles
    BY <2>1, AliveIssued
  <2>5. QED
    BY <2>3, <2>4, AliveIs
<1>2. BufferInv /\ [BufferNext]_allVars => [Touch]_allVars
  BY <1>1
<1>3. QED
  BY <1>2, BufferInductive, PTL DEF BufferSpec, TouchesNamed, Touch
===============================================================================
