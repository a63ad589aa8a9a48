---------------------------- MODULE TaskScheduler ----------------------------
(***************************************************************************)
(* core/TaskScheduler: a fixed pool of worker threads over one queue.  One *)
(* client thread, the physics step in the engine, submits tasks, waits for *)
(* them and finally destroys the pool.  A step is one atomic operation of  *)
(* a thread: taking a mutex, the critical section, going to sleep on a     *)
(* condition variable, a notification, an access to an atomic.             *)
(***************************************************************************)
EXTENDS Integers, Sequences, FiniteSets, SequencesExt

CONSTANTS Workers,     \* worker threads, 2 to 8 of them
          Client,      \* the thread that owns the scheduler
          MaxTasks,    \* bound: tasks submitted
          Throwing,    \* the tasks whose function throws
          None         \* no thread, no task

ASSUME WorkersAssumption == Client \notin Workers /\ None \notin Workers \union {Client}
ASSUME TasksAssumption == MaxTasks \in Nat /\ Throwing \subseteq 1..MaxTasks /\ None \notin Nat

VARIABLES
    queue,        \* queue_, task numbers
    pending,      \* pending_
    stopping,     \* stopping_
    queueMutex,   \* the thread that holds queueMutex_, or None
    waitMutex,    \* the thread that holds waitMutex_, or None
    pc,           \* what each thread does next
    holding,      \* the task each worker has taken off the queue
    submitted,    \* tasks whose submit() has begun
    finished      \* history: tasks whose function has returned or thrown

poolVars == <<queue, pending, stopping, queueMutex, waitMutex, pc, holding,
              submitted, finished>>

Threads == Workers \union {Client}
Tasks   == 1..MaxTasks

WorkerPcs == {"lock", "test", "park", "asleep", "run", "count", "lockWait",
              "exited"}
ClientPcs == {"idle", "push", "notify", "lockWait", "test", "park", "asleep",
              "wakeAll", "join", "destroyed"}

Goto(t, label) == pc' = [pc EXCEPT ![t] = label]

(* Threads asleep on cv_ (workers) and on waitCv_ (the client).            *)
Sleepers == {w \in Workers : pc[w] = "asleep"}

(* notify_one and notify_all: a sleeper that is woken takes the mutex anew.*)
Woken(W) == [t \in Threads |-> IF t \in W THEN "lock" ELSE pc[t]]
------------------------------------------------------------------------------
PoolTypeOK ==
    /\ queue \in Seq(Tasks)
    /\ pending \in 0..MaxTasks
    /\ stopping \in BOOLEAN
    /\ queueMutex \in Threads \union {None}
    /\ waitMutex \in Threads \union {None}
    /\ pc \in [Threads -> WorkerPcs \union ClientPcs]
    /\ \A w \in Workers : pc[w] \in WorkerPcs
    /\ pc[Client] \in ClientPcs
    /\ holding \in [Workers -> Tasks \union {None}]
    /\ submitted \in 0..MaxTasks
    /\ finished \subseteq Tasks

PoolInit ==
    /\ queue = <<>>
    /\ pending = 0
    /\ stopping = FALSE
    /\ queueMutex = None
    /\ waitMutex = None
    /\ pc = [t \in Threads |-> IF t = Client THEN "idle" ELSE "lock"]
    /\ holding = [w \in Workers |-> None]
    /\ submitted = 0
    /\ finished = {}
------------------------------------------------------------------------------
(* submit(task): count it, push it under queueMutex_, notify_one.          *)
SubmitCount ==
    /\ pc[Client] = "idle" /\ submitted < MaxTasks
    /\ submitted' = submitted + 1
    /\ pending' = pending + 1
    /\ Goto(Client, "push")
    /\ UNCHANGED <<queue, stopping, queueMutex, waitMutex, holding, finished>>

SubmitPush ==
    /\ pc[Client] = "push" /\ queueMutex = None
    /\ queue' = Append(queue, submitted)
    /\ Goto(Client, "notify")
    /\ UNCHANGED <<pending, stopping, queueMutex, waitMutex, holding,
                   submitted, finished>>

SubmitNotify ==
    /\ pc[Client] = "notify"
    /\ \E W \in IF Sleepers = {} THEN {{}} ELSE {{w} : w \in Sleepers} :
          pc' = [Woken(W) EXCEPT ![Client] = "idle"]
    /\ UNCHANGED <<queue, pending, stopping, queueMutex, waitMutex, holding,
                   submitted, finished>>

(* wait(): test pending_ == 0 under waitMutex_, sleep on waitCv_ otherwise.*)
WaitCall ==
    /\ pc[Client] = "idle"
    /\ Goto(Client, "lockWait")
    /\ UNCHANGED <<queue, pending, stopping, queueMutex, waitMutex, holding,
                   submitted, finished>>

WaitLock ==
    /\ pc[Client] = "lockWait" /\ waitMutex = None
    /\ waitMutex' = Client
    /\ Goto(Client, "test")
    /\ UNCHANGED <<queue, pending, stopping, queueMutex, holding, submitted,
                   finished>>

WaitReturn_QueueEmpty ==       \* mutant: tests the queue, not pending_
    /\ pc[Client] = "test" /\ queue = <<>>
    /\ waitMutex' = None
    /\ Goto(Client, "idle")
    /\ UNCHANGED <<queue, pending, stopping, queueMutex, holding, submitted,
                   finished>>
WaitReturn ==
    /\ pc[Client] = "test" /\ pending = 0
    /\ waitMutex' = None
    /\ Goto(Client, "idle")
    /\ UNCHANGED <<queue, pending, stopping, queueMutex, holding, submitted,
                   finished>>

WaitPark ==
    /\ pc[Client] = "test" /\ pending # 0
    /\ Goto(Client, "park")
    /\ UNCHANGED <<queue, pending, stopping, queueMutex, waitMutex, holding,
                   submitted, finished>>

WaitSleep ==
    /\ pc[Client] = "park"
    /\ waitMutex' = None
    /\ Goto(Client, "asleep")
    /\ UNCHANGED <<queue, pending, stopping, queueMutex, holding, submitted,
                   finished>>

(* ~TaskScheduler(): the store and the notification hold no mutex.         *)
Destroy ==
    /\ pc[Client] = "idle"
    /\ stopping' = TRUE
    /\ Goto(Client, "wakeAll")
    /\ UNCHANGED <<queue, pending, queueMutex, waitMutex, holding, submitted,
                   finished>>

DestroyNotify ==
    /\ pc[Client] = "wakeAll"
    /\ pc' = [Woken(Sleepers) EXCEPT ![Client] = "join"]
    /\ UNCHANGED <<queue, pending, stopping, queueMutex, waitMutex, holding,
                   submitted, finished>>

DestroyJoin ==
    /\ pc[Client] = "join"
    /\ \A w \in Workers : pc[w] = "exited"
    /\ Goto(Client, "destroyed")
    /\ UNCHANGED <<queue, pending, stopping, queueMutex, waitMutex, holding,
                   submitted, finished>>
------------------------------------------------------------------------------
(* workerLoop(): cv_.wait with its predicate, under queueMutex_.           *)
WorkerLock(w) ==
    /\ pc[w] = "lock" /\ queueMutex = None
    /\ queueMutex' = w
    /\ Goto(w, "test")
    /\ UNCHANGED <<queue, pending, stopping, waitMutex, holding, submitted,
                   finished>>

WorkerTake_NoPop(w) ==         \* mutant: the task stays in the queue
    /\ pc[w] = "test" /\ queue # <<>>
    /\ holding' = [holding EXCEPT ![w] = Head(queue)]
    /\ queueMutex' = None
    /\ Goto(w, "run")
    /\ UNCHANGED <<queue, pending, stopping, waitMutex, submitted, finished>>
WorkerTake(w) ==
    /\ pc[w] = "test" /\ queue # <<>>
    /\ holding' = [holding EXCEPT ![w] = Head(queue)]
    /\ queue' = Tail(queue)
    /\ queueMutex' = None
    /\ Goto(w, "run")
    /\ UNCHANGED <<pending, stopping, waitMutex, submitted, finished>>

WorkerExit_NotDrained(w) ==    \* mutant: exits with tasks in the queue
    /\ pc[w] = "test" /\ stopping
    /\ queueMutex' = None
    /\ Goto(w, "exited")
    /\ UNCHANGED <<queue, pending, stopping, waitMutex, holding, submitted,
                   finished>>
WorkerExit(w) ==
    /\ pc[w] = "test" /\ queue = <<>> /\ stopping
    /\ queueMutex' = None
    /\ Goto(w, "exited")
    /\ UNCHANGED <<queue, pending, stopping, waitMutex, holding, submitted,
                   finished>>

(* The predicate is false: the worker is about to sleep.  stopping_ may    *)
(* still be stored before it does.                                         *)
WorkerPark(w) ==
    /\ pc[w] = "test" /\ queue = <<>> /\ ~stopping
    /\ Goto(w, "park")
    /\ UNCHANGED <<queue, pending, stopping, queueMutex, waitMutex, holding,
                   submitted, finished>>

WorkerSleep(w) ==
    /\ pc[w] = "park"
    /\ queueMutex' = None
    /\ Goto(w, "asleep")
    /\ UNCHANGED <<queue, pending, stopping, waitMutex, holding, submitted,
                   finished>>

(* fn(): returns, or throws into the task's future and skips the rest of   *)
(* the packaged task.                                                      *)
WorkerRun(w) ==
    /\ pc[w] = "run"
    /\ finished' = finished \union {holding[w]}
    /\ IF holding[w] \in Throwing
         THEN /\ Goto(w, "lock")
              /\ holding' = [holding EXCEPT ![w] = None]
         ELSE Goto(w, "count") /\ UNCHANGED holding
    /\ UNCHANGED <<queue, pending, stopping, queueMutex, waitMutex, submitted>>

(* pending_.fetch_sub(1) == 1 wakes the thread in wait().                  *)
WorkerCount_AfterZero(w) ==      \* mutant: == 0, the value after subtracting
    /\ pc[w] = "count"
    /\ pending' = pending - 1
    /\ Goto(w, IF pending = 0 THEN "lockWait" ELSE "lock")
    /\ holding' = [holding EXCEPT ![w] = None]
    /\ UNCHANGED <<queue, stopping, queueMutex, waitMutex, submitted, finished>>
WorkerCount(w) ==
    /\ pc[w] = "count"
    /\ pending' = pending - 1
    /\ Goto(w, IF pending = 1 THEN "lockWait" ELSE "lock")
    /\ holding' = [holding EXCEPT ![w] = None]
    /\ UNCHANGED <<queue, stopping, queueMutex, waitMutex, submitted, finished>>

(* The notification is made while waitMutex_ is held, and releases it.     *)
WorkerNotify(w) ==
    /\ pc[w] = "lockWait" /\ waitMutex = None
    /\ pc' = [pc EXCEPT ![w] = "lock",
                        ![Client] = IF @ = "asleep" THEN "lockWait" ELSE @]
    /\ UNCHANGED <<queue, pending, stopping, queueMutex, waitMutex, holding,
                   submitted, finished>>

(* A condition variable may also wake a sleeper for no reason; both waits   *)
(* then test their predicate again.                                        *)
SpuriousWake(t) ==
    /\ pc[t] = "asleep"
    /\ Goto(t, IF t = Client THEN "lockWait" ELSE "lock")
    /\ UNCHANGED <<queue, pending, stopping, queueMutex, waitMutex, holding,
                   submitted, finished>>

ClientStep == \/ SubmitCount \/ SubmitPush \/ SubmitNotify
              \/ WaitCall \/ WaitLock \/ WaitReturn \/ WaitPark \/ WaitSleep
              \/ Destroy \/ DestroyNotify \/ DestroyJoin

WorkerStep(w) == \/ WorkerLock(w) \/ WorkerTake(w) \/ WorkerExit(w)
                 \/ WorkerPark(w) \/ WorkerSleep(w) \/ WorkerRun(w)
                 \/ WorkerCount(w) \/ WorkerNotify(w)

PoolNext == \/ ClientStep
            \/ \E w \in Workers : WorkerStep(w)
            \/ \E t \in Threads : SpuriousWake(t)

PoolSpec == PoolInit /\ [][PoolNext]_poolVars

(* The operating system runs every thread, and a mutex starves nobody.     *)
(* The client is not obliged to start a call, only to go on with one; no   *)
(* spurious wake-up is owed to anybody.                                    *)
Fairness ==
    /\ SF_poolVars(SubmitPush) /\ WF_poolVars(SubmitNotify)
    /\ SF_poolVars(WaitLock) /\ WF_poolVars(WaitReturn) /\ WF_poolVars(WaitPark)
    /\ WF_poolVars(WaitSleep) /\ WF_poolVars(DestroyNotify) /\ WF_poolVars(DestroyJoin)
    /\ \A w \in Workers : /\ SF_poolVars(WorkerLock(w)) /\ SF_poolVars(WorkerNotify(w))
                          /\ WF_poolVars(WorkerStep(w))

FairSpec == PoolSpec /\ Fairness
------------------------------------------------------------------------------
Pushed == IF pc[Client] = "push" THEN 1..(submitted - 1) ELSE 1..submitted

(* Every task pushed is in exactly one place: in the queue, with one       *)
(* worker that has not run it, or finished.  No task is lost, taken twice  *)
(* or run twice, at shutdown either.                                       *)
Running(t) == {w \in Workers : pc[w] = "run" /\ holding[w] = t}

EachTaskOnce ==
    /\ PoolTypeOK
    /\ \A t \in Pushed :
          (IF t \in finished THEN 1 ELSE 0) + Cardinality(Running(t))
             + Cardinality({k \in DOMAIN queue : queue[k] = t}) = 1
    /\ finished \union ToSet(queue) \subseteq Pushed

(* wait() is a barrier: it returns only when every task submitted before   *)
(* has finished.                                                           *)
WaitIsBarrier ==
    [][pc[Client] = "test" /\ pc'[Client] = "idle" => 1..submitted \subseteq finished]_poolVars

(* "no tasks are dropped" (TaskScheduler.h): every submitted task is       *)
(* eventually run, destroyed pool or not, even when its notification met a *)
(* worker on its way to sleep.                                             *)
EveryTaskRuns == \A t \in Tasks : submitted >= t ~> t \in finished

(* "Block until all enqueued tasks have finished executing"                *)
(* (TaskScheduler.h): a call of wait() returns, unless one of the tasks    *)
(* submitted throws, which leaves pending_ above zero for good.            *)
WaitReturnsUnlessThrown ==
    pc[Client] = "lockWait" ~> pc[Client] = "idle" \/ Throwing \cap 1..submitted # {}
==============================================================================
