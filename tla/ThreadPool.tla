----------------------------- MODULE ThreadPool -----------------------------
(***************************************************************************)
(* The C thread pool: src/Thread/ThreadPool/threadPool.c (the copy under   *)
(* src/socket/multi_thread is the same file).  Callers add tasks to a      *)
(* bounded ring buffer and may destroy the pool, workers take tasks, a     *)
(* manager wakes up every three seconds and creates or retires workers.    *)
(*                                                                         *)
(* Grain of atomicity.  One action is what a thread does between two       *)
(* points where another thread can observe or change what it uses.  The    *)
(* mutex mutexPool is explicit, because a thread that holds it can be      *)
(* overtaken by the steps of threadPoolDestroy, which takes no lock: its   *)
(* write of shutdown, its reads of liveNum and its signals fall between a  *)
(* waiter's test and its pthread_cond_wait.  A critical section that makes *)
(* at most one access to something that is not protected is one action.    *)
(* The sections under mutexBusy read or write one variable and are atomic. *)
(*                                                                         *)
(* A worker is named by the index of its cell of threadIDs: it keeps the   *)
(* cell from pthread_create to its last access to the pool (threadExit),   *)
(* and the cell is 0 exactly when pc is "none".  glibc stores the new      *)
(* thread's ID before the thread runs, so a thread always finds its cell.  *)
(***************************************************************************)
EXTENDS Integers, Sequences, FiniteSets

CONSTANTS Callers,        \* the program's threads that call the pool
          Tasks,          \* the arguments handed to threadPoolAdd, each once
          NoTask,         \* not a task: memory that holds no task
          minNum, maxNum, \* the arguments of threadPoolCreate
          queueCapacity

NUMBER == 2

ASSUME PoolAssumption ==
    /\ minNum \in Nat
    /\ maxNum \in Nat
    /\ minNum <= maxNum
    /\ queueCapacity \in Nat \ {0}
    /\ NoTask \notin Tasks
    /\ IsFiniteSet(Callers)

Slots == 0..(maxNum - 1)
Cells == 0..(queueCapacity - 1)

VARIABLES
    taskQ, queueSize, queueFront, queueRear,  \* the ring buffer of tasks
    busyNum, liveNum, exitNum,                \* the counters of the pool
    shutdown,     \* threadPoolDestroy has begun
    mutexPool,    \* the mutex is locked
    freed,        \* threadPoolDestroy has released the pool's memory
    pc,           \* where each worker is
    task,         \* the worker's local variable task
    mpc,          \* where the manager is
    snap,         \* the manager's locals queueSize, liveNum and busyNum
    mi, counter,  \* the manager's loop variables
    created,      \* how many workers threadPoolCreate has started
    cpc,          \* where each caller is
    carg,         \* the task a blocked caller is adding
    di,           \* the loop variable of threadPoolDestroy
    finished      \* history: the tasks whose function has returned

ring    == <<taskQ, queueSize, queueFront, queueRear>>
counts  == <<busyNum, liveNum, exitNum>>
life    == <<shutdown, freed>>
workers == <<pc, task>>
manager == <<mpc, snap, mi, counter>>
caller  == <<cpc, carg, di, created>>
vars    == <<ring, counts, life, mutexPool, workers, manager, caller, finished>>

-----------------------------------------------------------------------------
(* Helpers *)

NoSnap == [queueSize |-> 0, liveNum |-> 0, busyNum |-> 0]

\* pthread_cond_signal: wakes one of the threads asleep, if there is any.
Signalled(p, asleep, woken) ==
    LET waiters == {x \in DOMAIN p : p[x] = asleep}
    IN  IF waiters = {} THEN {p} ELSE {[p EXCEPT ![x] = woken] : x \in waiters}

\* Fault: a worker is signalled only when the ring was empty.
SignalNotEmpty_WhenEmpty ==
    IF queueSize = 0 THEN pc' \in Signalled(pc, "waiting", "woken")
                     ELSE pc' = pc
\* Fault: the signal to the workers is missing.
SignalNotEmpty_Missing == pc' = pc
\* Fault: the signal to the blocked callers is missing.
SignalNotFull_Missing == cpc' = cpc

SignalNotEmpty == pc'  \in Signalled(pc, "waiting", "woken")
SignalNotFull  == cpc' \in Signalled(cpc, "addWaiting", "addWoken")

NextCell(i) == (i + 1) % queueCapacity

\* The cells of the ring that hold a waiting task, oldest first.
QueueCell(k) == (queueFront + k) % queueCapacity
Queued == {taskQ[QueueCell(k)] : k \in 0..(queueSize - 1)}

\* A task that has not been handed to the pool yet: the programs add each
\* heap-allocated argument once.
Fresh(t) == /\ t \notin Queued \union finished
            /\ \A w \in Slots : task[w] # t
            /\ \A c \in Callers : carg[c] # t

-----------------------------------------------------------------------------
(* threadPoolCreate, from the point where every field is set *)

Init ==
    /\ taskQ = [i \in Cells |-> NoTask]
    /\ queueSize = 0 /\ queueFront = 0 /\ queueRear = 0
    /\ busyNum = 0 /\ liveNum = minNum /\ exitNum = 0
    /\ shutdown = FALSE /\ mutexPool = FALSE /\ freed = FALSE
    /\ pc = [w \in Slots |-> "none"]
    /\ task = [w \in Slots |-> NoTask]
    /\ mpc = "test" /\ snap = NoSnap /\ mi = 0 /\ counter = 0
    /\ created = 0
    /\ cpc = [c \in Callers |-> "idle"]
    /\ carg = [c \in Callers |-> NoTask]
    /\ di = 0
    /\ finished = {}

CreateWorker ==
    /\ created < minNum
    /\ pc' = [pc EXCEPT ![created] = "lock"]
    /\ created' = created + 1
    /\ UNCHANGED <<ring, counts, life, mutexPool, task, manager, cpc, carg, di, finished>>

-----------------------------------------------------------------------------
(* worker *)

\* Fault: the newest task is taken instead of the oldest.
TakeTask_Newest(w) ==
    LET newest == (queueRear + queueCapacity - 1) % queueCapacity
    IN  /\ task' = [task EXCEPT ![w] = taskQ[newest]]
        /\ queueRear' = newest
        /\ queueSize' = queueSize - 1
        /\ SignalNotFull
        /\ pc' = [pc EXCEPT ![w] = "taken"]
        /\ mutexPool' = FALSE
        /\ UNCHANGED <<taskQ, queueFront, carg>>
\* The oldest task leaves the ring and a blocked caller is signalled; the
\* cell keeps its stale content.
TakeTask(w) ==
    /\ task' = [task EXCEPT ![w] = taskQ[queueFront]]
    /\ queueFront' = NextCell(queueFront)
    /\ queueSize' = queueSize - 1
    /\ SignalNotFull
    /\ pc' = [pc EXCEPT ![w] = "taken"]
    /\ mutexPool' = FALSE
    /\ UNCHANGED <<taskQ, queueRear, carg>>

\* With the mutex held: the loop condition, the test of shutdown, the take.
\* A worker that finds nothing to do still holds the mutex in "wait".
Examine(w) ==
    \/ /\ queueSize = 0 /\ ~shutdown
       /\ pc' = [pc EXCEPT ![w] = "wait"]
       /\ mutexPool' = TRUE
       /\ UNCHANGED <<ring, task, cpc, carg>>
    \/ /\ shutdown
       /\ pc' = [pc EXCEPT ![w] = "quit"]
       /\ mutexPool' = FALSE
       /\ UNCHANGED <<ring, task, cpc, carg>>
    \/ /\ queueSize # 0 /\ ~shutdown
       /\ TakeTask(w)

Lock(w) ==
    /\ pc[w] = "lock"
    /\ ~mutexPool
    /\ Examine(w)
    /\ UNCHANGED <<counts, life, manager, di, created, finished>>

\* pthread_cond_wait releases the mutex and falls asleep in one step.
Wait(w) ==
    /\ pc[w] = "wait"
    /\ pc' = [pc EXCEPT ![w] = "waiting"]
    /\ mutexPool' = FALSE
    /\ UNCHANGED <<ring, counts, life, task, manager, caller, finished>>

\* POSIX lets pthread_cond_wait return without a signal.
SpuriousWake(w) ==
    /\ pc[w] = "waiting"
    /\ pc' = [pc EXCEPT ![w] = "woken"]
    /\ UNCHANGED <<ring, counts, life, mutexPool, task, manager, caller, finished>>

\* Fault: the second test of minNum, under the mutex, is missing.
MayRetire_Unchecked == TRUE
MayRetire == liveNum > minNum

\* pthread_cond_wait returns with the mutex: a requested exit is consumed
\* first, and the worker leaves if more than minNum are alive.
Retire(w) ==
    /\ exitNum > 0
    /\ MayRetire
    /\ exitNum' = exitNum - 1
    /\ liveNum' = liveNum - 1
    /\ pc' = [pc EXCEPT ![w] = "retire"]
    /\ UNCHANGED <<ring, mutexPool, task, cpc, carg>>

\* Fault: exitNum is decremented without its test.
Resume_AlwaysConsumes(w) ==
    /\ ~(exitNum > 0 /\ MayRetire)
    /\ exitNum' = exitNum - 1
    /\ liveNum' = liveNum
    /\ Examine(w)
\* Fault: if instead of while, so a woken worker does not test the ring again.
Resume_NoRetest(w) ==
    /\ ~(exitNum > 0 /\ MayRetire)
    /\ exitNum' = IF exitNum > 0 THEN exitNum - 1 ELSE exitNum
    /\ liveNum' = liveNum
    /\ ~shutdown
    /\ TakeTask(w)
Resume(w) ==
    /\ ~(exitNum > 0 /\ MayRetire)
    /\ exitNum' = IF exitNum > 0 THEN exitNum - 1 ELSE exitNum
    /\ liveNum' = liveNum
    /\ Examine(w)

Wake(w) ==
    /\ pc[w] = "woken"
    /\ ~mutexPool
    /\ Retire(w) \/ Resume(w)
    /\ UNCHANGED <<busyNum, life, manager, di, created, finished>>

\* Fault: the worker is counted busy only while shutdown is not set.
Start_SkipsCount(w) ==
    /\ pc[w] = "taken"
    /\ busyNum' = IF shutdown THEN busyNum ELSE busyNum + 1
    /\ pc' = [pc EXCEPT ![w] = "running"]
    /\ UNCHANGED <<ring, liveNum, exitNum, life, mutexPool, task, manager, caller, finished>>
Start(w) ==
    /\ pc[w] = "taken"
    /\ busyNum' = busyNum + 1
    /\ pc' = [pc EXCEPT ![w] = "running"]
    /\ UNCHANGED <<ring, liveNum, exitNum, life, mutexPool, task, manager, caller, finished>>

\* The task function returns, its argument is freed, the worker is not busy.
Finish(w) ==
    /\ pc[w] = "running"
    /\ busyNum' = busyNum - 1
    /\ finished' = finished \union {task[w]}
    /\ task' = [task EXCEPT ![w] = NoTask]
    /\ pc' = [pc EXCEPT ![w] = "lock"]
    /\ UNCHANGED <<ring, liveNum, exitNum, life, mutexPool, manager, caller>>

\* threadExit: the worker finds its cell of threadIDs and clears it, without
\* the mutex, and ends.
ThreadExit(w) ==
    /\ pc[w] \in {"retire", "quit"}
    /\ pc' = [pc EXCEPT ![w] = "none"]
    /\ UNCHANGED <<ring, counts, life, mutexPool, task, manager, caller, finished>>

Worker(w) == \/ Lock(w) \/ Wait(w) \/ Wake(w)
             \/ Start(w) \/ Finish(w) \/ ThreadExit(w)

-----------------------------------------------------------------------------
(* manager *)

\* Fault: the backlog is compared with maxNum instead of liveNum.
GrowWanted_AgainstMax == snap.queueSize > maxNum /\ snap.liveNum < maxNum
\* Fault: off by one, the last surplus worker is never asked to leave.
ShrinkWanted_OffByOne ==
    snap.busyNum * 2 < snap.liveNum /\ snap.liveNum > minNum + 1
GrowWanted   == snap.queueSize > snap.liveNum /\ snap.liveNum < maxNum
ShrinkWanted == snap.busyNum * 2 < snap.liveNum /\ snap.liveNum > minNum

\* Back to the loop test; the locals are dead there.
BackToTest == /\ mpc' = "test"
              /\ snap' = NoSnap /\ mi' = 0 /\ counter' = 0

\* Fault: the manager stays until the ring has been emptied.
ManagerTest_AwaitsEmpty ==
    /\ mpc = "test"
    /\ mpc' = IF shutdown /\ queueSize = 0 THEN "exited" ELSE "sleep"
    /\ UNCHANGED <<ring, counts, life, mutexPool, workers, snap, mi, counter, caller, finished>>
ManagerTest ==
    /\ mpc = "test"
    /\ mpc' = IF shutdown THEN "exited" ELSE "sleep"
    /\ UNCHANGED <<ring, counts, life, mutexPool, workers, snap, mi, counter, caller, finished>>

\* After sleep(3): queueSize and liveNum are read under mutexPool ...
ManagerSnapshot ==
    /\ mpc = "sleep"
    /\ ~mutexPool
    /\ mpc' = "busy"
    /\ snap' = [snap EXCEPT !.queueSize = queueSize, !.liveNum = liveNum]
    /\ UNCHANGED <<ring, counts, life, mutexPool, workers, mi, counter, caller, finished>>

\* ... and busyNum later, under mutexBusy.
ManagerBusyNum ==
    /\ mpc = "busy"
    /\ snap' = [snap EXCEPT !.busyNum = busyNum]
    /\ mpc' = "decide"
    /\ UNCHANGED <<ring, counts, life, mutexPool, workers, mi, counter, caller, finished>>

\* The two tests use the values read above; growing takes the mutex.
ManagerDecide ==
    /\ mpc = "decide"
    /\ \/ /\ GrowWanted
          /\ ~mutexPool
          /\ mutexPool' = TRUE
          /\ mpc' = "scan"
          /\ UNCHANGED <<snap, mi, counter>>
       \/ /\ ~GrowWanted /\ ShrinkWanted
          /\ mpc' = "shrink"
          /\ UNCHANGED <<mutexPool, snap, mi, counter>>
       \/ /\ ~GrowWanted /\ ~ShrinkWanted
          /\ BackToTest
          /\ UNCHANGED mutexPool
    /\ UNCHANGED <<ring, counts, life, workers, caller, finished>>

ScanGoesOn == mi < maxNum /\ counter < NUMBER /\ liveNum < maxNum

\* One turn of the loop that starts at most NUMBER workers in empty cells.
ManagerScan ==
    /\ mpc = "scan"
    /\ ScanGoesOn
    /\ mi' = mi + 1
    /\ IF pc[mi] = "none"
         THEN /\ pc' = [pc EXCEPT ![mi] = "lock"]
              /\ counter' = counter + 1
              /\ liveNum' = liveNum + 1
         ELSE UNCHANGED <<liveNum, pc, counter>>
    /\ UNCHANGED <<ring, busyNum, exitNum, life, mutexPool, task, mpc, snap, caller, finished>>

ManagerScanned ==
    /\ mpc = "scan"
    /\ ~ScanGoesOn
    /\ mutexPool' = FALSE
    /\ IF ShrinkWanted
         THEN mpc' = "shrink" /\ mi' = 0 /\ counter' = 0 /\ snap' = snap
         ELSE BackToTest
    /\ UNCHANGED <<ring, counts, life, workers, caller, finished>>

ManagerShrink ==
    /\ mpc = "shrink"
    /\ ~mutexPool
    /\ exitNum' = NUMBER
    /\ mpc' = "signal"
    /\ UNCHANGED <<ring, busyNum, liveNum, life, mutexPool, workers, snap, mi, counter, caller, finished>>

\* NUMBER signals, without the mutex.
ManagerSignal ==
    /\ mpc = "signal"
    /\ SignalNotEmpty
    /\ IF counter + 1 < NUMBER
         THEN counter' = counter + 1 /\ UNCHANGED <<mpc, snap, mi>>
         ELSE BackToTest
    /\ UNCHANGED <<ring, counts, life, mutexPool, task, caller, finished>>

Manager == \/ ManagerTest \/ ManagerSnapshot \/ ManagerBusyNum \/ ManagerDecide
           \/ ManagerScan \/ ManagerScanned \/ ManagerShrink \/ ManagerSignal

-----------------------------------------------------------------------------
(* threadPoolAdd *)

\* With the mutex held: wait for room, or give up, or push the task at the
\* rear and signal a worker.
TryAdd(c, t) ==
    \/ /\ queueSize = queueCapacity /\ ~shutdown
       /\ cpc' = [cpc EXCEPT ![c] = "addWait"]
       /\ carg' = [carg EXCEPT ![c] = t]
       /\ mutexPool' = TRUE
       /\ UNCHANGED <<ring, pc>>
    \/ /\ shutdown
       /\ cpc' = [cpc EXCEPT ![c] = "idle"]
       /\ carg' = [carg EXCEPT ![c] = NoTask]
       /\ UNCHANGED <<ring, mutexPool, pc>>
    \/ /\ queueSize # queueCapacity /\ ~shutdown
       /\ taskQ' = [taskQ EXCEPT ![queueRear] = t]
       /\ queueRear' = NextCell(queueRear)
       /\ queueSize' = queueSize + 1
       /\ SignalNotEmpty
       /\ cpc' = [cpc EXCEPT ![c] = "idle"]
       /\ carg' = [carg EXCEPT ![c] = NoTask]
       /\ UNCHANGED <<queueFront, mutexPool>>

\* The pool is known to its callers once threadPoolCreate has returned.
Add(c, t) ==
    /\ created = minNum
    /\ cpc[c] = "idle"
    /\ Fresh(t)
    /\ ~mutexPool
    /\ TryAdd(c, t)
    /\ UNCHANGED <<counts, life, task, manager, di, created, finished>>

AddWait(c) ==
    /\ cpc[c] = "addWait"
    /\ cpc' = [cpc EXCEPT ![c] = "addWaiting"]
    /\ mutexPool' = FALSE
    /\ UNCHANGED <<ring, counts, life, workers, manager, carg, di, created, finished>>

SpuriousAddWake(c) ==
    /\ cpc[c] = "addWaiting"
    /\ cpc' = [cpc EXCEPT ![c] = "addWoken"]
    /\ UNCHANGED <<ring, counts, life, mutexPool, workers, manager, carg, di, created, finished>>

AddWake(c) ==
    /\ cpc[c] = "addWoken"
    /\ ~mutexPool
    /\ TryAdd(c, carg[c])
    /\ UNCHANGED <<counts, life, task, manager, di, created, finished>>

-----------------------------------------------------------------------------
(* threadPoolDestroy: none of its steps takes the mutex *)

Destroy(c) ==
    /\ created = minNum
    /\ cpc[c] = "idle"
    /\ ~shutdown
    /\ shutdown' = TRUE
    /\ cpc' = [cpc EXCEPT ![c] = "join"]
    /\ UNCHANGED <<ring, counts, freed, mutexPool, workers, manager, carg, di, created, finished>>

DestroyJoin(c) ==
    /\ cpc[c] = "join"
    /\ mpc = "exited"
    /\ cpc' = [cpc EXCEPT ![c] = "signal"]
    /\ UNCHANGED <<ring, counts, life, mutexPool, workers, manager, carg, di, created, finished>>

\* One turn of the loop: liveNum is read anew before each signal.
DestroySignal(c) ==
    /\ cpc[c] = "signal"
    /\ di < liveNum
    /\ SignalNotEmpty
    /\ di' = di + 1
    /\ UNCHANGED <<ring, counts, life, mutexPool, task, manager, cpc, carg, created, finished>>

DestroySignalled(c) ==
    /\ cpc[c] = "signal"
    /\ di >= liveNum
    /\ cpc' = [cpc EXCEPT ![c] = "free"]
    /\ UNCHANGED <<ring, counts, life, mutexPool, workers, manager, carg, di, created, finished>>

\* The memory, the mutexes and the condition variables are released.
DestroyFree(c) ==
    /\ cpc[c] = "free"
    /\ freed' = TRUE
    /\ cpc' = [cpc EXCEPT ![c] = "returned"]
    /\ UNCHANGED <<ring, counts, shutdown, mutexPool, workers, manager, carg, di, created, finished>>

\* What a caller does on its own once it is inside a call.
Caller(c) == \/ AddWait(c) \/ AddWake(c) \/ DestroyJoin(c)
             \/ DestroySignal(c) \/ DestroySignalled(c) \/ DestroyFree(c)

-----------------------------------------------------------------------------

\* Once the memory is released a thread of the pool has no defined next step.
Step == \/ CreateWorker
        \/ Manager
        \/ \E w \in Slots : Worker(w) \/ SpuriousWake(w)
        \/ \E c \in Callers :
              \/ Caller(c) \/ SpuriousAddWake(c) \/ Destroy(c)
              \/ \E t \in Tasks : Add(c, t)

Released == freed /\ UNCHANGED vars

Next == (~freed /\ Step) \/ Released

Spec == Init /\ [][Next]_vars

(***************************************************************************)
(* Fairness.  Every thread of the pool, and a caller inside a call, keeps  *)
(* running: the scheduler runs a runnable thread again and again, and a    *)
(* thread blocked on a mutex that is released again and again gets it      *)
(* (strong fairness; other threads may take the mutex in between).  There  *)
(* is no fairness for calling the pool, for a spurious wake-up, nor, in    *)
(* FairSpec, for a task to return; TasksReturn adds it for task functions  *)
(* like taskFunc of main.c, which returns after a second.                  *)
(***************************************************************************)
Fairness ==
    /\ WF_vars(~freed /\ CreateWorker)
    /\ SF_vars(~freed /\ Manager)
    /\ \A w \in Slots :
          SF_vars(~freed /\ (\/ Lock(w) \/ Wait(w) \/ Wake(w)
                            \/ Start(w) \/ ThreadExit(w)))
    /\ \A c \in Callers : SF_vars(~freed /\ Caller(c))

TasksReturn == \A w \in Slots : WF_vars(~freed /\ Finish(w))

FairSpec     == Spec /\ Fairness
FairTaskSpec == FairSpec /\ TasksReturn

-----------------------------------------------------------------------------
(* Properties *)

WorkerPCs  == {"none", "lock", "wait", "waiting", "woken", "taken", "running",
               "retire", "quit"}
ManagerPCs == {"test", "sleep", "busy", "decide", "scan", "shrink", "signal",
               "exited"}
CallerPCs  == {"idle", "addWait", "addWaiting", "addWoken",
               "join", "signal", "free", "returned"}

\* Every field of the pool and every local variable has its type; the
\* indices of the ring stay inside the array.
TypeOK ==
    /\ taskQ \in [Cells -> Tasks \union {NoTask}]
    /\ queueSize \in 0..queueCapacity
    /\ queueFront \in Cells /\ queueRear \in Cells
    /\ busyNum \in Int /\ liveNum \in Int /\ exitNum \in 0..NUMBER
    /\ shutdown \in BOOLEAN /\ mutexPool \in BOOLEAN /\ freed \in BOOLEAN
    /\ pc \in [Slots -> WorkerPCs]
    /\ task \in [Slots -> Tasks \union {NoTask}]
    /\ mpc \in ManagerPCs
    /\ snap \in [queueSize : 0..queueCapacity, liveNum : Int, busyNum : Int]
    /\ mi \in 0..maxNum /\ counter \in 0..NUMBER
    /\ created \in 0..minNum
    /\ cpc \in [Callers -> CallerPCs]
    /\ carg \in [Callers -> Tasks \union {NoTask}]
    /\ di \in Nat
    /\ finished \subseteq Tasks

\* The workers liveNum counts: a retiring worker has already given up its
\* place, one that quits at shutdown has not.
Counted == {w \in Slots : pc[w] \notin {"none", "retire"}}

\* liveNum is the number of workers, within the limits given to
\* threadPoolCreate: the manager decides with values it read earlier and
\* woken workers leave one after the other, yet the pool never falls below
\* minNum nor grows past maxNum; the count is exact until shutdown, and
\* never below the number of workers afterwards.
LiveNumExact ==
    /\ minNum <= liveNum /\ liveNum <= maxNum
    /\ LET alive == Cardinality(Counted) + (minNum - created)
       IN  alive <= liveNum /\ (~shutdown => alive = liveNum)

\* busyNum, under its own mutex, is the number of workers inside a task.
BusyNumExact == busyNum = Cardinality({w \in Slots : pc[w] = "running"})

\* No wake-up of a worker is lost: while a worker sleeps on notEmpty, each
\* waiting task has a worker that has been woken or is about to look.
WakeupPerTask ==
    (~shutdown /\ \E w \in Slots : pc[w] = "waiting")
       => queueSize <= Cardinality({w \in Slots : pc[w] \in {"lock", "woken"}})

\* No wake-up of a caller is lost: while a caller sleeps on notFull, each free
\* cell has a caller that has been woken to fill it.
WakeupPerRoom ==
    (~shutdown /\ \E c \in Callers : cpc[c] = "addWaiting")
       => queueCapacity - queueSize
             <= Cardinality({c \in Callers : cpc[c] = "addWoken"})

\* The pool implements its abstract promise: ring buffer, condition variables
\* and worker threads start each accepted task once, in order, and none
\* after shutdown.
Promise == INSTANCE TaskPool WITH
    Capacity <- queueCapacity,
    pending  <- [i \in 1..queueSize |-> taskQ[QueueCell(i - 1)]],
    running  <- {task[w] : w \in Slots} \ {NoTask},
    closed   <- shutdown

ImplementsTaskPool == Promise!Spec

\* threadPoolAdd's task is executed, unless the pool is destroyed first.
EveryTaskFinishes ==
    \A t \in Tasks : (t \in Queued) ~> (t \in finished \/ shutdown)

\* A caller blocked by a full ring returns, unless the pool is destroyed.
AddReturns ==
    \A c \in Callers : (cpc[c] = "addWait") ~> (cpc[c] = "idle" \/ shutdown)

\* The manager grows a pool with a backlog even if no task ever returns.
BacklogGrows ==
    (queueSize > liveNum /\ liveNum < maxNum)
       ~> (queueSize <= liveNum \/ liveNum = maxNum \/ shutdown)

\* Once there is nothing left to do the pool shrinks to minNum.
IdlePoolShrinks == (finished = Tasks) ~> (liveNum = minNum \/ shutdown)

\* The manager notices shutdown, so pthread_join in threadPoolDestroy returns.
JoinReturns == shutdown ~> (mpc = "exited")

\* What the comment in threadPoolDestroy says of its signals: they wake the
\* blocked consumers, so none is left asleep after the loop.
DestroyWakesSleepers ==
    \A c \in Callers :
       cpc[c] = "free" => \A w \in Slots : pc[w] # "waiting"

=============================================================================
