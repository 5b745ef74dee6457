---------------------------- MODULE ThreadPoolCpp ----------------------------
(***************************************************************************)
(* The C++ thread pool: src/Thread/ThreadPool/threadPoolC++.  The threads  *)
(* are those of the C pool, but the tasks are in an unbounded std::queue   *)
(* under a mutex of its own (m_mutex of TaskQueue), busyNum is under       *)
(* mutexPool like the rest, and addTask never takes mutexPool.             *)
(*                                                                         *)
(* One action is what a thread does between two points where another       *)
(* thread can observe or change what it uses.  A push is two actions: it   *)
(* holds m_mutex, but taskNumber reads the size of the queue without it,   *)
(* and what it reads while the queue is being changed is undefined.  A     *)
(* worker is named by its cell of threadIDs, as in ThreadPool.             *)
(***************************************************************************)
EXTENDS Integers, Sequences, FiniteSets

CONSTANTS Callers,        \* the program's threads that use the pool
          Tasks,          \* the arguments of the tasks, each added once
          NoTask,         \* the empty Task, whose function is null
          minNum, maxNum  \* the arguments of the constructor

NUMBER == 2

ASSUME PoolAssumption ==
    /\ minNum \in Nat
    /\ maxNum \in Nat
    /\ minNum <= maxNum
    /\ NoTask \notin Tasks
    /\ IsFiniteSet(Tasks)

Slots == 0..(maxNum - 1)

VARIABLES
    taskQ,                       \* the queue of tasks, oldest first
    busyNum, liveNum, exitNum,   \* the counters of the pool
    shutdown,     \* the destructor has begun
    mutexPool,    \* the mutex is locked
    freed,        \* the destructor has released the pool's memory
    pc, task,     \* where each worker is, and its local variable task
    mpc,          \* where the manager is
    snap,         \* the manager's locals queueSize, liveNum and busyNum
    mi, counter,  \* the manager's loop variables
    created,      \* how many workers the constructor has started
    cpc, carg,    \* where each caller is, and the task it is adding
    di,           \* the loop variable of the destructor
    finished      \* history: the tasks whose function has returned

counts  == <<busyNum, liveNum, exitNum>>
life    == <<shutdown, freed>>
workers == <<pc, task>>
manager == <<mpc, snap, mi, counter>>
caller  == <<cpc, carg, di, created>>
vars    == <<taskQ, counts, life, mutexPool, workers, manager, caller, finished>>

-----------------------------------------------------------------------------
(* Helpers *)

NoSnap == [queueSize |-> 0, liveNum |-> 0, busyNum |-> 0]

\* pthread_cond_signal: wakes one of the workers asleep, if there is any.
SignalNotEmpty ==
    LET asleep == {w \in Slots : pc[w] = "waiting"}
    IN  IF asleep = {} THEN pc' = pc
                       ELSE \E w \in asleep : pc' = [pc EXCEPT ![w] = "woken"]

\* m_mutex is held by the caller that is changing the queue.
QueueLocked == \E c \in Callers : cpc[c] = "push"

\* What taskNumber returns: the size of the queue, or anything at all while
\* the queue is being changed.
TaskNumber == IF QueueLocked THEN 0..Cardinality(Tasks) ELSE {Len(taskQ)}

Queued == {taskQ[i] : i \in 1..Len(taskQ)}

\* A task that has not been handed to the pool yet.
Fresh(t) == /\ t \notin Queued \union finished
            /\ \A w \in Slots : task[w] # t
            /\ \A c \in Callers : carg[c] # t

-----------------------------------------------------------------------------
(* The constructor, from the point where every field is set *)

Init ==
    /\ taskQ = <<>>
    /\ busyNum = 0 /\ liveNum = minNum /\ exitNum = 0
    /\ shutdown = FALSE /\ mutexPool = FALSE /\ freed = FALSE
    /\ pc = [w \in Slots |-> "none"]
    /\ task = [w \in Slots |-> NoTask]
    /\ mpc = "test" /\ snap = NoSnap /\ mi = 0 /\ counter = 0
    /\ created = 0
    /\ cpc = [c \in Callers |-> "idle"]
    /\ carg = [c \in Callers |-> NoTask]
    /\ di = 0
    /\ finished = {}

CreateWorker ==
    /\ created < minNum
    /\ pc' = [pc EXCEPT ![created] = "lock"]
    /\ created' = created + 1
    /\ UNCHANGED <<taskQ, counts, life, mutexPool, task, manager, cpc, carg, di, finished>>

-----------------------------------------------------------------------------
(* worker *)

\* Fault: the mutex is released before the task is taken.
Examine_UnlocksEarly(w) ==
    \E n \in TaskNumber :
       \/ /\ n = 0 /\ ~shutdown
          /\ pc' = [pc EXCEPT ![w] = "wait"]
          /\ mutexPool' = TRUE
       \/ /\ shutdown
          /\ pc' = [pc EXCEPT ![w] = "quit"]
          /\ mutexPool' = FALSE
       \/ /\ n # 0 /\ ~shutdown
          /\ pc' = [pc EXCEPT ![w] = "take"]
          /\ mutexPool' = FALSE
\* With the mutex held: the loop condition and the test of shutdown.  The
\* worker keeps the mutex until it sleeps or has taken a task.
Examine(w) ==
    \E n \in TaskNumber :
       \/ /\ n = 0 /\ ~shutdown
          /\ pc' = [pc EXCEPT ![w] = "wait"]
          /\ mutexPool' = TRUE
       \/ /\ shutdown
          /\ pc' = [pc EXCEPT ![w] = "quit"]
          /\ mutexPool' = FALSE
       \/ /\ n # 0 /\ ~shutdown
          /\ pc' = [pc EXCEPT ![w] = "take"]
          /\ mutexPool' = TRUE

Lock(w) ==
    /\ pc[w] = "lock"
    /\ ~mutexPool
    /\ Examine(w)
    /\ UNCHANGED <<taskQ, counts, life, task, manager, caller, finished>>

\* pthread_cond_wait releases the mutex and falls asleep in one step.
Wait(w) ==
    /\ pc[w] = "wait"
    /\ pc' = [pc EXCEPT ![w] = "waiting"]
    /\ mutexPool' = FALSE
    /\ UNCHANGED <<taskQ, counts, life, task, manager, caller, finished>>

\* POSIX lets pthread_cond_wait return without a signal.
SpuriousWake(w) ==
    /\ pc[w] = "waiting"
    /\ pc' = [pc EXCEPT ![w] = "woken"]
    /\ UNCHANGED <<taskQ, counts, life, mutexPool, task, manager, caller, finished>>

\* Fault: the second test of minNum, under the mutex, is missing.
Retire_Unchecked(w) ==
    /\ exitNum > 0
    /\ exitNum' = exitNum - 1
    /\ liveNum' = liveNum - 1
    /\ pc' = [pc EXCEPT ![w] = "retire"]
    /\ UNCHANGED mutexPool
\* A requested exit is consumed first; the worker leaves if more than minNum
\* are alive.
Retire(w) ==
    /\ exitNum > 0 /\ liveNum > minNum
    /\ exitNum' = exitNum - 1
    /\ liveNum' = liveNum - 1
    /\ pc' = [pc EXCEPT ![w] = "retire"]
    /\ UNCHANGED mutexPool

\* Fault: exitNum is decremented without its test.
Resume_AlwaysConsumes(w) ==
    /\ exitNum = 0 \/ liveNum <= minNum
    /\ exitNum' = exitNum - 1
    /\ Examine(w)
    /\ UNCHANGED liveNum
Resume(w) ==
    /\ exitNum = 0 \/ liveNum <= minNum
    /\ exitNum' = IF exitNum > 0 THEN exitNum - 1 ELSE exitNum
    /\ Examine(w)
    /\ UNCHANGED liveNum

Wake(w) ==
    /\ pc[w] = "woken"
    /\ ~mutexPool
    /\ Retire(w) \/ Resume(w)
    /\ UNCHANGED <<taskQ, busyNum, life, task, manager, caller, finished>>

\* Fault: the task is read and not popped.
TakeTask_NoPop(w) ==
    /\ IF taskQ = <<>> THEN UNCHANGED task
       ELSE task' = [task EXCEPT ![w] = Head(taskQ)]
    /\ UNCHANGED taskQ
\* takeTask: the oldest task, or the empty Task if there is none.
TakeTask(w) ==
    IF taskQ = <<>> THEN UNCHANGED <<taskQ, task>>
    ELSE /\ task' = [task EXCEPT ![w] = Head(taskQ)]
         /\ taskQ' = Tail(taskQ)

\* The worker waits for m_mutex, takes, counts as busy and releases the pool's
\* mutex.
Take(w) ==
    /\ pc[w] = "take"
    /\ ~QueueLocked
    /\ TakeTask(w)
    /\ busyNum' = busyNum + 1
    /\ mutexPool' = FALSE
    /\ pc' = [pc EXCEPT ![w] = "running"]
    /\ UNCHANGED <<liveNum, exitNum, life, manager, caller, finished>>

\* The task function returns and its argument is deleted.
Finish(w) ==
    /\ pc[w] = "running"
    /\ finished' = finished \union {task[w]}
    /\ task' = [task EXCEPT ![w] = NoTask]
    /\ pc' = [pc EXCEPT ![w] = "done"]
    /\ UNCHANGED <<taskQ, counts, life, mutexPool, manager, caller>>

\* Fault: the worker ends after its first task.
NotBusy_Ends(w) ==
    /\ pc[w] = "done"
    /\ ~mutexPool
    /\ busyNum' = busyNum - 1
    /\ pc' = [pc EXCEPT ![w] = "quit"]
    /\ UNCHANGED <<taskQ, liveNum, exitNum, life, mutexPool, task, manager, caller, finished>>
\* The worker takes the pool's mutex to leave the busy ones.
NotBusy(w) ==
    /\ pc[w] = "done"
    /\ ~mutexPool
    /\ busyNum' = busyNum - 1
    /\ pc' = [pc EXCEPT ![w] = "lock"]
    /\ UNCHANGED <<taskQ, liveNum, exitNum, life, mutexPool, task, manager, caller, finished>>

\* threadExit clears the worker's cell of threadIDs, without the mutex.
ThreadExit(w) ==
    /\ pc[w] \in {"retire", "quit"}
    /\ pc' = [pc EXCEPT ![w] = "none"]
    /\ UNCHANGED <<taskQ, counts, life, mutexPool, task, manager, caller, finished>>

Worker(w) == \/ Lock(w) \/ Wait(w) \/ Wake(w) \/ Take(w)
             \/ Finish(w) \/ NotBusy(w) \/ ThreadExit(w)

-----------------------------------------------------------------------------
(* manager *)

GrowWanted   == snap.queueSize > snap.liveNum /\ snap.liveNum < maxNum
ShrinkWanted == snap.busyNum * 2 < snap.liveNum /\ snap.liveNum > minNum

\* Back to the loop test; the locals are dead there.
BackToTest == /\ mpc' = "test"
              /\ snap' = NoSnap /\ mi' = 0 /\ counter' = 0

\* Fault: the manager stays until the queue has been emptied.
ManagerTest_AwaitsEmpty ==
    /\ mpc = "test"
    /\ mpc' = IF shutdown /\ taskQ = <<>> THEN "exited" ELSE "sleep"
    /\ UNCHANGED <<taskQ, counts, life, mutexPool, workers, snap, mi, counter, caller, finished>>
ManagerTest ==
    /\ mpc = "test"
    /\ mpc' = IF shutdown THEN "exited" ELSE "sleep"
    /\ UNCHANGED <<taskQ, counts, life, mutexPool, workers, snap, mi, counter, caller, finished>>

\* After sleep(3): the three numbers are read in one critical section.
ManagerSnapshot ==
    /\ mpc = "sleep"
    /\ ~mutexPool
    /\ mpc' = "decide"
    /\ \E n \in TaskNumber :
          snap' = [queueSize |-> n, liveNum |-> liveNum, busyNum |-> busyNum]
    /\ UNCHANGED <<taskQ, counts, life, mutexPool, workers, mi, counter, caller, finished>>

\* The tests use the values read above; growing takes the mutex.
ManagerDecide ==
    /\ mpc = "decide"
    /\ \/ /\ GrowWanted
          /\ ~mutexPool
          /\ mutexPool' = TRUE
          /\ mpc' = "scan"
          /\ UNCHANGED <<snap, mi, counter>>
       \/ /\ ~GrowWanted /\ ShrinkWanted
          /\ mpc' = "shrink"
          /\ UNCHANGED <<mutexPool, snap, mi, counter>>
       \/ /\ ~GrowWanted /\ ~ShrinkWanted
          /\ BackToTest
          /\ UNCHANGED mutexPool
    /\ UNCHANGED <<taskQ, counts, life, workers, caller, finished>>

ScanGoesOn == mi < maxNum /\ counter < NUMBER /\ liveNum < maxNum

\* One turn of the loop that starts at most NUMBER workers in empty cells.
ManagerScan ==
    /\ mpc = "scan"
    /\ ScanGoesOn
    /\ mi' = mi + 1
    /\ IF pc[mi] = "none"
         THEN /\ pc' = [pc EXCEPT ![mi] = "lock"]
              /\ counter' = counter + 1
              /\ liveNum' = liveNum + 1
         ELSE UNCHANGED <<liveNum, pc, counter>>
    /\ UNCHANGED <<taskQ, busyNum, exitNum, life, mutexPool, task, mpc, snap, caller, finished>>

ManagerScanned ==
    /\ mpc = "scan"
    /\ ~ScanGoesOn
    /\ mutexPool' = FALSE
    /\ IF ShrinkWanted
         THEN mpc' = "shrink" /\ mi' = 0 /\ counter' = 0 /\ snap' = snap
         ELSE BackToTest
    /\ UNCHANGED <<taskQ, counts, life, workers, caller, finished>>

ManagerShrink ==
    /\ mpc = "shrink"
    /\ ~mutexPool
    /\ exitNum' = NUMBER
    /\ mpc' = "signal"
    /\ UNCHANGED <<taskQ, busyNum, liveNum, life, mutexPool, workers, snap, mi, counter, caller, finished>>

\* NUMBER signals, without the mutex.
ManagerSignal ==
    /\ mpc = "signal"
    /\ SignalNotEmpty
    /\ IF counter + 1 < NUMBER
         THEN counter' = counter + 1 /\ UNCHANGED <<mpc, snap, mi>>
         ELSE BackToTest
    /\ UNCHANGED <<taskQ, counts, life, mutexPool, task, caller, finished>>

Manager == \/ ManagerTest \/ ManagerSnapshot \/ ManagerDecide
           \/ ManagerScan \/ ManagerScanned \/ ManagerShrink \/ ManagerSignal

-----------------------------------------------------------------------------
(* addTask *)

\* shutdown is tested without a mutex; if it is set the call returns.
AddTask(c, t) ==
    /\ created = minNum
    /\ cpc[c] = "idle"
    /\ Fresh(t)
    /\ ~shutdown
    /\ cpc' = [cpc EXCEPT ![c] = "add"]
    /\ carg' = [carg EXCEPT ![c] = t]
    /\ UNCHANGED <<taskQ, counts, life, mutexPool, workers, manager, di, created, finished>>

BeginPush(c) ==
    /\ cpc[c] = "add"
    /\ ~QueueLocked
    /\ cpc' = [cpc EXCEPT ![c] = "push"]
    /\ UNCHANGED <<taskQ, counts, life, mutexPool, workers, manager, carg, di, created, finished>>

EndPush(c) ==
    /\ cpc[c] = "push"
    /\ taskQ' = Append(taskQ, carg[c])
    /\ cpc' = [cpc EXCEPT ![c] = "notify"]
    /\ carg' = [carg EXCEPT ![c] = NoTask]
    /\ UNCHANGED <<counts, life, mutexPool, workers, manager, di, created, finished>>

\* The signal to the workers, with no mutex held.
Notify(c) ==
    /\ cpc[c] = "notify"
    /\ SignalNotEmpty
    /\ cpc' = [cpc EXCEPT ![c] = "idle"]
    /\ UNCHANGED <<taskQ, counts, life, mutexPool, task, manager, carg, di, created, finished>>

-----------------------------------------------------------------------------
(* The destructor: none of its steps takes the mutex *)

Destroy(c) ==
    /\ created = minNum
    /\ cpc[c] = "idle"
    /\ ~shutdown
    /\ shutdown' = TRUE
    /\ cpc' = [cpc EXCEPT ![c] = "join"]
    /\ UNCHANGED <<taskQ, counts, freed, mutexPool, workers, manager, carg, di, created, finished>>

DestroyJoin(c) ==
    /\ cpc[c] = "join"
    /\ mpc = "exited"
    /\ cpc' = [cpc EXCEPT ![c] = "signal"]
    /\ UNCHANGED <<taskQ, counts, life, mutexPool, workers, manager, carg, di, created, finished>>

DestroySignal(c) ==
    /\ cpc[c] = "signal"
    /\ di < liveNum
    /\ SignalNotEmpty
    /\ di' = di + 1
    /\ UNCHANGED <<taskQ, counts, life, mutexPool, task, manager, cpc, carg, created, finished>>

\* The loop has ended: the memory and the mutex are released.
DestroyFree(c) ==
    /\ cpc[c] = "signal"
    /\ di >= liveNum
    /\ freed' = TRUE
    /\ cpc' = [cpc EXCEPT ![c] = "returned"]
    /\ UNCHANGED <<taskQ, counts, shutdown, mutexPool, workers, manager, carg, di, created, finished>>

\* What a caller does on its own once it is inside a call.
Caller(c) == \/ BeginPush(c) \/ EndPush(c) \/ Notify(c)
             \/ DestroyJoin(c) \/ DestroySignal(c) \/ DestroyFree(c)

-----------------------------------------------------------------------------

\* Once the memory is released a thread of the pool has no defined next step.
Step == \/ CreateWorker
        \/ Manager
        \/ \E w \in Slots : Worker(w) \/ SpuriousWake(w)
        \/ \E c \in Callers :
              \/ Caller(c) \/ Destroy(c)
              \/ \E t \in Tasks : AddTask(c, t)

Released == freed /\ UNCHANGED vars

Next == (~freed /\ Step) \/ Released

Spec == Init /\ [][Next]_vars

\* The scheduler runs a runnable thread again and again, and a mutex that is
\* released again and again is obtained; task functions return, as taskFunc of
\* test.cpp does.  Nobody has to call the pool and no spurious wake-up is
\* relied upon.
FairTaskSpec ==
    /\ Spec
    /\ WF_vars(~freed /\ CreateWorker)
    /\ SF_vars(~freed /\ Manager)
    /\ \A w \in Slots : SF_vars(~freed /\ Worker(w))
    /\ \A c \in Callers : SF_vars(~freed /\ Caller(c))

-----------------------------------------------------------------------------
(* Properties *)

\* Every field of the pool and every local variable has its type.
TypeOK ==
    /\ taskQ \in Seq(Tasks)
    /\ busyNum \in Int /\ liveNum \in Int /\ exitNum \in 0..NUMBER
    /\ shutdown \in BOOLEAN /\ mutexPool \in BOOLEAN /\ freed \in BOOLEAN
    /\ pc \in [Slots -> {"none", "lock", "wait", "waiting", "woken", "take",
                         "running", "done", "retire", "quit"}]
    /\ task \in [Slots -> Tasks \union {NoTask}]
    /\ mpc \in {"test", "sleep", "decide", "scan", "shrink", "signal", "exited"}
    /\ snap \in [queueSize : Nat, liveNum : Int, busyNum : Int]
    /\ mi \in 0..maxNum /\ counter \in 0..NUMBER
    /\ created \in 0..minNum
    /\ cpc \in [Callers -> {"idle", "add", "push", "notify",
                            "join", "signal", "returned"}]
    /\ carg \in [Callers -> Tasks \union {NoTask}]
    /\ di \in Nat
    /\ finished \subseteq Tasks \union {NoTask}

\* A worker that found the queue non-empty gets a task from it, although it
\* asked for the size without the queue's mutex and takes the task in another
\* critical section: the function it calls is never the null of the empty Task.
NoNullTask == \A w \in Slots : pc[w] = "running" => task[w] # NoTask

\* liveNum is the number of workers, within the limits given to the
\* constructor, exactly until shutdown and never below it afterwards.
LiveNumExact ==
    /\ minNum <= liveNum /\ liveNum <= maxNum
    /\ LET alive == Cardinality({w \in Slots : pc[w] \notin {"none", "retire"}})
                       + (minNum - created)
       IN  alive <= liveNum /\ (~shutdown => alive = liveNum)

\* The promise is that of TaskPool.  A call of addTask and a take that began
\* before the destructor may still have their effect after it.
Promise == INSTANCE TaskPool WITH
    Capacity <- Cardinality(Tasks),
    pending  <- taskQ,
    running  <- {task[w] : w \in Slots} \ {NoTask},
    closed   <- /\ shutdown
                /\ \A c \in Callers : cpc[c] \notin {"add", "push"}
                /\ \A w \in Slots : pc[w] # "take"

\* The pool implements its abstract promise: each accepted task is started
\* once, in order, although the queue and the pool have different mutexes.
ImplementsTaskPool == Promise!Spec

\* A task waits for ever only while every worker sleeps: as long as one worker
\* is awake the queue is emptied, whatever the signals did.
AwakeDrains ==
    \A t \in Tasks :
       (t \in Queued)
          ~> \/ t \in finished
             \/ shutdown
             \/ Cardinality({w \in Slots : pc[w] = "waiting"}) = liveNum

\* The manager notices shutdown, so pthread_join in the destructor returns:
\* no chain of the two mutexes stops it.
JoinReturns == shutdown ~> (mpc = "exited")

\* The comment in addTask: its signal wakes the worker blocked on the empty
\* queue, so the task is executed unless the pool is destroyed first.
EveryTaskFinishes ==
    \A t \in Tasks : (t \in Queued) ~> (t \in finished \/ shutdown)
=============================================================================
