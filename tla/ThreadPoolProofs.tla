-------------------------- MODULE ThreadPoolProofs --------------------------
(***************************************************************************)
(* Theorems about the C thread pool, for every number of callers, workers  *)
(* and tasks and every capacity.  Each invariant is proved on top of those *)
(* before it: typing and the contents of the ring; the mutex; the counts;  *)
(* the wake-ups; that each task is in one place, which leads to the        *)
(* refinement of TaskPool.                                                 *)
(***************************************************************************)
EXTENDS ThreadPool, TLAPS, FiniteSetTheorems, SequenceTheorems

-----------------------------------------------------------------------------
(* Lemmas about the operators of the model *)

\* The cell after a cell of the ring is a cell of the ring.
LEMMA NextCellType == ASSUME NEW i \in Cells PROVE NextCell(i) \in Cells
  BY PoolAssumption DEF Cells, NextCell

\* There are maxNum cells in threadIDs.
LEMMA SlotsFinite == IsFiniteSet(Slots) /\ Cardinality(Slots) = maxNum
  BY FS_Interval, PoolAssumption DEF Slots

\* A signal wakes one of the workers asleep on notEmpty, or changes nothing if
\* there is none.
LEMMA NotEmptySignalled ==
  ASSUME pc \in [Slots -> WorkerPCs], SignalNotEmpty
  PROVE  /\ pc' \in [Slots -> WorkerPCs]
         /\ \A w \in Slots : pc'[w] = pc[w] \/ (pc[w] = "waiting" /\ pc'[w] = "woken")
         /\ \/ pc' = pc /\ \A w \in Slots : pc[w] # "waiting"
            \/ \E w \in Slots : pc[w] = "waiting" /\ pc' = [pc EXCEPT ![w] = "woken"]
<1>1. CASE {w \in Slots : pc[w] = "waiting"} = {}
  <2>1. pc' = pc BY <1>1 DEF SignalNotEmpty, Signalled
  <2> QED BY <1>1, <2>1
<1>2. CASE {w \in Slots : pc[w] = "waiting"} # {}
  <2>1. PICK w \in Slots : pc[w] = "waiting" /\ pc' = [pc EXCEPT ![w] = "woken"]
    BY <1>2 DEF SignalNotEmpty, Signalled
  <2> QED BY <2>1 DEF WorkerPCs
<1> QED BY <1>1, <1>2

\* The same of the callers asleep on notFull.
LEMMA NotFullSignalled ==
  ASSUME cpc \in [Callers -> CallerPCs], SignalNotFull
  PROVE  /\ cpc' \in [Callers -> CallerPCs]
         /\ \A c \in Callers :
               cpc'[c] = cpc[c] \/ (cpc[c] = "addWaiting" /\ cpc'[c] = "addWoken")
         /\ \/ cpc' = cpc /\ \A c \in Callers : cpc[c] # "addWaiting"
            \/ \E c \in Callers :
                  cpc[c] = "addWaiting" /\ cpc' = [cpc EXCEPT ![c] = "addWoken"]
<1>1. CASE {c \in Callers : cpc[c] = "addWaiting"} = {}
  <2>1. cpc' = cpc BY <1>1 DEF SignalNotFull, Signalled
  <2> QED BY <1>1, <2>1
<1>2. CASE {c \in Callers : cpc[c] = "addWaiting"} # {}
  <2>1. PICK c \in Callers :
           cpc[c] = "addWaiting" /\ cpc' = [cpc EXCEPT ![c] = "addWoken"]
    BY <1>2 DEF SignalNotFull, Signalled
  <2> QED BY <2>1 DEF CallerPCs
<1> QED BY <1>1, <1>2

-----------------------------------------------------------------------------
(* Typing and the contents of the ring *)

\* The queued cells end at queueRear and hold tasks.
RingInv == /\ queueRear = QueueCell(queueSize)
           /\ \A k \in 0..(queueSize - 1) : taskQ[QueueCell(k)] \in Tasks

\* What a worker is about to execute or executes, and what a blocked caller
\* adds, is a task.
TaskInv == \A w \in Slots : pc[w] \in {"taken", "running"} => task[w] \in Tasks
CargInv == \A c \in Callers :
              cpc[c] \in {"addWait", "addWaiting", "addWoken"} => carg[c] \in Tasks

TypeInv == TypeOK /\ RingInv /\ TaskInv /\ CargInv

\* What threadPoolCreate sets up is well typed, with an empty ring.
LEMMA TypeInit == Init => TypeInv
<1> SUFFICES ASSUME Init PROVE TypeInv
  OBVIOUS
<1> USE PoolAssumption DEF Init
<1>1. TypeOK
  <2>1. pc \in [Slots -> WorkerPCs] /\ task \in [Slots -> Tasks \union {NoTask}]
    BY DEF WorkerPCs
  <2>2. cpc \in [Callers -> CallerPCs] /\ carg \in [Callers -> Tasks \union {NoTask}]
    BY DEF CallerPCs
  <2>3. snap \in [queueSize : 0..queueCapacity, liveNum : Int, busyNum : Int]
    BY DEF NoSnap
  <2>4. taskQ \in [Cells -> Tasks \union {NoTask}] /\ queueFront \in Cells
    BY DEF Cells
  <2>5. /\ mpc \in ManagerPCs /\ mi \in 0..maxNum /\ counter \in 0..NUMBER
        /\ exitNum \in 0..NUMBER /\ created \in 0..minNum /\ queueRear \in Cells
    BY DEF ManagerPCs, NUMBER, Cells
  <2>6. /\ queueSize \in 0..queueCapacity /\ busyNum \in Int /\ liveNum \in Int
        /\ di \in Nat /\ finished \subseteq Tasks
    OBVIOUS
  <2>7. shutdown \in BOOLEAN /\ mutexPool \in BOOLEAN /\ freed \in BOOLEAN
    OBVIOUS
  <2> HIDE DEF Init
  <2> QED BY <2>1, <2>2, <2>3, <2>4, <2>5, <2>6, <2>7 DEF TypeOK
<1>2. RingInv
  BY DEF RingInv, QueueCell
<1>3. TaskInv /\ CargInv
  BY DEF TaskInv, CargInv
<1> QED BY <1>1, <1>2, <1>3 DEF TypeInv

\* Taking the oldest task leaves a well-formed, shorter ring.
LEMMA TakeKeepsRing ==
  ASSUME TypeInv, NEW w \in Slots, queueSize # 0, TakeTask(w),
         pc[w] \in {"lock", "woken"}
  PROVE  /\ task' \in [Slots -> Tasks \union {NoTask}] /\ task'[w] \in Tasks
         /\ queueSize' \in 0..queueCapacity
         /\ queueFront' \in Cells /\ queueRear' \in Cells
         /\ RingInv'
<1> USE PoolAssumption
<1> DEFINE n == queueSize
<1>1. n \in 1..queueCapacity /\ queueFront \in Cells /\ queueRear \in Cells
  BY DEF TypeInv, TypeOK
<1>2. QueueCell(0) = queueFront
  BY <1>1 DEF QueueCell, Cells
<1>3. taskQ[queueFront] \in Tasks
  BY <1>1, <1>2 DEF TypeInv, RingInv
<1>4. \A k \in 0..(n - 1) : QueueCell(k)' = QueueCell(k + 1)
  <2> SUFFICES ASSUME NEW k \in 0..(n - 1)
               PROVE  (NextCell(queueFront) + k) % queueCapacity
                        = (queueFront + (k + 1)) % queueCapacity
    BY DEF TakeTask, QueueCell
  <2> QED BY <1>1 DEF NextCell, Cells
<1>5. queueRear' = QueueCell(queueSize)'
  <2>1. (NextCell(queueFront) + (n - 1)) % queueCapacity = QueueCell(n)
    BY <1>1 DEF NextCell, QueueCell, Cells
  <2> QED BY <2>1 DEF TypeInv, RingInv, TakeTask, QueueCell
<1>6. \A k \in 0..(n - 2) : taskQ'[QueueCell(k)'] \in Tasks
  BY <1>1, <1>4 DEF TypeInv, RingInv, TakeTask
<1>7. queueFront' \in Cells BY <1>1, NextCellType DEF TakeTask
<1> QED
  BY <1>1, <1>3, <1>5, <1>6, <1>7 DEF TakeTask, RingInv, TypeInv, TypeOK

\* A pushed task occupies the cell after the queued ones.
LEMMA PushKeepsRing ==
  ASSUME TypeInv, queueSize # queueCapacity, NEW t \in Tasks,
         taskQ' = [taskQ EXCEPT ![queueRear] = t],
         queueRear' = NextCell(queueRear),
         queueSize' = queueSize + 1,
         queueFront' = queueFront
  PROVE  /\ taskQ' \in [Cells -> Tasks \union {NoTask}]
         /\ queueSize' \in 0..queueCapacity
         /\ queueFront' \in Cells /\ queueRear' \in Cells
         /\ RingInv'
<1> USE PoolAssumption
<1> DEFINE n == queueSize
<1>1. n \in 0..(queueCapacity - 1) /\ queueFront \in Cells /\ queueRear \in Cells
  BY DEF TypeInv, TypeOK
<1>2. \A k \in 0..n : QueueCell(k)' = QueueCell(k) /\ QueueCell(k) \in Cells
  BY <1>1 DEF QueueCell, Cells
<1>3. \A k \in 0..(n - 1) : QueueCell(k) # QueueCell(n)
  BY <1>1 DEF QueueCell, Cells
<1>4. queueRear = QueueCell(n)
  BY DEF TypeInv, RingInv
<1>5. queueRear' = QueueCell(queueSize)'
  <2>1. NextCell(QueueCell(n)) = (queueFront + (n + 1)) % queueCapacity
    BY <1>1 DEF NextCell, QueueCell, Cells
  <2> QED BY <2>1, <1>4 DEF QueueCell
<1>6. \A k \in 0..n : taskQ'[QueueCell(k)] \in Tasks
  BY <1>1, <1>2, <1>3, <1>4 DEF TypeInv, TypeOK, RingInv
<1>7. queueRear' \in Cells BY <1>1, NextCellType
<1> QED
  BY <1>1, <1>2, <1>5, <1>6, <1>7 DEF RingInv, TypeInv, TypeOK

\* What a worker does with the mutex held preserves typing.
LEMMA ExamineKeepsType ==
  ASSUME TypeInv, NEW w \in Slots, Examine(w), pc[w] \in {"lock", "woken"},
         busyNum' \in Int, liveNum' \in Int, exitNum' \in 0..NUMBER,
         UNCHANGED <<life, manager, di, created, finished>>
  PROVE  TypeInv'
<1> USE PoolAssumption DEF TypeInv, WorkerPCs, CallerPCs
<1>1. CASE /\ UNCHANGED <<ring, task, cpc, carg>> /\ mutexPool' \in BOOLEAN
           /\ \E s \in {"wait", "quit"} : pc' = [pc EXCEPT ![w] = s]
  <2>1. pc' \in [Slots -> WorkerPCs] /\ TaskInv'
    BY <1>1 DEF TypeOK, TaskInv
  <2>2. RingInv' /\ CargInv'
    BY <1>1 DEF RingInv, CargInv, QueueCell, ring
  <2>3. TypeOK'
    BY <1>1, <2>1 DEF TypeOK, ring, life, manager
  <2> QED BY <2>1, <2>2, <2>3
<1>2. CASE queueSize # 0 /\ TakeTask(w)
  <2>1. cpc' \in [Callers -> CallerPCs] /\ CargInv'
    BY <1>2, NotFullSignalled DEF TakeTask, TypeOK, CargInv
  <2>2. TaskInv'
    BY <1>2, TakeKeepsRing DEF TakeTask, TypeOK, TaskInv
  <2>3. TypeOK'
    BY <1>2, <2>1, TakeKeepsRing DEF TakeTask, TypeOK, life, manager
  <2> QED BY <1>2, <2>1, <2>2, <2>3, TakeKeepsRing
<1> QED BY <1>1, <1>2 DEF Examine, ring

\* What a caller does with the mutex held preserves typing.
LEMMA TryAddKeepsType ==
  ASSUME TypeInv, NEW c \in Callers, NEW t \in Tasks, TryAdd(c, t),
         UNCHANGED <<counts, life, task, manager, di, created, finished>>
  PROVE  TypeInv'
<1> USE PoolAssumption DEF TypeInv, WorkerPCs, CallerPCs
<1>1. CASE UNCHANGED <<ring, pc>>
  <2>1. cpc' \in [Callers -> CallerPCs] /\ mutexPool' \in BOOLEAN
    BY <1>1 DEF TryAdd, TypeOK, ring
  <2>2. carg' \in [Callers -> Tasks \union {NoTask}] /\ CargInv'
    BY <1>1 DEF TryAdd, TypeOK, CargInv, ring
  <2>3. RingInv' /\ TaskInv'
    BY <1>1 DEF RingInv, TaskInv, QueueCell, ring
  <2>4. TypeOK'
    BY <1>1, <2>1, <2>2 DEF TypeOK, ring, counts, life, manager
  <2> QED BY <2>2, <2>3, <2>4
<1>2. CASE /\ queueSize # queueCapacity /\ ~shutdown
           /\ taskQ' = [taskQ EXCEPT ![queueRear] = t]
           /\ queueRear' = NextCell(queueRear)
           /\ queueSize' = queueSize + 1
           /\ SignalNotEmpty
           /\ cpc' = [cpc EXCEPT ![c] = "idle"]
           /\ carg' = [carg EXCEPT ![c] = NoTask]
           /\ UNCHANGED <<queueFront, mutexPool>>
  <2>1. pc' \in [Slots -> WorkerPCs] /\ TaskInv'
    BY <1>2, NotEmptySignalled DEF TypeOK, TaskInv
  <2>2. CargInv' BY <1>2 DEF TypeOK, CargInv
  <2>3. TypeOK' /\ RingInv'
    BY <1>2, <2>1, PushKeepsRing DEF TypeOK, counts, life, manager
  <2> QED BY <2>1, <2>2, <2>3
<1> QED BY <1>1, <1>2 DEF TryAdd, ring

\* Every step of every thread preserves the types and the shape of the ring.
LEMMA TypeStep == TypeInv /\ [Next]_vars => TypeInv'
<1> SUFFICES ASSUME TypeInv, [Next]_vars PROVE TypeInv'
  OBVIOUS
<1> USE PoolAssumption DEF TypeInv, WorkerPCs, ManagerPCs, CallerPCs, NUMBER
<1>r. UNCHANGED ring => RingInv'
  BY DEF RingInv, ring, QueueCell
<1>b. BackToTest => /\ mpc' \in ManagerPCs /\ mi' \in 0..maxNum /\ counter' \in 0..NUMBER
                    /\ snap' \in [queueSize : 0..queueCapacity, liveNum : Int, busyNum : Int]
  BY DEF BackToTest, NoSnap
<1>1. CASE CreateWorker
  <2>1. created' \in 0..minNum
    BY <1>1 DEF CreateWorker, TypeOK
  <2>2. pc' \in [Slots -> WorkerPCs] /\ TaskInv'
    BY <1>1 DEF CreateWorker, TypeOK, TaskInv
  <2> QED
    BY <1>1, <1>r, <2>1, <2>2 DEF CreateWorker, TypeOK, CargInv,
       ring, counts, life, manager
<1>2. CASE Manager
  <2>1. CASE ManagerTest
    BY <1>r, <2>1 DEF ManagerTest, TypeOK, TaskInv, CargInv,
       ring, counts, life, workers, caller
  <2>2. CASE ManagerSnapshot
    BY <1>r, <2>2 DEF ManagerSnapshot, TypeOK, TaskInv, CargInv,
       ring, counts, life, workers, caller
  <2>3. CASE ManagerBusyNum
    BY <1>r, <2>3 DEF ManagerBusyNum, TypeOK, TaskInv, CargInv,
       ring, counts, life, workers, caller
  <2>4. CASE ManagerDecide
    BY <1>r, <1>b, <2>4 DEF ManagerDecide, TypeOK, TaskInv, CargInv,
       ring, counts, life, workers, caller
  <2>5. CASE ManagerScan
    BY <1>r, <2>5 DEF ManagerScan, ScanGoesOn, TypeOK, TaskInv, CargInv,
       ring, life, caller
  <2>6. CASE ManagerScanned
    <3>1. /\ mpc' \in ManagerPCs /\ mi' \in 0..maxNum /\ counter' \in 0..NUMBER
          /\ snap' \in [queueSize : 0..queueCapacity, liveNum : Int, busyNum : Int]
      BY <1>b, <2>6 DEF ManagerScanned, TypeOK
    <3> QED
      BY <1>r, <2>6, <3>1 DEF ManagerScanned, TypeOK, TaskInv, CargInv,
         ring, counts, life, workers, caller
  <2>7. CASE ManagerShrink
    BY <1>r, <2>7 DEF ManagerShrink, TypeOK, TaskInv, CargInv,
       ring, life, workers, caller
  <2>8. CASE ManagerSignal
    <3>1. pc' \in [Slots -> WorkerPCs] /\ TaskInv'
      BY <2>8, NotEmptySignalled DEF ManagerSignal, TypeOK, TaskInv
    <3> QED
      BY <1>r, <1>b, <2>8, <3>1 DEF ManagerSignal, TypeOK, CargInv,
         ring, counts, life, caller
  <2> QED
    BY <1>2, <2>1, <2>2, <2>3, <2>4, <2>5, <2>6, <2>7, <2>8 DEF Manager
<1>3. ASSUME NEW w \in Slots, Worker(w) \/ SpuriousWake(w) PROVE TypeInv'
  <2>1. CASE Lock(w)
    BY <2>1, ExamineKeepsType DEF Lock, TypeOK, counts
  <2>2. CASE Wait(w)
    BY <1>r, <2>2 DEF Wait, TypeOK, TaskInv, CargInv, ring, counts, life, manager, caller
  <2>3. CASE SpuriousWake(w)
    BY <1>r, <2>3 DEF SpuriousWake, TypeOK, TaskInv, CargInv,
       ring, counts, life, manager, caller
  <2>4. CASE Wake(w) /\ Retire(w)
    BY <1>r, <2>4 DEF Wake, Retire, TypeOK, TaskInv, CargInv, ring, life, manager
  <2>5. CASE Wake(w) /\ Resume(w)
    <3>1. exitNum' \in 0..NUMBER BY <2>5 DEF Resume, TypeOK
    <3> QED BY <2>5, <3>1, ExamineKeepsType DEF Wake, Resume, TypeOK
  <2>6. CASE Start(w)
    BY <1>r, <2>6 DEF Start, TypeOK, TaskInv, CargInv, ring, life, manager, caller
  <2>7. CASE Finish(w)
    BY <1>r, <2>7 DEF Finish, TypeOK, TaskInv, CargInv, ring, life, manager, caller
  <2>8. CASE ThreadExit(w)
    BY <1>r, <2>8 DEF ThreadExit, TypeOK, TaskInv, CargInv,
       ring, counts, life, manager, caller
  <2> QED
    BY <1>3, <2>1, <2>2, <2>3, <2>4, <2>5, <2>6, <2>7, <2>8 DEF Worker, Wake
<1>4. ASSUME NEW c \in Callers,
             \/ Caller(c) \/ SpuriousAddWake(c) \/ Destroy(c)
             \/ \E t \in Tasks : Add(c, t)
      PROVE  TypeInv'
  <2>1. CASE \E t \in Tasks : Add(c, t)
    BY <2>1, TryAddKeepsType DEF Add
  <2>2. CASE AddWait(c)
    BY <1>r, <2>2 DEF AddWait, TypeOK, TaskInv, CargInv,
       ring, counts, life, workers, manager
  <2>3. CASE SpuriousAddWake(c)
    BY <1>r, <2>3 DEF SpuriousAddWake, TypeOK, TaskInv, CargInv,
       ring, counts, life, workers, manager
  <2>4. CASE AddWake(c)
    <3>1. carg[c] \in Tasks BY <2>4 DEF AddWake, CargInv
    <3> QED BY <2>4, <3>1, TryAddKeepsType DEF AddWake
  <2>5. CASE Destroy(c)
    BY <1>r, <2>5 DEF Destroy, TypeOK, TaskInv, CargInv,
       ring, counts, workers, manager
  <2>6. CASE DestroyJoin(c) \/ DestroySignalled(c)
    BY <1>r, <2>6 DEF DestroyJoin, DestroySignalled, TypeOK, TaskInv, CargInv,
       ring, counts, life, workers, manager
  <2>7. CASE DestroySignal(c)
    <3>1. pc' \in [Slots -> WorkerPCs] /\ TaskInv'
      BY <2>7, NotEmptySignalled DEF DestroySignal, TypeOK, TaskInv
    <3> QED
      BY <1>r, <2>7, <3>1 DEF DestroySignal, TypeOK, CargInv,
         ring, counts, life, manager
  <2>8. CASE DestroyFree(c)
    BY <1>r, <2>8 DEF DestroyFree, TypeOK, TaskInv, CargInv,
       ring, counts, workers, manager
  <2> QED
    BY <1>4, <2>1, <2>2, <2>3, <2>4, <2>5, <2>6, <2>7, <2>8 DEF Caller
<1>5. CASE UNCHANGED vars
  BY <1>r, <1>5 DEF vars, TypeOK, TaskInv, CargInv,
     ring, counts, life, workers, manager, caller
<1> QED
  BY <1>1, <1>2, <1>3, <1>4, <1>5 DEF Next, Step, Released

\* The fields of the pool and the locals of its threads keep their types, the
\* ring's indices and counters stay within their bounds, and what a worker
\* executes is a task that was added.
THEOREM TypeCorrect == Spec => []TypeOK
<1>1. Spec => []TypeInv
  BY TypeInit, TypeStep, PTL DEF Spec
<1>2. TypeInv => TypeOK
  BY DEF TypeInv
<1> QED BY <1>1, <1>2, PTL

-----------------------------------------------------------------------------
(* The mutex *)

\* A thread that has found that it must wait holds the mutex alone until it
\* sleeps, so what it found is still true then; so does the manager while it
\* starts workers.
MutexInv ==
    /\ \A w \in Slots : pc[w] = "wait" =>
          /\ mutexPool /\ queueSize = 0 /\ mpc # "scan"
          /\ \A v \in Slots : pc[v] = "wait" => v = w
          /\ \A c \in Callers : cpc[c] # "addWait"
    /\ \A c \in Callers : cpc[c] = "addWait" =>
          /\ mutexPool /\ queueSize = queueCapacity /\ mpc # "scan"
          /\ \A d \in Callers : cpc[d] = "addWait" => d = c
    /\ mpc = "scan" => mutexPool

\* Every step leaves the mutex with at most one thread.
LEMMA MutexStep == TypeInv /\ MutexInv /\ [Next]_vars => MutexInv'
<1> SUFFICES ASSUME TypeInv, MutexInv, [Next]_vars PROVE MutexInv'
  OBVIOUS
<1> USE DEF MutexInv, TypeInv, TypeOK
\* A worker that has the mutex and examines the ring.
<1>e. ASSUME NEW w \in Slots, ~mutexPool, Examine(w), mpc' = mpc PROVE MutexInv'
  <2>1. CASE queueSize # 0 /\ TakeTask(w)
    <3>1. \A c \in Callers : cpc'[c] = "addWait" => cpc[c] = "addWait"
      BY <2>1, NotFullSignalled DEF TakeTask, CallerPCs
    <3> QED BY <1>e, <2>1, <3>1 DEF TakeTask
  <2>2. CASE UNCHANGED <<ring, task, cpc, carg>>
    BY <1>e, <2>2 DEF Examine, ring, TakeTask
  <2> QED BY <1>e, <2>1, <2>2 DEF Examine, ring
<1>t. ASSUME NEW c \in Callers, NEW t, ~mutexPool, TryAdd(c, t), mpc' = mpc
      PROVE  MutexInv'
  <2>1. CASE UNCHANGED <<ring, pc>>
    BY <1>t, <2>1 DEF TryAdd, ring
  <2>2. CASE SignalNotEmpty /\ cpc' = [cpc EXCEPT ![c] = "idle"] /\ mutexPool' = mutexPool
    <3>1. \A w \in Slots : pc'[w] = "wait" => pc[w] = "wait"
      BY <2>2, NotEmptySignalled DEF WorkerPCs
    <3> QED BY <1>t, <2>2, <3>1
  <2> QED BY <1>t, <2>1, <2>2 DEF TryAdd, ring
\* A signal outside the mutex.
<1>s. ASSUME SignalNotEmpty, UNCHANGED <<ring, mutexPool>>,
             \A c \in Callers : cpc'[c] = "addWait" => cpc[c] = "addWait",
             mpc' = "scan" => mpc = "scan"
      PROVE  MutexInv'
  <2>1. \A w \in Slots : pc'[w] = "wait" => pc[w] = "wait"
    BY <1>s, NotEmptySignalled DEF WorkerPCs
  <2> QED BY <1>s, <2>1 DEF ring
<1>1. CASE CreateWorker
  BY <1>1 DEF CreateWorker, ring, manager
<1>2. CASE Manager
  <2>1. CASE ManagerSignal
    BY <1>s, <2>1 DEF ManagerSignal, BackToTest, caller
  <2>2. CASE ManagerScan
    BY <2>2 DEF ManagerScan, ring, caller
  <2>3. CASE ManagerScanned
    BY <2>3 DEF ManagerScanned, BackToTest, ring, workers, caller
  <2>4. CASE ManagerDecide
    BY <2>4 DEF ManagerDecide, BackToTest, ring, workers, caller
  <2> QED
    BY <1>2, <2>1, <2>2, <2>3, <2>4 DEF Manager, ManagerTest, ManagerSnapshot,
       ManagerBusyNum, ManagerShrink, ring, workers, caller
<1>3. ASSUME NEW w \in Slots, Worker(w) \/ SpuriousWake(w) PROVE MutexInv'
  <2>1. CASE Lock(w) \/ (Wake(w) /\ Resume(w))
    BY <1>e, <2>1 DEF Lock, Wake, Resume, manager
  <2>2. CASE Wake(w) /\ Retire(w)
    BY <2>2 DEF Wake, Retire, ring, manager
  <2>3. CASE Wait(w)
    BY <2>3 DEF Wait, ring, manager, caller
  <2> QED
    BY <1>3, <2>1, <2>2, <2>3 DEF Worker, Wake, SpuriousWake, Start, Finish,
       ThreadExit, ring, manager, caller
<1>4. ASSUME NEW c \in Callers,
             \/ Caller(c) \/ SpuriousAddWake(c) \/ Destroy(c)
             \/ \E t \in Tasks : Add(c, t)
      PROVE  MutexInv'
  <2>1. CASE AddWake(c) \/ \E t \in Tasks : Add(c, t)
    BY <1>t, <2>1 DEF AddWake, Add, manager
  <2>2. CASE AddWait(c)
    BY <2>2 DEF AddWait, ring, workers, manager
  <2>3. CASE DestroySignal(c)
    BY <1>s, <2>3 DEF DestroySignal, manager
  <2> QED
    BY <1>4, <2>1, <2>2, <2>3 DEF Caller, SpuriousAddWake, Destroy, DestroyJoin,
       DestroySignalled, DestroyFree, ring, workers, manager
<1>5. CASE UNCHANGED vars
  BY <1>5 DEF vars, ring, workers, manager, caller
<1> QED
  BY <1>1, <1>2, <1>3, <1>4, <1>5 DEF Next, Step, Released

\* At most one thread holds mutexPool, and it is marked locked exactly while
\* one of them is at a place where the code holds it.
THEOREM Mutex == Spec => [](TypeInv /\ MutexInv)
<1>1. Init => TypeInv /\ MutexInv
  BY TypeInit DEF Init, MutexInv
<1>2. (TypeInv /\ MutexInv) /\ [Next]_vars => (TypeInv /\ MutexInv)'
  BY TypeStep, MutexStep
<1> QED BY <1>1, <1>2, PTL DEF Spec

-----------------------------------------------------------------------------
(* The counts *)

\* While threadPoolCreate is still starting workers nobody can have added a
\* task or destroyed the pool, so the manager starts none, and the cells not
\* reached yet are empty.
CreateInv ==
    created < minNum =>
       /\ ~shutdown /\ queueSize = 0 /\ snap.queueSize = 0 /\ mpc # "scan"
       /\ \A w \in Slots : w >= created => pc[w] = "none"
       /\ \A c \in Callers : cpc[c] = "idle"

\* Workers quit only at shutdown, and the manager's copy of liveNum is not
\* negative.
QuitInv == /\ \A w \in Slots : pc[w] = "quit" => shutdown
           /\ snap.liveNum >= 0

CountInv == LiveNumExact /\ BusyNumExact /\ CreateInv /\ QuitInv

Busy == {w \in Slots : pc[w] = "running"}

\* Adding an element to a subset of a finite set or removing one changes the
\* subset's cardinality by one.
LEMMA CountStep ==
  ASSUME NEW F, IsFiniteSet(F), NEW A \in SUBSET F, NEW x \in F
  PROVE  /\ Cardinality(A) \in Nat
         /\ x \notin A => Cardinality(A \union {x}) = Cardinality(A) + 1
         /\ x \in A => Cardinality(A \ {x}) = Cardinality(A) - 1
<1>1. IsFiniteSet(A) BY FS_Subset
<1> QED BY <1>1, FS_CardinalityType, FS_AddElement, FS_RemoveElement

\* The counts depend only on who is counted.
LEMMA CountsSame ==
  ASSUME CountInv, Counted' = Counted, Busy' = Busy,
         UNCHANGED <<busyNum, liveNum, created>>, shutdown => shutdown'
  PROVE  LiveNumExact' /\ BusyNumExact'
BY DEF CountInv, LiveNumExact, BusyNumExact, Busy

\* A woken sleeper is still counted, and not yet busy.
LEMMA SignalKeepsCounts ==
  ASSUME TypeInv, SignalNotEmpty
  PROVE  /\ Counted' = Counted /\ Busy' = Busy
         /\ \A w \in Slots : pc'[w] \in {"quit", "none"} <=> pc[w] \in {"quit", "none"}
         /\ \A w \in Slots : pc'[w] = "quit" <=> pc[w] = "quit"
  BY NotEmptySignalled DEF TypeInv, TypeOK, Counted, Busy, WorkerPCs

\* threadPoolCreate sets liveNum to minNum before the workers are started.
LEMMA CountInit == Init => CountInv
<1> SUFFICES ASSUME Init PROVE CountInv
  OBVIOUS
<1>1. Counted = {} /\ Busy = {}
  BY DEF Init, Counted, Busy
<1>2. LiveNumExact /\ BusyNumExact
  <2>1. Cardinality(Counted) = 0 /\ Cardinality(Busy) = 0
    BY <1>1, FS_EmptySet
  <2> QED BY <2>1, PoolAssumption DEF Init, LiveNumExact, BusyNumExact, Busy
<1> QED BY <1>2 DEF Init, CountInv, CreateInv, QuitInv, NoSnap, Slots

\* A worker that examines the ring remains counted unless it is told to quit,
\* and is never busy.
LEMMA ExamineKeepsCounts ==
  ASSUME TypeInv, CountInv, NEW w \in Slots, pc[w] \in {"lock", "woken"},
         Examine(w), UNCHANGED <<busyNum, liveNum, created, shutdown, snap, mpc>>
  PROVE  CountInv'
<1> USE DEF CountInv
<1>1. /\ pc' \in [Slots -> WorkerPCs]
      /\ pc' = [pc EXCEPT ![w] = pc'[w]]
      /\ pc'[w] \in {"wait", "taken", "quit"}
      /\ pc'[w] = "quit" => shutdown
  BY DEF Examine, TakeTask, TypeInv, TypeOK, WorkerPCs, ring
<1>2. Counted' = Counted /\ Busy' = Busy
  BY <1>1 DEF Counted, Busy
<1>3. LiveNumExact' /\ BusyNumExact'
  BY <1>2, CountsSame
<1>4. queueSize = 0 => queueSize' = 0 /\ cpc' = cpc
  BY DEF Examine, ring
<1>5. CreateInv' /\ QuitInv'
  BY <1>1, <1>4 DEF CreateInv, QuitInv
<1> QED BY <1>3, <1>5

\* The counts survive every step.
LEMMA CountInvStep == TypeInv /\ CountInv /\ [Next]_vars => CountInv'
<1> SUFFICES ASSUME TypeInv, CountInv, [Next]_vars PROVE CountInv'
  OBVIOUS
<1> USE PoolAssumption DEF CountInv
<1>p. /\ pc \in [Slots -> WorkerPCs] /\ liveNum \in Int /\ busyNum \in Int
      /\ created \in 0..minNum /\ Slots = 0..(maxNum - 1)
  BY DEF TypeInv, TypeOK, Slots
<1>f. IsFiniteSet(Slots) BY SlotsFinite
<1>c. Counted \in SUBSET Slots /\ Counted' \in SUBSET Slots BY DEF Counted
\* Steps that change nobody's place among the counted and the busy.
<1>s. ASSUME Counted' = Counted, Busy' = Busy,
             UNCHANGED <<busyNum, liveNum, created, queueSize>>,
             shutdown => shutdown', created < minNum => ~shutdown',
             \A w \in Slots : pc'[w] = "quit" => pc[w] = "quit",
             \A w \in Slots : pc[w] = "none" => pc'[w] = "none",
             created < minNum => snap'.queueSize = 0 /\ mpc' # "scan",
             created < minNum => cpc' = cpc,
             snap'.liveNum >= 0
      PROVE  CountInv'
  BY <1>s, CountsSame DEF CreateInv, QuitInv
<1>1. CASE CreateWorker
  <2>1. created \in Slots /\ pc[created] = "none" BY <1>1, <1>p DEF CreateWorker, CreateInv
  <2>2. Counted' = Counted \union {created} /\ created \notin Counted /\ Busy' = Busy
    BY <1>1, <1>p, <2>1 DEF CreateWorker, Counted, Busy, WorkerPCs
  <2>3. Cardinality(Counted') = Cardinality(Counted) + 1 /\ Cardinality(Counted) \in Nat
    BY <1>f, <2>1, <2>2, CountStep, <1>c
  <2>4. LiveNumExact'
    BY <1>1, <1>p, <2>3 DEF CreateWorker, LiveNumExact, counts, life
  <2>5. BusyNumExact'
    BY <1>1, <2>2 DEF CreateWorker, BusyNumExact, Busy, counts
  <2>6. CreateInv' /\ QuitInv'
    BY <1>1, <1>p DEF CreateWorker, CreateInv, QuitInv, ring, life, manager
  <2> QED BY <2>4, <2>5, <2>6
<1>2. CASE Manager
  <2>1. CASE ManagerScan
    <3>1. ~(created < minNum) /\ liveNum < maxNum /\ mi \in Slots
      BY <1>p, <2>1 DEF ManagerScan, ScanGoesOn, CreateInv, TypeInv, TypeOK
    <3>2. CASE pc[mi] = "none"
      <4>1. /\ Counted' = Counted \union {mi} /\ mi \notin Counted /\ Busy' = Busy
        BY <1>p, <2>1, <3>1, <3>2 DEF ManagerScan, Counted, Busy, WorkerPCs
      <4>2. Cardinality(Counted') = Cardinality(Counted) + 1 /\ Cardinality(Counted) \in Nat
        BY <1>f, <3>1, <4>1, CountStep, <1>c
      <4>3. LiveNumExact'
        BY <1>p, <2>1, <3>1, <3>2, <4>2 DEF ManagerScan, LiveNumExact, life, caller
      <4>4. BusyNumExact'
        BY <2>1, <4>1 DEF ManagerScan, BusyNumExact, Busy
      <4> QED
        BY <1>p, <2>1, <3>1, <3>2, <4>3, <4>4
           DEF ManagerScan, CreateInv, QuitInv, life, caller
    <3>3. CASE pc[mi] # "none"
      BY <1>s, <2>1, <3>1, <3>3 DEF ManagerScan, Counted, Busy, CreateInv, QuitInv,
         ring, life, caller
    <3> QED BY <3>2, <3>3
  <2>2. CASE ManagerSignal
    BY <1>s, <2>2, SignalKeepsCounts DEF ManagerSignal, BackToTest, NoSnap,
       CreateInv, QuitInv, ring, counts, life, caller
  <2>3. CASE ManagerSnapshot
    BY <1>s, <1>p, <2>3 DEF ManagerSnapshot, Counted, Busy, CreateInv, QuitInv,
       LiveNumExact, TypeInv, TypeOK, ring, counts, life, workers, caller
  <2>4. CASE ManagerDecide
    <3>1. created < minNum => ~GrowWanted
      BY DEF GrowWanted, CreateInv, QuitInv, TypeInv, TypeOK
    <3> QED
      BY <1>s, <2>4, <3>1 DEF ManagerDecide, BackToTest, NoSnap, Counted, Busy,
         CreateInv, QuitInv, ring, counts, life, workers, caller
  <2>5. CASE ManagerScanned
    BY <1>s, <2>5 DEF ManagerScanned, BackToTest, NoSnap, Counted, Busy,
       CreateInv, QuitInv, ring, counts, life, workers, caller
  <2>6. CASE ManagerTest \/ ManagerBusyNum \/ ManagerShrink
    BY <1>s, <2>6 DEF ManagerTest, ManagerBusyNum, ManagerShrink, Counted, Busy,
       CreateInv, QuitInv, TypeInv, TypeOK, ring, counts, life, workers, caller
  <2> QED
    BY <1>2, <2>1, <2>2, <2>3, <2>4, <2>5, <2>6 DEF Manager
<1>3. ASSUME NEW w \in Slots, Worker(w) \/ SpuriousWake(w) PROVE CountInv'
  <2>1. CASE Lock(w) \/ (Wake(w) /\ Resume(w))
    BY <2>1, ExamineKeepsCounts DEF Lock, Wake, Resume, counts, life, manager
  <2>2. CASE Wake(w) /\ Retire(w)
    <3>1. /\ Counted' = Counted \ {w} /\ w \in Counted /\ Busy' = Busy
      BY <1>p, <2>2 DEF Wake, Retire, Counted, Busy
    <3>2. Cardinality(Counted') = Cardinality(Counted) - 1 /\ Cardinality(Counted) \in Nat
      BY <1>f, <3>1, CountStep, <1>c
    <3>3. LiveNumExact'
      BY <1>p, <2>2, <3>2 DEF Wake, Retire, MayRetire, LiveNumExact, life
    <3>4. BusyNumExact' /\ CreateInv' /\ QuitInv'
      BY <1>p, <2>2, <3>1 DEF Wake, Retire, BusyNumExact, Busy, CreateInv, QuitInv,
         ring, life, manager
    <3> QED BY <3>3, <3>4
  <2>3. CASE Wait(w) \/ SpuriousWake(w)
    BY <1>s, <1>p, <2>3 DEF Wait, SpuriousWake, Counted, Busy, CreateInv, QuitInv,
       ring, counts, life, manager, caller
  <2>4. CASE Start(w)
    <3>1. /\ Counted' = Counted /\ Busy' = Busy \union {w} /\ w \notin Busy
      BY <1>p, <2>4 DEF Start, Counted, Busy
    <3>2. Cardinality(Busy') = Cardinality(Busy) + 1
      BY <1>f, <3>1, CountStep DEF Busy
    <3> QED
      BY <1>p, <2>4, <3>1, <3>2 DEF Start, LiveNumExact, BusyNumExact, Busy,
         CreateInv, QuitInv, ring, life, manager, caller
  <2>5. CASE Finish(w)
    <3>1. /\ Counted' = Counted /\ Busy' = Busy \ {w} /\ w \in Busy
      BY <1>p, <2>5 DEF Finish, Counted, Busy
    <3>2. Cardinality(Busy') = Cardinality(Busy) - 1
      BY <1>f, <3>1, CountStep DEF Busy
    <3> QED
      BY <1>p, <2>5, <3>1, <3>2 DEF Finish, LiveNumExact, BusyNumExact, Busy,
         CreateInv, QuitInv, ring, life, manager, caller
  <2>6. CASE ThreadExit(w) /\ pc[w] = "retire"
    BY <1>s, <1>p, <2>6 DEF ThreadExit, Counted, Busy, CreateInv, QuitInv,
       ring, counts, life, manager, caller
  <2>7. CASE ThreadExit(w) /\ pc[w] = "quit"
    <3>1. /\ Counted' = Counted \ {w} /\ w \in Counted /\ Busy' = Busy /\ shutdown
      BY <1>p, <2>7 DEF ThreadExit, Counted, Busy, QuitInv
    <3>2. Cardinality(Counted') = Cardinality(Counted) - 1 /\ Cardinality(Counted) \in Nat
      BY <1>f, <3>1, CountStep, <1>c
    <3>3. LiveNumExact'
      BY <1>p, <2>7, <3>1, <3>2 DEF ThreadExit, LiveNumExact, counts, life, caller
    <3> QED
      BY <1>p, <2>7, <3>1, <3>3 DEF ThreadExit, BusyNumExact, Busy,
         CreateInv, QuitInv, ring, counts, life, manager, caller
  <2> QED
    BY <1>3, <2>1, <2>2, <2>3, <2>4, <2>5, <2>6, <2>7 DEF Worker, Wake, ThreadExit
<1>4. ASSUME NEW c \in Callers,
             \/ Caller(c) \/ SpuriousAddWake(c) \/ Destroy(c)
             \/ \E t \in Tasks : Add(c, t)
      PROVE  CountInv'
  <2>1. CASE AddWake(c) \/ \E t \in Tasks : Add(c, t)
    <3>1. ~(created < minNum)
      BY <1>p, <2>1 DEF AddWake, Add, CreateInv
    <3>2. PICK t : TryAdd(c, t) /\ UNCHANGED <<counts, life, manager, created>>
      BY <2>1 DEF AddWake, Add
    <3>3. /\ Counted' = Counted /\ Busy' = Busy
          /\ \A w \in Slots : pc'[w] = "quit" <=> pc[w] = "quit"
      BY <3>2, SignalKeepsCounts DEF TryAdd, Counted, Busy
    <3> QED
      BY <1>p, <3>1, <3>2, <3>3, CountsSame DEF CreateInv, QuitInv,
         counts, life, manager
  <2>2. CASE Destroy(c)
    BY <1>s, <1>p, <2>2 DEF Destroy, Counted, Busy, CreateInv, QuitInv,
       ring, counts, workers, manager
  <2>3. CASE DestroySignal(c)
    BY <1>s, <2>3, SignalKeepsCounts DEF DestroySignal, CreateInv, QuitInv,
       ring, counts, life, manager
  <2> QED
    BY <1>4, <1>s, <2>1, <2>2, <2>3 DEF Caller, SpuriousAddWake, AddWait,
       DestroyJoin, DestroySignalled, DestroyFree, Counted, Busy, CreateInv, QuitInv,
       ring, counts, life, workers, manager
<1>5. CASE UNCHANGED vars
  BY <1>s, <1>5 DEF vars, Counted, Busy, CreateInv, QuitInv,
     ring, counts, life, workers, manager, caller
<1> QED
  BY <1>1, <1>2, <1>3, <1>4, <1>5 DEF Next, Step, Released

\* liveNum is the number of workers and stays between minNum and maxNum.
THEOREM LiveNumCorrect == Spec => []LiveNumExact
<1>1. Init => TypeInv /\ CountInv
  BY TypeInit, CountInit
<1>2. (TypeInv /\ CountInv) /\ [Next]_vars => (TypeInv /\ CountInv)'
  BY TypeStep, CountInvStep
<1>3. CountInv => LiveNumExact
  BY DEF CountInv
<1> QED BY <1>1, <1>2, <1>3, PTL DEF Spec

\* busyNum is the number of workers inside a task.
THEOREM BusyNumCorrect == Spec => []BusyNumExact
<1>1. Init => TypeInv /\ CountInv
  BY TypeInit, CountInit
<1>2. (TypeInv /\ CountInv) /\ [Next]_vars => (TypeInv /\ CountInv)'
  BY TypeStep, CountInvStep
<1>3. CountInv => BusyNumExact
  BY DEF CountInv
<1> QED BY <1>1, <1>2, <1>3, PTL DEF Spec

-----------------------------------------------------------------------------
(* The wake-ups *)

WokenCallers == {c \in Callers : cpc[c] = "addWoken"}
Lookers == {w \in Slots : pc[w] \in {"lock", "woken"}}

\* A larger set of a finite universe has at least as many elements.
LEMMA CountGrows ==
  ASSUME NEW F, IsFiniteSet(F), NEW B \in SUBSET F, NEW A \in SUBSET B
  PROVE  Cardinality(A) <= Cardinality(B)
<1>1. IsFiniteSet(B) BY FS_Subset
<1> QED BY <1>1, FS_Subset

\* Every step keeps a woken caller for each free cell while another caller
\* sleeps: only taking a task frees a cell, and it signals.
LEMMA RoomStep ==
  TypeInv /\ MutexInv /\ WakeupPerRoom /\ [Next]_vars => WakeupPerRoom'
<1> SUFFICES ASSUME TypeInv, MutexInv, WakeupPerRoom, [Next]_vars,
                    ~shutdown', NEW c0 \in Callers, cpc'[c0] = "addWaiting"
             PROVE  (queueCapacity - queueSize <= Cardinality(WokenCallers))'
  BY DEF WakeupPerRoom, WokenCallers
<1> DEFINE Room == queueCapacity - queueSize
<1> USE PoolAssumption
<1>p. /\ cpc \in [Callers -> CallerPCs] /\ queueSize \in Int
      /\ IsFiniteSet(Callers) /\ WokenCallers \in SUBSET Callers
      /\ WokenCallers' \in SUBSET Callers
  BY DEF TypeInv, TypeOK, WokenCallers
<1>n. Cardinality(WokenCallers) \in Nat /\ Cardinality(WokenCallers') \in Nat
  BY <1>p, FS_Subset, FS_CardinalityType
<1>i. ASSUME ~shutdown, NEW c \in Callers, cpc[c] = "addWaiting"
      PROVE  Room <= Cardinality(WokenCallers)
  BY <1>i DEF WakeupPerRoom, WokenCallers
\* Steps that leave the ring alone and wake nobody but sleepers.
<1>s. ASSUME queueSize' = queueSize, ~shutdown,
             \A c \in Callers : cpc'[c] = "addWaiting" => cpc[c] = "addWaiting",
             \A c \in Callers : cpc[c] = "addWoken" => cpc'[c] = "addWoken"
      PROVE  Room' <= Cardinality(WokenCallers')
  <2>1. Room <= Cardinality(WokenCallers) BY <1>i, <1>s
  <2>2. WokenCallers \in SUBSET WokenCallers' BY <1>s DEF WokenCallers
  <2>3. Cardinality(WokenCallers) <= Cardinality(WokenCallers')
    BY <1>p, <2>2, CountGrows
  <2> QED BY <1>s, <1>p, <1>n, <2>1, <2>3
\* A task leaves the ring.
<1>e. ASSUME NEW w \in Slots, Examine(w), shutdown' = shutdown
      PROVE  Room' <= Cardinality(WokenCallers')
  <2>1. CASE UNCHANGED <<ring, task, cpc, carg>>
    BY <1>e, <1>s, <2>1 DEF ring
  <2>2. CASE TakeTask(w)
    <3>1. PICK d \in Callers :
             cpc[d] = "addWaiting" /\ cpc' = [cpc EXCEPT ![d] = "addWoken"]
      BY <1>p, <2>2, NotFullSignalled DEF TakeTask
    <3>2. WokenCallers' = WokenCallers \union {d} /\ d \notin WokenCallers
      BY <1>p, <3>1 DEF WokenCallers
    <3>3. Cardinality(WokenCallers') = Cardinality(WokenCallers) + 1
      BY <1>p, <3>2, CountStep
    <3>4. Room <= Cardinality(WokenCallers) BY <1>i, <1>e, <3>1
    <3> QED BY <1>p, <1>n, <2>2, <3>3, <3>4 DEF TakeTask
  <2> QED BY <1>e, <2>1, <2>2 DEF Examine
\* A caller that has the mutex examines the ring.
<1>t. ASSUME NEW c \in Callers, NEW t, TryAdd(c, t), shutdown' = shutdown,
             cpc[c] \in {"idle", "addWoken"}
      PROVE  Room' <= Cardinality(WokenCallers')
  <2>1. CASE queueSize = queueCapacity /\ UNCHANGED ring
    BY <1>n, <2>1 DEF ring
  <2>2. CASE queueSize' = queueSize + 1 /\ cpc' = [cpc EXCEPT ![c] = "idle"]
    <3>1. cpc[c0] = "addWaiting" BY <1>p, <1>t, <2>2
    <3>2. Room <= Cardinality(WokenCallers) BY <1>i, <1>t, <3>1
    <3>3. WokenCallers' = WokenCallers \ {c} BY <1>p, <1>t, <2>2 DEF WokenCallers
    <3>4. Cardinality(WokenCallers') >= Cardinality(WokenCallers) - 1
      <4>1. CASE c \in WokenCallers
        BY <1>p, <1>n, <3>3, <4>1, CountStep
      <4>2. CASE c \notin WokenCallers
        <5>1. WokenCallers' = WokenCallers BY <3>3, <4>2
        <5> QED BY <1>n, <5>1
      <4> QED BY <4>1, <4>2
    <3> QED BY <1>p, <1>n, <2>2, <3>2, <3>4
  <2> QED BY <1>t, <2>1, <2>2 DEF TryAdd
<1>1. CASE CreateWorker \/ Manager
  BY <1>1, <1>s DEF CreateWorker, Manager, ManagerTest, ManagerSnapshot,
     ManagerBusyNum, ManagerDecide, ManagerScan, ManagerScanned, ManagerShrink,
     ManagerSignal, ring, life, caller
<1>2. ASSUME NEW w \in Slots, Worker(w) \/ SpuriousWake(w)
      PROVE  Room' <= Cardinality(WokenCallers')
  <2>1. CASE Lock(w) \/ (Wake(w) /\ Resume(w))
    BY <1>e, <2>1 DEF Lock, Wake, Resume, life
  <2> QED
    BY <1>2, <1>s, <2>1 DEF Worker, Wake, Retire, Wait, SpuriousWake, Start, Finish,
       ThreadExit, ring, life, caller
<1>3. ASSUME NEW c \in Callers,
             \/ Caller(c) \/ SpuriousAddWake(c) \/ Destroy(c)
             \/ \E t \in Tasks : Add(c, t)
      PROVE  Room' <= Cardinality(WokenCallers')
  <2>1. CASE AddWake(c) \/ \E t \in Tasks : Add(c, t)
    BY <1>t, <2>1 DEF AddWake, Add, life
  <2>2. CASE AddWait(c)
    BY <1>n, <2>2 DEF AddWait, MutexInv, ring
  <2>3. CASE Destroy(c)
    BY <2>3 DEF Destroy
  <2>4. CASE SpuriousAddWake(c) \/ DestroyJoin(c) \/ DestroySignal(c)
             \/ DestroySignalled(c) \/ DestroyFree(c)
    BY <1>p, <1>s, <2>4 DEF SpuriousAddWake, DestroyJoin, DestroySignal,
       DestroySignalled, DestroyFree, ring, life
  <2> QED BY <1>3, <2>1, <2>2, <2>3, <2>4 DEF Caller
<1>4. CASE UNCHANGED vars
  BY <1>4, <1>s DEF vars, ring, life, caller
<1> QED
  BY <1>1, <1>2, <1>3, <1>4 DEF Next, Step, Released

\* In every pool, no caller sleeps on notFull beside a free cell that no woken
\* caller is about to fill.
THEOREM NoLostRoom == Spec => []WakeupPerRoom
<1>1. Init => TypeInv /\ MutexInv /\ WakeupPerRoom
  BY TypeInit DEF Init, MutexInv, WakeupPerRoom
<1>2. (TypeInv /\ MutexInv /\ WakeupPerRoom) /\ [Next]_vars
        => (TypeInv /\ MutexInv /\ WakeupPerRoom)'
  BY TypeStep, MutexStep, RoomStep
<1> QED BY <1>1, <1>2, PTL DEF Spec

\* In a pool of fixed size the manager never starts or retires a worker.
FixedInv == /\ exitNum = 0
            /\ mpc \notin {"scan", "shrink", "signal"}
            /\ mpc \in {"busy", "decide"} => snap.liveNum = minNum

\* What the manager of a pool of fixed size reads never makes it act.
LEMMA FixedStep ==
  ASSUME minNum = maxNum
  PROVE  TypeInv /\ CountInv /\ FixedInv /\ [Next]_vars => FixedInv'
<1> SUFFICES ASSUME TypeInv, CountInv, FixedInv, [Next]_vars PROVE FixedInv'
  OBVIOUS
<1> USE PoolAssumption DEF FixedInv
<1>1. liveNum = minNum
  BY DEF CountInv, LiveNumExact, TypeInv, TypeOK
<1>2. mpc = "decide" => ~GrowWanted /\ ~ShrinkWanted
  BY DEF GrowWanted, ShrinkWanted
<1>3. CASE Manager
  <2>1. CASE ManagerSnapshot
    BY <1>1, <2>1 DEF ManagerSnapshot, counts, TypeInv, TypeOK
  <2>2. CASE ManagerBusyNum
    BY <2>2 DEF ManagerBusyNum, counts, TypeInv, TypeOK
  <2>3. CASE ManagerTest \/ ManagerDecide
    BY <1>2, <2>3 DEF ManagerTest, ManagerDecide, BackToTest, counts
  <2> QED
    BY <1>3, <2>1, <2>2, <2>3 DEF Manager, ManagerScan, ManagerScanned,
       ManagerShrink, ManagerSignal
<1>4. ASSUME NEW w \in Slots, Worker(w) \/ SpuriousWake(w) PROVE FixedInv'
  BY <1>4 DEF Worker, Lock, Wait, SpuriousWake, Wake, Retire, Resume, Start, Finish,
     ThreadExit, counts, manager
<1>5. CASE CreateWorker
  BY <1>5 DEF CreateWorker, counts, manager
<1>6. ASSUME NEW c \in Callers,
             \/ Caller(c) \/ SpuriousAddWake(c) \/ Destroy(c)
             \/ \E t \in Tasks : Add(c, t)
      PROVE  FixedInv'
  BY <1>6 DEF Caller, SpuriousAddWake, Destroy, Add, AddWait, AddWake, DestroyJoin,
     DestroySignal, DestroySignalled, DestroyFree, counts, manager
<1>7. CASE UNCHANGED vars
  BY <1>7 DEF vars, counts, manager
<1> QED
  BY <1>3, <1>4, <1>5, <1>6, <1>7 DEF Next, Step, Released

\* While no worker retires, no worker sleeps beside a task that no woken worker
\* is about to look for.
LEMMA TaskStep ==
  TypeInv /\ MutexInv /\ FixedInv /\ WakeupPerTask /\ [Next]_vars => WakeupPerTask'
<1> SUFFICES ASSUME TypeInv, MutexInv, FixedInv, WakeupPerTask, [Next]_vars,
                    ~shutdown', NEW w0 \in Slots, pc'[w0] = "waiting"
             PROVE  (queueSize <= Cardinality(Lookers))'
  BY DEF WakeupPerTask, Lookers
<1> USE PoolAssumption
<1>p. /\ pc \in [Slots -> WorkerPCs] /\ queueSize \in Int
      /\ IsFiniteSet(Slots) /\ Lookers \in SUBSET Slots /\ Lookers' \in SUBSET Slots
  BY SlotsFinite DEF TypeInv, TypeOK, Lookers
<1>n. Cardinality(Lookers) \in Nat /\ Cardinality(Lookers') \in Nat
  BY <1>p, FS_Subset, FS_CardinalityType
<1>i. ASSUME ~shutdown, NEW w \in Slots, pc[w] = "waiting"
      PROVE  queueSize <= Cardinality(Lookers)
  BY <1>i DEF WakeupPerTask, Lookers
\* Steps that leave the ring alone, after which every looker still looks.
<1>s. ASSUME queueSize' = queueSize, ~shutdown,
             \A w \in Slots : pc'[w] = "waiting" => pc[w] = "waiting",
             \A w \in Slots : pc[w] \in {"lock", "woken"} => pc'[w] \in {"lock", "woken"}
      PROVE  (queueSize <= Cardinality(Lookers))'
  <2>1. queueSize <= Cardinality(Lookers) BY <1>i, <1>s
  <2>2. Lookers \in SUBSET Lookers' BY <1>s DEF Lookers
  <2>3. Cardinality(Lookers) <= Cardinality(Lookers')
    BY <1>p, <2>2, CountGrows
  <2> QED BY <1>s, <1>p, <1>n, <2>1, <2>3
\* A signal wakes sleepers only.
<1>g. ASSUME SignalNotEmpty, queueSize' = queueSize, shutdown' = shutdown
      PROVE  (queueSize <= Cardinality(Lookers))'
  BY <1>g, <1>p, <1>s, NotEmptySignalled
\* A worker takes a task.
<1>e. ASSUME NEW w \in Slots, Examine(w), shutdown' = shutdown,
             pc[w] \in {"lock", "woken"}
      PROVE  (queueSize <= Cardinality(Lookers))'
  <2>1. CASE queueSize = 0 /\ UNCHANGED ring
    BY <1>n, <2>1 DEF ring
  <2>2. CASE TakeTask(w)
    <3>1. pc[w0] = "waiting" BY <1>p, <2>2 DEF TakeTask
    <3>2. queueSize <= Cardinality(Lookers) BY <1>i, <1>e, <3>1
    <3>3. Lookers' = Lookers \ {w} /\ w \in Lookers
      BY <1>e, <1>p, <2>2 DEF TakeTask, Lookers
    <3>4. Cardinality(Lookers') = Cardinality(Lookers) - 1
      BY <1>p, <3>3, CountStep
    <3> QED BY <1>p, <1>n, <2>2, <3>2, <3>4 DEF TakeTask
  <2> QED BY <1>e, <2>1, <2>2 DEF Examine
\* A task is pushed and a sleeper woken for it.
<1>t. ASSUME NEW c \in Callers, NEW t, TryAdd(c, t), shutdown' = shutdown
      PROVE  (queueSize <= Cardinality(Lookers))'
  <2>1. CASE UNCHANGED <<ring, pc>>
    BY <1>t, <1>s, <2>1 DEF ring
  <2>2. CASE queueSize' = queueSize + 1 /\ SignalNotEmpty
    <3>1. PICK v \in Slots : pc[v] = "waiting" /\ pc' = [pc EXCEPT ![v] = "woken"]
      BY <1>p, <2>2, NotEmptySignalled
    <3>2. Lookers' = Lookers \union {v} /\ v \notin Lookers
      BY <1>p, <3>1 DEF Lookers
    <3>3. Cardinality(Lookers') = Cardinality(Lookers) + 1
      BY <1>p, <3>2, CountStep
    <3>4. queueSize <= Cardinality(Lookers) BY <1>i, <1>t, <3>1
    <3> QED BY <1>p, <1>n, <2>2, <3>3, <3>4
  <2> QED BY <1>t, <2>1, <2>2 DEF TryAdd
<1>1. CASE CreateWorker
  BY <1>1, <1>p, <1>s DEF CreateWorker, ring, life
<1>2. CASE Manager
  BY <1>2, <1>s DEF FixedInv, Manager, ManagerTest, ManagerSnapshot, ManagerBusyNum,
     ManagerDecide, ManagerScan, ManagerScanned, ManagerShrink, ManagerSignal,
     ring, life, workers
<1>3. ASSUME NEW w \in Slots, Worker(w) \/ SpuriousWake(w)
      PROVE  (queueSize <= Cardinality(Lookers))'
  <2>1. CASE Lock(w) \/ (Wake(w) /\ Resume(w))
    BY <1>e, <2>1 DEF Lock, Wake, Resume, life
  <2>2. CASE Wait(w)
    BY <1>n, <2>2 DEF Wait, MutexInv, ring
  <2>3. CASE SpuriousWake(w) \/ Start(w) \/ Finish(w) \/ ThreadExit(w)
    BY <1>p, <1>s, <2>3 DEF SpuriousWake, Start, Finish, ThreadExit, ring, life
  <2> QED
    BY <1>3, <2>1, <2>2, <2>3 DEF Worker, Wake, Retire, FixedInv
<1>4. ASSUME NEW c \in Callers,
             \/ Caller(c) \/ SpuriousAddWake(c) \/ Destroy(c)
             \/ \E t \in Tasks : Add(c, t)
      PROVE  (queueSize <= Cardinality(Lookers))'
  <2>1. CASE AddWake(c) \/ \E t \in Tasks : Add(c, t)
    BY <1>t, <2>1 DEF AddWake, Add, life
  <2>2. CASE Destroy(c)
    BY <2>2 DEF Destroy
  <2>3. CASE DestroySignal(c)
    BY <1>g, <2>3 DEF DestroySignal, ring, life
  <2> QED
    BY <1>4, <1>s, <2>1, <2>2, <2>3 DEF Caller, SpuriousAddWake, AddWait, DestroyJoin,
       DestroySignalled, DestroyFree, ring, life, workers
<1>5. CASE UNCHANGED vars
  BY <1>5, <1>s DEF vars, ring, life, workers
<1> QED
  BY <1>1, <1>2, <1>3, <1>4, <1>5 DEF Next, Step, Released

\* In a pool whose minNum and maxNum are equal, no worker sleeps beside a task
\* that no woken worker is about to look for.  (The pool that shrinks loses
\* such wake-ups.)
THEOREM NoLostTask ==
  ASSUME minNum = maxNum
  PROVE  Spec => []WakeupPerTask
<1> DEFINE IInv == TypeInv /\ MutexInv /\ CountInv /\ FixedInv /\ WakeupPerTask
<1>1. Init => IInv
  <2>1. Init => MutexInv /\ FixedInv /\ WakeupPerTask
    BY DEF Init, MutexInv, FixedInv, WakeupPerTask
  <2> QED BY <2>1, TypeInit, CountInit
<1>2. IInv /\ [Next]_vars => IInv'
  BY TypeStep, MutexStep, CountInvStep, FixedStep, TaskStep
<1> QED BY <1>1, <1>2, PTL DEF Spec

-----------------------------------------------------------------------------
(* Each task is in one place *)

\* The tasks in the ring, oldest first.
InRing == [i \in 1..queueSize |-> taskQ[QueueCell(i - 1)]]

\* A worker has a task from the take to the end of its function, and a caller
\* carries one while the ring has no room for it.
HoldInv ==
    /\ \A w \in Slots : task[w] # NoTask <=> pc[w] \in {"taken", "running"}
    /\ \A c \in Callers :
          carg[c] # NoTask <=> cpc[c] \in {"addWait", "addWaiting", "addWoken"}

\* No two places hold the same task: the cells of the ring, the workers, the
\* blocked callers, and what has finished.  Cells that were taken keep a stale
\* task and do not count.
OnceInv ==
    /\ \A i, j \in 1..queueSize : InRing[i] = InRing[j] => i = j
    /\ \A i \in 1..queueSize : /\ InRing[i] \notin finished
                               /\ \A w \in Slots : InRing[i] # task[w]
                               /\ \A c \in Callers : InRing[i] # carg[c]
    /\ \A w \in Slots : task[w] # NoTask =>
          /\ task[w] \notin finished
          /\ \A v \in Slots : task[v] = task[w] => v = w
          /\ \A c \in Callers : carg[c] # task[w]
    /\ \A c \in Callers : carg[c] # NoTask =>
          /\ carg[c] \notin finished
          /\ \A d \in Callers : carg[d] = carg[c] => d = c

\* The tasks in the ring are a sequence of tasks.
LEMMA InRingType ==
  ASSUME TypeInv
  PROVE  /\ InRing \in Seq(Tasks) /\ Len(InRing) = queueSize /\ queueSize \in 0..queueCapacity
         /\ \A i \in 1..queueSize : InRing[i] \in Tasks
         /\ Queued = {InRing[i] : i \in 1..queueSize}
<1>1. queueSize \in 0..queueCapacity /\ queueSize \in Nat
  BY PoolAssumption DEF TypeInv, TypeOK
<1>2. \A i \in 1..queueSize : InRing[i] \in Tasks
  BY <1>1 DEF InRing, TypeInv, RingInv
<1>3. InRing \in [1..queueSize -> Tasks]
  BY <1>2 DEF InRing
<1>4. InRing \in Seq(Tasks) /\ Len(InRing) = queueSize
  BY <1>1, <1>3
<1>5. Queued = {InRing[i] : i \in 1..queueSize}
  <2>1. ASSUME NEW k \in 0..(queueSize - 1)
        PROVE  taskQ[QueueCell(k)] \in {InRing[i] : i \in 1..queueSize}
    <3>1. k + 1 \in 1..queueSize /\ (k + 1) - 1 = k
      BY <1>1
    <3> QED
      BY <3>1 DEF InRing
  <2>2. ASSUME NEW i \in 1..queueSize
        PROVE  InRing[i] \in Queued
    <3>1. i - 1 \in 0..(queueSize - 1)
      BY <1>1
    <3> QED
      BY <3>1 DEF InRing, Queued
  <2> QED
    BY <2>1, <2>2 DEF Queued
<1> QED
  BY <1>1, <1>2, <1>4, <1>5

\* A ring that is left alone holds the same tasks.
LEMMA SameRing == UNCHANGED ring => InRing' = InRing
  BY DEF ring, InRing, QueueCell

\* A take removes the oldest task.
LEMMA TakeFromRing ==
  ASSUME TypeInv, NEW w \in Slots, queueSize # 0, TakeTask(w)
  PROVE  /\ InRing # <<>> /\ taskQ[queueFront] = Head(InRing)
         /\ Head(InRing) = InRing[1] /\ 1 \in 1..queueSize
         /\ InRing' = Tail(InRing)
         /\ queueSize' = queueSize - 1
         /\ \A i \in 1..(queueSize - 1) : InRing'[i] = InRing[i + 1]
<1> USE PoolAssumption
<1> DEFINE n == queueSize
<1>1. /\ n \in 1..queueCapacity /\ queueFront \in Cells
      /\ InRing \in Seq(Tasks) /\ Len(InRing) = n
  BY InRingType DEF TypeInv, TypeOK
<1>2. InRing # <<>> /\ Head(InRing) = InRing[1] /\ 1 \in 1..n
  BY <1>1
<1>3. InRing[1] = taskQ[queueFront]
  <2>1. QueueCell(0) = queueFront
    BY <1>1 DEF QueueCell, Cells
  <2> QED
    BY <1>2, <2>1 DEF InRing
<1>4. queueSize' = n - 1 /\ taskQ' = taskQ /\ queueFront' = NextCell(queueFront)
  BY DEF TakeTask
<1>5. \A i \in 1..(n - 1) : (NextCell(queueFront) + (i - 1)) % queueCapacity = QueueCell(i)
  BY <1>1 DEF NextCell, QueueCell, Cells
<1>6. InRing' = [i \in 1..(n - 1) |-> taskQ[QueueCell(i)]]
  BY <1>4, <1>5 DEF InRing, QueueCell
<1>7. \A i \in 1..(n - 1) : i + 1 \in 1..n /\ (i + 1) - 1 = i
  BY <1>1
<1>8. \A i \in 1..(n - 1) : InRing'[i] = InRing[i + 1]
  BY <1>6, <1>7 DEF InRing
<1>9. InRing' \in Seq(Tasks) /\ Len(InRing') = n - 1
  <2>1. InRing' \in [1..(n - 1) -> Tasks]
    BY <1>6, <1>7, <1>8, InRingType
  <2> QED
    BY <1>1, <2>1
<1>10. /\ Tail(InRing) \in Seq(Tasks) /\ Len(Tail(InRing)) = n - 1
       /\ \A i \in 1..(n - 1) : Tail(InRing)[i] = InRing[i + 1]
  BY <1>1, <1>2, HeadTailProperties
<1>11. InRing' = Tail(InRing)
  BY <1>8, <1>9, <1>10, SeqEqual
<1> QED
  BY <1>2, <1>3, <1>4, <1>8, <1>11

\* A push adds a task behind the others.
LEMMA PushIntoRing ==
  ASSUME TypeInv, queueSize # queueCapacity, NEW t \in Tasks,
         taskQ' = [taskQ EXCEPT ![queueRear] = t],
         queueSize' = queueSize + 1,
         queueFront' = queueFront
  PROVE  /\ InRing' = Append(InRing, t) /\ queueSize < queueCapacity
         /\ InRing'[queueSize + 1] = t
         /\ \A i \in 1..queueSize : InRing'[i] = InRing[i]
<1> USE PoolAssumption
<1> DEFINE n == queueSize
<1>1. /\ n \in 0..(queueCapacity - 1) /\ queueFront \in Cells /\ queueRear \in Cells
      /\ taskQ \in [Cells -> Tasks \union {NoTask}]
      /\ InRing \in Seq(Tasks) /\ Len(InRing) = n
  BY InRingType DEF TypeInv, TypeOK
<1>2. \A k \in 0..n : QueueCell(k)' = QueueCell(k) /\ QueueCell(k) \in Cells
  BY <1>1 DEF QueueCell, Cells
<1>3. \A k \in 0..(n - 1) : QueueCell(k) # QueueCell(n)
  BY <1>1 DEF QueueCell, Cells
<1>4. queueRear = QueueCell(n)
  BY DEF TypeInv, RingInv
<1>5. \A k \in 0..n : taskQ'[QueueCell(k)'] = IF k = n THEN t ELSE taskQ[QueueCell(k)]
  BY <1>1, <1>2, <1>3, <1>4
<1>6. InRing' = [i \in 1..(n + 1) |-> taskQ'[QueueCell(i - 1)']]
  BY DEF InRing
<1>7. InRing' = [i \in 1..(n + 1) |-> IF i = n + 1 THEN t ELSE taskQ[QueueCell(i - 1)]]
  <2>1. \A i \in 1..(n + 1) : i - 1 \in 0..n /\ (i - 1 = n <=> i = n + 1)
    BY <1>1
  <2> QED
    BY <1>5, <1>6, <2>1
<1>8. \A i \in 1..n : i \in 1..(n + 1) /\ i # n + 1 /\ InRing[i] = taskQ[QueueCell(i - 1)]
  BY <1>1 DEF InRing
<1>9. InRing'[n + 1] = t /\ \A i \in 1..n : InRing'[i] = InRing[i]
  BY <1>1, <1>7, <1>8
<1>10. InRing' \in Seq(Tasks) /\ Len(InRing') = n + 1
  <2>1. \A i \in 1..(n + 1) : InRing'[i] \in Tasks
    BY <1>7, <1>8, <1>9, InRingType
  <2>2. InRing' \in [1..(n + 1) -> Tasks]
    BY <1>7, <2>1
  <2> QED
    BY <1>1, <2>2
<1>11. /\ Append(InRing, t) \in Seq(Tasks) /\ Len(Append(InRing, t)) = n + 1
       /\ \A i \in 1..n : Append(InRing, t)[i] = InRing[i]
       /\ Append(InRing, t)[n + 1] = t
  BY <1>1, AppendProperties
<1>12. \A i \in 1..(n + 1) : i \in 1..n \/ i = n + 1
  BY <1>1
<1>13. InRing' = Append(InRing, t)
  <2>1. \A i \in 1..(n + 1) : InRing'[i] = Append(InRing, t)[i]
    BY <1>9, <1>11, <1>12
  <2> QED
    BY <1>10, <1>11, <2>1, SeqEqual
<1> QED
  BY <1>1, <1>9, <1>13

\* A worker gets its task when it takes it and gives it up when it finishes; a
\* caller carries its task from one test of the ring to the next.
LEMMA HoldStep ==
  TypeInv /\ CountInv /\ HoldInv /\ [Next]_vars => HoldInv'
<1> SUFFICES ASSUME TypeInv, CountInv, HoldInv, [Next]_vars PROVE HoldInv'
  OBVIOUS
<1> USE PoolAssumption
<1> DEFINE Doing(p) == p \in {"taken", "running"}
           Blocked(p) == p \in {"addWait", "addWaiting", "addWoken"}
<1>p. /\ pc \in [Slots -> WorkerPCs] /\ task \in [Slots -> Tasks \union {NoTask}]
      /\ cpc \in [Callers -> CallerPCs] /\ carg \in [Callers -> Tasks \union {NoTask}]
      /\ created \in 0..minNum
  BY DEF TypeInv, TypeOK
\* Steps in which no task changes hands.
<1>s. ASSUME task' = task, carg' = carg,
             \A w \in Slots : Doing(pc'[w]) <=> Doing(pc[w]),
             \A c \in Callers : Blocked(cpc'[c]) <=> Blocked(cpc[c])
      PROVE  HoldInv'
  BY <1>s DEF HoldInv
<1>g. SignalNotEmpty => \A w \in Slots : Doing(pc'[w]) <=> Doing(pc[w])
  BY <1>p, NotEmptySignalled
<1>f. SignalNotFull => \A c \in Callers : Blocked(cpc'[c]) <=> Blocked(cpc[c])
  BY <1>p, NotFullSignalled
<1>e. ASSUME NEW w \in Slots, pc[w] \in {"lock", "woken"}, Examine(w) PROVE HoldInv'
  <2>1. CASE /\ UNCHANGED <<ring, task, cpc, carg>>
             /\ \E q \in {"wait", "quit"} : pc' = [pc EXCEPT ![w] = q]
    BY <1>e, <1>p, <1>s, <2>1
  <2>2. CASE queueSize # 0 /\ TakeTask(w)
    <3>1. /\ task'[w] \in Tasks /\ \A v \in Slots : v # w => task'[v] = task[v]
          /\ pc' = [pc EXCEPT ![w] = "taken"] /\ carg' = carg
      BY <1>e, <1>p, <2>2, TakeKeepsRing DEF TakeTask
    <3> QED
      BY <1>f, <1>p, <2>2, <3>1 DEF TakeTask, HoldInv
  <2> QED
    BY <1>e, <2>1, <2>2 DEF Examine
<1>t. ASSUME NEW c \in Callers, NEW t \in Tasks, TryAdd(c, t), task' = task PROVE HoldInv'
  <2>1. \A w \in Slots : Doing(pc'[w]) <=> Doing(pc[w])
    BY <1>g, <1>t DEF TryAdd
  <2>2. \A d \in Callers : d # c => carg'[d] = carg[d] /\ cpc'[d] = cpc[d]
    BY <1>p, <1>t DEF TryAdd
  <2>3. carg'[c] # NoTask <=> Blocked(cpc'[c])
    BY <1>p, <1>t DEF TryAdd
  <2> QED
    BY <1>t, <2>1, <2>2, <2>3 DEF HoldInv
<1>1. CASE CreateWorker
  <2>1. created \in Slots => pc[created] = "none"
    BY <1>1, <1>p DEF CreateWorker, CountInv, CreateInv
  <2> QED
    BY <1>s, <1>p, <1>1, <2>1 DEF CreateWorker
<1>2. CASE Manager
  BY <1>s, <1>g, <1>p, <1>2 DEF Manager, ManagerTest, ManagerSnapshot, ManagerBusyNum,
     ManagerDecide, ManagerScan, ManagerScanned, ManagerShrink, ManagerSignal, workers, caller
<1>3. ASSUME NEW w \in Slots, Worker(w) \/ SpuriousWake(w) PROVE HoldInv'
  <2>1. CASE Lock(w) \/ (Wake(w) /\ Resume(w))
    BY <1>e, <2>1 DEF Lock, Wake, Resume
  <2>2. CASE Wake(w) /\ Retire(w)
    BY <1>s, <1>p, <2>2 DEF Wake, Retire
  <2>3. CASE Wait(w) \/ SpuriousWake(w) \/ Start(w) \/ ThreadExit(w)
    BY <1>s, <1>p, <2>3 DEF Wait, SpuriousWake, Start, ThreadExit, workers, caller
  <2>4. CASE Finish(w)
    BY <1>p, <2>4 DEF Finish, HoldInv, caller
  <2> QED
    BY <1>3, <2>1, <2>2, <2>3, <2>4 DEF Worker, Wake
<1>4. ASSUME NEW c \in Callers,
             \/ Caller(c) \/ SpuriousAddWake(c) \/ Destroy(c)
             \/ \E t \in Tasks : Add(c, t)
      PROVE  HoldInv'
  <2>1. CASE AddWake(c)
    BY <1>t, <2>1 DEF AddWake, TypeInv, CargInv
  <2>2. CASE \E t \in Tasks : Add(c, t)
    BY <1>t, <2>2 DEF Add
  <2>3. CASE DestroySignal(c)
    BY <1>s, <1>g, <2>3 DEF DestroySignal
  <2>4. CASE \/ AddWait(c) \/ SpuriousAddWake(c) \/ Destroy(c)
             \/ DestroyJoin(c) \/ DestroySignalled(c) \/ DestroyFree(c)
    BY <1>s, <1>p, <2>4 DEF AddWait, SpuriousAddWake, Destroy, DestroyJoin,
       DestroySignalled, DestroyFree, workers
  <2> QED
    BY <1>4, <2>1, <2>2, <2>3, <2>4 DEF Caller
<1>5. CASE UNCHANGED vars
  BY <1>5, <1>s DEF vars, workers, caller
<1> QED
  BY <1>1, <1>2, <1>3, <1>4, <1>5 DEF Next, Step, Released

\* A take moves the oldest task from the ring to a worker that has none.
LEMMA TakeKeepsOnce ==
  ASSUME TypeInv, HoldInv, OnceInv, NEW w \in Slots, pc[w] \in {"lock", "woken"},
         queueSize # 0, TakeTask(w), finished' = finished
  PROVE  OnceInv'
<1>1. /\ taskQ[queueFront] = InRing[1] /\ 1 \in 1..queueSize
      /\ queueSize' = queueSize - 1 /\ carg' = carg
      /\ \A i \in 1..(queueSize - 1) : InRing'[i] = InRing[i + 1]
  BY TakeFromRing DEF TakeTask
<1>2. queueSize \in 0..queueCapacity /\ InRing[1] \in Tasks
  BY <1>1, InRingType
<1>3. /\ task[w] = NoTask /\ task'[w] = InRing[1]
      /\ \A v \in Slots : v # w => task'[v] = task[v]
  BY <1>1 DEF TakeTask, HoldInv, TypeInv, TypeOK
<1>4. \A i \in 1..(queueSize - 1) : i + 1 \in 1..queueSize /\ i + 1 # 1
  BY <1>2, PoolAssumption
<1>5. \A i, j \in 1..(queueSize - 1) : InRing'[i] = InRing'[j] => i = j
  BY <1>1, <1>4 DEF OnceInv
<1>6. \A i \in 1..(queueSize - 1) : /\ InRing'[i] \notin finished
                                    /\ \A v \in Slots : InRing'[i] # task'[v]
                                    /\ \A c \in Callers : InRing'[i] # carg[c]
  BY <1>1, <1>3, <1>4 DEF OnceInv
<1>7. \A v \in Slots : task'[v] # NoTask =>
         /\ task'[v] \notin finished
         /\ \A u \in Slots : task'[u] = task'[v] => u = v
         /\ \A c \in Callers : carg[c] # task'[v]
  BY <1>1, <1>3 DEF OnceInv
<1> QED
  BY <1>1, <1>5, <1>6, <1>7 DEF OnceInv

\* A caller keeps its task or pushes it, if nobody else has it.
LEMMA TryAddKeepsOnce ==
  ASSUME TypeInv, OnceInv, NEW c \in Callers, NEW t \in Tasks, TryAdd(c, t),
         t \notin Queued \union finished,
         \A w \in Slots : task[w] # t,
         \A d \in Callers : d # c => carg[d] # t,
         task' = task, finished' = finished
  PROVE  OnceInv'
<1>p. /\ carg \in [Callers -> Tasks \union {NoTask}] /\ NoTask \notin Tasks
      /\ queueSize \in 0..queueCapacity /\ queueSize \in Nat
      /\ \A i \in 1..queueSize : InRing[i] # t /\ InRing[i] \in Tasks
  BY PoolAssumption, InRingType DEF TypeInv, TypeOK
<1>d. \A d \in Callers : d # c => carg'[d] = carg[d]
  BY <1>p DEF TryAdd
<1>1. CASE UNCHANGED ring /\ carg'[c] \in {t, NoTask}
  <2>1. InRing' = InRing /\ queueSize' = queueSize
    BY <1>1, SameRing DEF ring
  <2> QED
    BY <1>p, <1>d, <1>1, <2>1 DEF OnceInv
<1>2. CASE /\ queueSize # queueCapacity
           /\ taskQ' = [taskQ EXCEPT ![queueRear] = t]
           /\ queueSize' = queueSize + 1 /\ queueFront' = queueFront
           /\ carg'[c] = NoTask
  <2>1. InRing'[queueSize + 1] = t /\ \A i \in 1..queueSize : InRing'[i] = InRing[i]
    BY <1>2, PushIntoRing
  <2>2. \A i \in 1..(queueSize + 1) : i \in 1..queueSize \/ i = queueSize + 1
    BY <1>p
  <2>3. \A i, j \in 1..(queueSize + 1) : InRing'[i] = InRing'[j] => i = j
    BY <1>p, <2>1, <2>2 DEF OnceInv
  <2>4. \A i \in 1..(queueSize + 1) : /\ InRing'[i] \notin finished
                                      /\ \A w \in Slots : InRing'[i] # task[w]
                                      /\ \A d \in Callers : InRing'[i] # carg'[d]
    <3> SUFFICES ASSUME NEW i \in 1..(queueSize + 1)
                 PROVE  /\ InRing'[i] \notin finished
                        /\ \A w \in Slots : InRing'[i] # task[w]
                        /\ \A d \in Callers : InRing'[i] # carg'[d]
      OBVIOUS
    <3>1. CASE i \in 1..queueSize
      BY <1>p, <1>d, <1>2, <2>1, <3>1 DEF OnceInv
    <3>2. CASE i = queueSize + 1
      BY <1>p, <1>d, <1>2, <2>1, <3>2
    <3> QED
      BY <2>2, <3>1, <3>2
  <2>5. \A w \in Slots : task[w] # NoTask =>
           /\ task[w] \notin finished
           /\ \A v \in Slots : task[v] = task[w] => v = w
           /\ \A d \in Callers : carg'[d] # task[w]
    BY <1>d, <1>2 DEF OnceInv
  <2>6. \A d \in Callers : carg'[d] # NoTask =>
           carg'[d] \notin finished /\ \A e \in Callers : carg'[e] = carg'[d] => e = d
    BY <1>d, <1>2 DEF OnceInv
  <2> QED
    BY <1>2, <2>3, <2>4, <2>5, <2>6 DEF OnceInv
<1> QED
  BY <1>p, <1>1, <1>2 DEF TryAdd

\* A task goes from a caller, perhaps a blocked one, through the ring and a
\* worker to the finished ones.
LEMMA OnceStep == TypeInv /\ HoldInv /\ OnceInv /\ [Next]_vars => OnceInv'
<1> SUFFICES ASSUME TypeInv, HoldInv, OnceInv, [Next]_vars PROVE OnceInv'
  OBVIOUS
<1>s. UNCHANGED <<ring, task, carg, finished>> => OnceInv'
  BY SameRing DEF OnceInv, ring
<1>1. ASSUME NEW w \in Slots, pc[w] \in {"lock", "woken"}, Examine(w), finished' = finished
      PROVE  OnceInv'
  BY <1>1, <1>s, TakeKeepsOnce DEF Examine
<1>2. ASSUME NEW w \in Slots, Finish(w) PROVE OnceInv'
  <2>1. /\ task[w] # NoTask /\ finished' = finished \union {task[w]}
        /\ UNCHANGED <<ring, carg>>
        /\ task'[w] = NoTask /\ \A v \in Slots : v # w => task'[v] = task[v]
    BY <1>2 DEF Finish, HoldInv, TypeInv, TypeOK, caller
  <2>2. InRing' = InRing /\ queueSize' = queueSize
    BY <2>1, SameRing DEF ring
  <2>3. \A i \in 1..queueSize : InRing[i] # NoTask
    BY InRingType, PoolAssumption
  <2> QED
    BY <2>1, <2>2, <2>3 DEF OnceInv
<1>3. ASSUME NEW c \in Callers, NEW t \in Tasks, Add(c, t) PROVE OnceInv'
  BY <1>3, TryAddKeepsOnce DEF Add, Fresh
<1>4. ASSUME NEW c \in Callers, AddWake(c) PROVE OnceInv'
  <2>1. carg[c] \in Tasks /\ carg[c] # NoTask
    BY <1>4, PoolAssumption DEF AddWake, TypeInv, CargInv
  <2>2. carg[c] \notin Queued
    BY InRingType DEF OnceInv
  <2>3. /\ carg[c] \notin finished /\ \A w \in Slots : task[w] # carg[c]
        /\ \A d \in Callers : d # c => carg[d] # carg[c]
    BY <2>1 DEF OnceInv
  <2> QED
    BY <1>4, <2>1, <2>2, <2>3, TryAddKeepsOnce DEF AddWake
<1> QED
  <2>1. CASE UNCHANGED vars
    BY <1>s, <2>1 DEF vars, workers, caller
  <2>2. CASE CreateWorker \/ Manager
    BY <1>s, <2>2 DEF CreateWorker, Manager, ManagerTest, ManagerSnapshot, ManagerBusyNum,
       ManagerDecide, ManagerScan, ManagerScanned, ManagerShrink, ManagerSignal, workers, caller
  <2>3. ASSUME NEW w \in Slots, Worker(w) \/ SpuriousWake(w) PROVE OnceInv'
    BY <1>s, <1>1, <1>2, <2>3 DEF Worker, SpuriousWake, Lock, Wait, Wake, Retire, Resume,
       Start, ThreadExit, workers, caller
  <2>4. ASSUME NEW c \in Callers,
               \/ Caller(c) \/ SpuriousAddWake(c) \/ Destroy(c)
               \/ \E t \in Tasks : Add(c, t)
        PROVE  OnceInv'
    BY <1>s, <1>3, <1>4, <2>4 DEF Caller, SpuriousAddWake, Destroy, AddWait, DestroyJoin,
       DestroySignal, DestroySignalled, DestroyFree, workers
  <2> QED
    BY <2>1, <2>2, <2>3, <2>4 DEF Next, Step, Released

-----------------------------------------------------------------------------
(* The pool implements TaskPool *)

PoolInv == TypeInv /\ CountInv /\ HoldInv /\ OnceInv

\* At the start there is no task anywhere.
LEMMA PoolInvInit == Init => PoolInv
<1> SUFFICES ASSUME Init PROVE PoolInv
  OBVIOUS
<1>1. HoldInv
  BY DEF Init, HoldInv
<1>2. OnceInv
  BY DEF Init, OnceInv
<1> QED
  BY <1>1, <1>2, TypeInit, CountInit DEF PoolInv

\* All layers together.
LEMMA PoolInvStep == PoolInv /\ [Next]_vars => PoolInv'
  BY TypeStep, CountInvStep, HoldStep, OnceStep DEF PoolInv

\* What the refinement maps to running.
Running == {task[w] : w \in Slots} \ {NoTask}

\* A new pool is an empty, open one.
LEMMA PromiseInit == Init => Promise!Init
<1> SUFFICES ASSUME Init PROVE Promise!Init
  OBVIOUS
<1>1. [i \in 1..queueSize |-> taskQ[QueueCell(i - 1)]] = <<>>
  <2>1. TypeInv /\ queueSize = 0
    BY TypeInit DEF Init
  <2>2. InRing \in Seq(Tasks) /\ Len(InRing) = 0
    BY <2>1, InRingType
  <2>3. InRing = <<>>
    BY <2>2, EmptySeq
  <2> QED
    BY <2>3 DEF InRing
<1> QED
  BY <1>1 DEF Init, Promise!Init

\* A step that moves no task is no step of the promise, or it closes the pool.
LEMMA Stutters ==
  ASSUME UNCHANGED <<ring, task, finished>>, shutdown' = shutdown \/ shutdown' = TRUE
  PROVE  [Promise!Next]_(Promise!vars)
<1>1. Running' = Running /\ InRing' = InRing
  BY SameRing DEF Running
<1>2. CASE shutdown' = shutdown
  BY <1>1, <1>2 DEF Promise!vars, Running, InRing
<1>3. CASE shutdown' = TRUE
  BY <1>1, <1>3 DEF Promise!Next, Promise!Close, Running, InRing
<1> QED
  BY <1>2, <1>3

\* A worker that examines the ring waits, quits, or starts the oldest task.
LEMMA ExamineStarts ==
  ASSUME PoolInv, NEW w \in Slots, pc[w] \in {"lock", "woken"}, Examine(w),
         UNCHANGED <<finished, shutdown>>
  PROVE  [Promise!Next]_(Promise!vars)
<1>1. CASE UNCHANGED <<ring, task>>
  BY <1>1, Stutters
<1>2. CASE queueSize # 0 /\ ~shutdown /\ TakeTask(w)
  <2>1. /\ InRing # <<>> /\ taskQ[queueFront] = Head(InRing) /\ InRing' = Tail(InRing)
        /\ Head(InRing) = InRing[1] /\ 1 \in 1..queueSize
    BY <1>2, TakeFromRing DEF PoolInv
  <2>2. /\ Head(InRing) # NoTask /\ task[w] = NoTask
        /\ task \in [Slots -> Tasks \union {NoTask}]
    BY <2>1, InRingType, PoolAssumption DEF PoolInv, HoldInv, TypeInv, TypeOK
  <2>3. task'[w] = Head(InRing) /\ \A v \in Slots : v # w => task'[v] = task[v]
    BY <1>2, <2>1, <2>2 DEF TakeTask
  <2>4. Running' = Running \union {Head(InRing)}
    BY <2>2, <2>3 DEF Running
  <2>5. shutdown' \in BOOLEAN /\ ~shutdown
    BY <1>2 DEF PoolInv, TypeInv, TypeOK
  <2>6. Promise!Start
    BY <2>1, <2>4, <2>5 DEF Promise!Start, Running, InRing
  <2> QED
    BY <2>6 DEF Promise!Next
<1> QED
  BY <1>1, <1>2 DEF Examine

\* The end of a task function finishes a task that no other worker runs.
LEMMA FinishFinishes ==
  ASSUME PoolInv, NEW w \in Slots, Finish(w)
  PROVE  Promise!Next
<1> DEFINE t == task[w]
<1>1. task \in [Slots -> Tasks \union {NoTask}] /\ t \in Tasks /\ t # NoTask
  BY PoolAssumption DEF Finish, PoolInv, TypeInv, TypeOK, TaskInv
<1>2. /\ task'[w] = NoTask /\ \A v \in Slots : v # w => task'[v] = task[v]
      /\ \A v \in Slots : task[v] = t => v = w
  BY <1>1 DEF Finish, PoolInv, OnceInv
<1>3. Running' = Running \ {t} /\ t \in Running
  BY <1>1, <1>2 DEF Running
<1>4. UNCHANGED <<ring, shutdown>> /\ finished' = finished \union {t} /\ InRing' = InRing
  BY SameRing DEF Finish, life
<1>5. PICK u \in Tasks : u = t
  BY <1>1
<1>6. Promise!Finish(u)
  BY <1>3, <1>4, <1>5 DEF Promise!Finish, Running, InRing
<1> QED
  BY <1>6 DEF Promise!Next

\* A caller waits, gives up, or has a task accepted that is in no other place.
LEMMA TryAddAccepts ==
  ASSUME PoolInv, NEW c \in Callers, NEW t \in Tasks, TryAdd(c, t),
         t \notin Queued \union finished,
         \A w \in Slots : task[w] # t,
         UNCHANGED <<task, finished, shutdown>>
  PROVE  [Promise!Next]_(Promise!vars)
<1>1. CASE UNCHANGED ring
  BY <1>1, Stutters
<1>2. CASE /\ queueSize # queueCapacity /\ ~shutdown
           /\ taskQ' = [taskQ EXCEPT ![queueRear] = t]
           /\ queueSize' = queueSize + 1 /\ queueFront' = queueFront
  <2>1. InRing' = Append(InRing, t) /\ queueSize < queueCapacity
    BY <1>2, PushIntoRing DEF PoolInv
  <2>2. Len(InRing) = queueSize /\ t \notin {InRing[i] : i \in 1..Len(InRing)}
    BY InRingType DEF PoolInv
  <2>3. t \notin Running /\ Running' = Running /\ ~shutdown /\ shutdown' \in BOOLEAN
    BY <1>2 DEF Running, PoolInv, TypeInv, TypeOK
  <2>4. Promise!Accept(t)
    BY <2>1, <2>2, <2>3 DEF Promise!Accept, Promise!Pending, Running, InRing
  <2> QED
    BY <2>4 DEF Promise!Next
<1> QED
  BY <1>1, <1>2 DEF TryAdd

\* Each step of the pool is a step of the promise, or no step of it.
LEMMA PromiseStep == PoolInv /\ [Next]_vars => [Promise!Next]_(Promise!vars)
<1> SUFFICES ASSUME PoolInv, [Next]_vars PROVE [Promise!Next]_(Promise!vars)
  OBVIOUS
<1>1. CASE CreateWorker \/ Manager
  BY <1>1, Stutters DEF CreateWorker, Manager, ManagerTest, ManagerSnapshot, ManagerBusyNum,
     ManagerDecide, ManagerScan, ManagerScanned, ManagerShrink, ManagerSignal, workers, life
<1>2. ASSUME NEW w \in Slots, Worker(w) \/ SpuriousWake(w)
      PROVE  [Promise!Next]_(Promise!vars)
  <2>1. CASE Lock(w) \/ (Wake(w) /\ Resume(w))
    BY <2>1, ExamineStarts DEF Lock, Wake, Resume, life
  <2>2. CASE \/ Wait(w) \/ SpuriousWake(w) \/ (Wake(w) /\ Retire(w))
             \/ Start(w) \/ ThreadExit(w)
    BY <2>2, Stutters DEF Wait, SpuriousWake, Wake, Retire, Start, ThreadExit, workers, life
  <2> QED
    BY <1>2, <2>1, <2>2, FinishFinishes DEF Worker, Wake
<1>3. ASSUME NEW c \in Callers,
             \/ Caller(c) \/ SpuriousAddWake(c) \/ Destroy(c)
             \/ \E t \in Tasks : Add(c, t)
      PROVE  [Promise!Next]_(Promise!vars)
  <2>1. CASE \E t \in Tasks : Add(c, t)
    BY <2>1, TryAddAccepts DEF Add, Fresh, life
  <2>2. CASE AddWake(c)
    <3>1. carg[c] \in Tasks /\ carg[c] # NoTask
      BY <2>2, PoolAssumption DEF AddWake, PoolInv, TypeInv, CargInv
    <3>2. carg[c] \notin Queued
      BY InRingType DEF PoolInv, OnceInv
    <3>3. carg[c] \notin finished /\ \A w \in Slots : task[w] # carg[c]
      BY <3>1 DEF PoolInv, OnceInv
    <3> QED
      BY <2>2, <3>1, <3>2, <3>3, TryAddAccepts DEF AddWake, life
  <2>3. CASE \/ AddWait(c) \/ SpuriousAddWake(c) \/ Destroy(c) \/ DestroyJoin(c)
             \/ DestroySignal(c) \/ DestroySignalled(c) \/ DestroyFree(c)
    BY <2>3, Stutters DEF AddWait, SpuriousAddWake, Destroy, DestroyJoin, DestroySignal,
       DestroySignalled, DestroyFree, workers, life
  <2> QED
    BY <1>3, <2>1, <2>2, <2>3 DEF Caller
<1>4. CASE UNCHANGED vars
  BY <1>4, Stutters DEF vars, workers, life
<1> QED
  BY <1>1, <1>2, <1>3, <1>4 DEF Next, Step, Released

\* The C pool keeps the promise of TaskPool: with a ring that wraps round,
\* conditions that wake whom they like, workers that come and go and a destroy
\* that takes no mutex, each accepted task is started once, in the order of
\* acceptance, and none after shutdown.
THEOREM PoolImplementsTaskPool == Spec => ImplementsTaskPool
  BY PromiseInit, PromiseStep, PoolInvInit, PoolInvStep, PTL
     DEF Spec, ImplementsTaskPool, Promise!Spec

\* Each task is in one place at a time: no two workers execute it, so that its
\* argument is freed once, and once it has finished it is nowhere again, the
\* stale cells of the ring notwithstanding.
THEOREM TasksCorrect == Spec => [](HoldInv /\ OnceInv)
<1>1. PoolInv => HoldInv /\ OnceInv
  BY DEF PoolInv
<1> QED
  BY <1>1, PoolInvInit, PoolInvStep, PTL DEF Spec
=============================================================================
