------------------------- MODULE ThreadPoolCppProofs -------------------------
(***************************************************************************)
(* Theorems about the C++ thread pool, for every number of callers,        *)
(* workers and tasks.  Each invariant is proved on top of those before it: *)
(* types and local variables; the two mutexes; the counts; that each task  *)
(* is in one place.  They lead to the refinement of TaskPool.              *)
(***************************************************************************)
EXTENDS ThreadPoolCpp, FiniteSetTheorems, SequenceTheorems, TLAPS

-----------------------------------------------------------------------------
(* Lemmas about the operators of the model *)

\* There are maxNum cells in threadIDs.
LEMMA SlotsFinite == IsFiniteSet(Slots) /\ Cardinality(Slots) = maxNum
  BY FS_Interval, PoolAssumption DEF Slots

\* A signal wakes one of the workers asleep, or changes nothing.
LEMMA Signalled ==
  ASSUME SignalNotEmpty
  PROVE  pc' = pc \/ \E w \in Slots : pc[w] = "waiting" /\ pc' = [pc EXCEPT ![w] = "woken"]
<1>1. CASE {w \in Slots : pc[w] = "waiting"} = {}
  BY <1>1 DEF SignalNotEmpty
<1>2. CASE {w \in Slots : pc[w] = "waiting"} # {}
  <2>1. PICK w \in {v \in Slots : pc[v] = "waiting"} : pc' = [pc EXCEPT ![w] = "woken"]
    BY <1>2 DEF SignalNotEmpty
  <2> QED
    BY <2>1
<1> QED
  BY <1>1, <1>2

\* pop: the head leaves the queue and the others move up.
LEMMA Popped ==
  ASSUME NEW q \in Seq(Tasks), q # <<>>
  PROVE  /\ Len(q) \in Nat \ {0} /\ Head(q) = q[1] /\ q[1] \in Tasks
         /\ Tail(q) \in Seq(Tasks) /\ Len(Tail(q)) = Len(q) - 1
         /\ \A i \in 1..(Len(q) - 1) : Tail(q)[i] = q[i + 1]
<1>1. Len(q) \in Nat \ {0} /\ Head(q) = q[1] /\ q[1] \in Tasks
  BY EmptySeq, ElementOfSeq
<1>2. Tail(q) \in Seq(Tasks) /\ Len(Tail(q)) = Len(q) - 1
  BY HeadTailProperties
<1>3. \A i \in 1..(Len(q) - 1) : Tail(q)[i] = q[i + 1]
  BY HeadTailProperties, <1>1, <1>2
<1> QED
  BY <1>1, <1>2, <1>3

\* push: the new task is behind the others.
LEMMA Pushed ==
  ASSUME NEW q \in Seq(Tasks), NEW t \in Tasks
  PROVE  /\ Len(q) \in Nat
         /\ Append(q, t) \in Seq(Tasks) /\ Len(Append(q, t)) = Len(q) + 1
         /\ \A i \in 1..Len(q) : Append(q, t)[i] = q[i]
         /\ Append(q, t)[Len(q) + 1] = t /\ Append(q, t) # <<>>
<1>1. /\ Len(q) \in Nat
      /\ Append(q, t) \in Seq(Tasks) /\ Len(Append(q, t)) = Len(q) + 1
      /\ \A i \in 1..Len(q) : Append(q, t)[i] = q[i]
      /\ Append(q, t)[Len(q) + 1] = t
  BY AppendProperties, LenProperties
<1> QED
  BY <1>1, EmptySeq

-----------------------------------------------------------------------------
(* Types *)

WorkerPlaces == {"none", "lock", "wait", "waiting", "woken", "take",
                 "running", "done", "retire", "quit"}

\* A caller has a task until it has pushed it.
CargInv == \A c \in Callers : carg[c] # NoTask <=> cpc[c] \in {"add", "push"}

TypeInv == TypeOK /\ CargInv

\* What the constructor sets up is well typed.
LEMMA TypeInit == Init => TypeInv
<1> SUFFICES ASSUME Init PROVE TypeInv
  OBVIOUS
<1> USE PoolAssumption
<1>1. /\ pc \in [Slots -> WorkerPlaces] /\ task \in [Slots -> Tasks \union {NoTask}]
      /\ cpc \in [Callers -> {"idle", "add", "push", "notify", "join", "signal", "returned"}]
      /\ carg \in [Callers -> Tasks \union {NoTask}]
  BY DEF Init, WorkerPlaces
<1>2. /\ taskQ \in Seq(Tasks) /\ snap \in [queueSize : Nat, liveNum : Int, busyNum : Int]
      /\ finished \subseteq Tasks \union {NoTask}
  BY DEF Init, NoSnap
<1>3. /\ busyNum \in Int /\ liveNum \in Int /\ exitNum \in 0..2
      /\ created = 0 /\ mi = 0 /\ counter = 0 /\ di = 0
  BY DEF Init
<1>4. /\ shutdown \in BOOLEAN /\ mutexPool \in BOOLEAN /\ freed \in BOOLEAN
      /\ mpc = "test"
  BY DEF Init
<1>5. CargInv
  BY DEF Init, CargInv
<1> QED
  BY <1>1, <1>2, <1>3, <1>4, <1>5 DEF TypeInv, TypeOK, NUMBER, WorkerPlaces

\* The size that a thread reads is a number, whatever it may be.
LEMMA TaskNumberType == TypeInv => TaskNumber \subseteq Nat
<1> SUFFICES ASSUME TypeInv PROVE TaskNumber \subseteq Nat
  OBVIOUS
<1>1. Len(taskQ) \in Nat
  BY LenProperties DEF TypeInv, TypeOK
<1>2. Cardinality(Tasks) \in Nat
  BY PoolAssumption, FS_CardinalityType
<1> QED
  BY <1>1, <1>2 DEF TaskNumber

\* A worker that examines the queue moves, and changes no more than the mutex.
LEMMA Examined ==
  ASSUME TypeInv, NEW w \in Slots, Examine(w)
  PROVE  /\ mutexPool' \in BOOLEAN
         /\ \E s \in {"wait", "quit", "take"} :
               /\ pc' = [pc EXCEPT ![w] = s]
               /\ mutexPool' = (s # "quit")
               /\ (s = "quit") = shutdown
               /\ s = "wait" => 0 \in TaskNumber
               /\ s = "take" => \E n \in TaskNumber : n # 0
  BY DEF Examine, TypeInv, TypeOK

\* Every step of every thread keeps the types.
LEMMA TypeStep == TypeInv /\ [Next]_vars => TypeInv'
<1> SUFFICES ASSUME TypeInv, [Next]_vars PROVE TypeInv'
  OBVIOUS
<1> USE PoolAssumption DEF TypeInv, CargInv, NUMBER
<1>p. /\ pc \in [Slots -> WorkerPlaces] /\ task \in [Slots -> Tasks \union {NoTask}]
      /\ exitNum \in 0..2 /\ liveNum \in Int /\ busyNum \in Int
  BY DEF TypeOK, WorkerPlaces
<1>b. BackToTest => /\ mpc' = "test" /\ mi' = 0 /\ counter' = 0
                    /\ snap' \in [queueSize : Nat, liveNum : Int, busyNum : Int]
  BY DEF BackToTest, NoSnap
\* Steps of a worker or of the manager that only move and count.
<1>w. ASSUME pc' \in [Slots -> WorkerPlaces], mutexPool' \in BOOLEAN,
             busyNum' \in Int, liveNum' \in Int, exitNum' \in 0..2,
             UNCHANGED <<taskQ, life, task, manager, caller, finished>>
      PROVE  TypeInv'
  BY <1>w DEF TypeOK, life, manager, caller, WorkerPlaces
<1>m. ASSUME mpc' \in {"test", "sleep", "decide", "scan", "shrink", "signal", "exited"},
             snap' \in [queueSize : Nat, liveNum : Int, busyNum : Int],
             mi' \in 0..maxNum, counter' \in 0..2,
             liveNum' \in Int, exitNum' \in 0..2, mutexPool' \in BOOLEAN,
             pc' \in [Slots -> WorkerPlaces],
             UNCHANGED <<taskQ, busyNum, life, task, caller, finished>>
      PROVE  TypeInv'
  BY <1>m DEF TypeOK, life, caller, WorkerPlaces
<1>s. SignalNotEmpty => pc' \in [Slots -> WorkerPlaces]
  BY <1>p, Signalled DEF WorkerPlaces
<1>1. CASE CreateWorker
  <2>1. created' \in 0..minNum /\ created \in Nat /\ pc' = [pc EXCEPT ![created] = "lock"]
    BY <1>1 DEF CreateWorker, TypeOK
  <2>2. pc' \in [Slots -> WorkerPlaces]
    BY <1>p, <2>1 DEF WorkerPlaces
  <2> QED
    BY <1>1, <2>1, <2>2 DEF CreateWorker, TypeOK, counts, life, manager, WorkerPlaces
<1>2. CASE Manager
  <2>1. CASE ManagerTest
    BY <1>m, <1>p, <2>1 DEF ManagerTest, TypeOK, counts, workers
  <2>2. CASE ManagerSnapshot
    <3>1. PICK n \in Nat : snap' = [queueSize |-> n, liveNum |-> liveNum, busyNum |-> busyNum]
      BY <2>2, TaskNumberType DEF ManagerSnapshot
    <3>2. snap' \in [queueSize : Nat, liveNum : Int, busyNum : Int]
      BY <1>p, <3>1
    <3> QED
      BY <1>m, <1>p, <2>2, <3>2 DEF ManagerSnapshot, TypeOK, counts, workers
  <2>3. CASE ManagerDecide
    <3>1. UNCHANGED <<taskQ, busyNum, liveNum, exitNum, life, pc, task, caller, finished>>
      BY <2>3 DEF ManagerDecide, counts, workers
    <3>2. CASE BackToTest /\ mutexPool' = mutexPool
      BY <1>m, <1>p, <1>b, <3>1, <3>2 DEF TypeOK
    <3>3. CASE /\ UNCHANGED <<snap, mi, counter>> /\ mpc' \in {"scan", "shrink"}
               /\ mutexPool' \in BOOLEAN
      BY <1>m, <1>p, <3>1, <3>3 DEF TypeOK
    <3> QED
      BY <2>3, <3>2, <3>3 DEF ManagerDecide, TypeOK
  <2>4. CASE ManagerScan
    <3>1. /\ mi' \in 0..maxNum /\ counter' \in 0..2 /\ liveNum' \in Int
          /\ pc' = pc \/ pc' = [pc EXCEPT ![mi] = "lock"]
      BY <1>p, <2>4 DEF ManagerScan, ScanGoesOn, TypeOK
    <3>2. pc' \in [Slots -> WorkerPlaces]
      BY <1>p, <3>1 DEF WorkerPlaces
    <3> QED
      BY <1>m, <1>p, <2>4, <3>1, <3>2 DEF ManagerScan, TypeOK
  <2>5. CASE ManagerScanned
    <3>1. /\ mpc' \in {"test", "shrink"} /\ mi' \in 0..maxNum /\ counter' \in 0..2
          /\ snap' \in [queueSize : Nat, liveNum : Int, busyNum : Int]
      BY <1>b, <2>5 DEF ManagerScanned, TypeOK
    <3> QED
      BY <1>m, <1>p, <2>5, <3>1 DEF ManagerScanned, counts, workers
  <2>6. CASE ManagerShrink
    BY <1>m, <1>p, <2>6 DEF ManagerShrink, TypeOK, workers
  <2>7. CASE ManagerSignal
    BY <1>m, <1>p, <1>b, <1>s, <2>7 DEF ManagerSignal, TypeOK, counts
  <2> QED
    BY <1>2, <2>1, <2>2, <2>3, <2>4, <2>5, <2>6, <2>7 DEF Manager
<1>3. ASSUME NEW w \in Slots, Worker(w) \/ SpuriousWake(w) PROVE TypeInv'
  <2>1. CASE Lock(w)
    BY <1>w, <1>p, <2>1, Examined DEF Lock, counts, WorkerPlaces
  <2>2. CASE Wake(w) /\ Resume(w)
    BY <1>w, <1>p, <2>2, Examined DEF Wake, Resume, WorkerPlaces
  <2>3. CASE Wake(w) /\ Retire(w)
    BY <1>w, <1>p, <2>3 DEF Wake, Retire, TypeOK, WorkerPlaces
  <2>4. CASE Wait(w) \/ SpuriousWake(w) \/ ThreadExit(w)
    BY <1>w, <1>p, <2>4 DEF Wait, SpuriousWake, ThreadExit, TypeOK, counts, WorkerPlaces
  <2>7. CASE NotBusy(w)
    BY <1>w, <1>p, <2>7 DEF NotBusy, TypeOK, WorkerPlaces
  <2>5. CASE Take(w)
    <3>1. taskQ' \in Seq(Tasks) /\ task' \in [Slots -> Tasks \union {NoTask}]
      <4>1. CASE taskQ = <<>>
        BY <1>p, <2>5, <4>1 DEF Take, TakeTask, TypeOK
      <4>2. CASE taskQ # <<>>
        <5>1. /\ task' = [task EXCEPT ![w] = Head(taskQ)] /\ taskQ' = Tail(taskQ)
              /\ taskQ \in Seq(Tasks)
          BY <2>5, <4>2 DEF Take, TakeTask, TypeOK
        <5>2. Head(taskQ) \in Tasks /\ Tail(taskQ) \in Seq(Tasks)
          BY <4>2, <5>1, Popped
        <5> QED
          BY <1>p, <5>1, <5>2
      <4> QED
        BY <4>1, <4>2
    <3>2. pc' \in [Slots -> WorkerPlaces] /\ busyNum' \in Int
      BY <1>p, <2>5 DEF Take, WorkerPlaces
    <3> QED
      BY <2>5, <3>1, <3>2 DEF Take, TypeOK, life, manager, caller, WorkerPlaces
  <2>6. CASE Finish(w)
    BY <2>6 DEF Finish, TypeOK, counts, life, manager, caller
  <2> QED
    BY <1>3, <2>1, <2>2, <2>3, <2>4, <2>5, <2>6, <2>7 DEF Worker, Wake
<1>4. ASSUME NEW c \in Callers,
             Caller(c) \/ Destroy(c) \/ \E t \in Tasks : AddTask(c, t)
      PROVE  TypeInv'
  <2>1. CASE \E t \in Tasks : AddTask(c, t)
    BY <2>1 DEF AddTask, TypeOK, counts, life, workers, manager
  <2>2. CASE BeginPush(c)
    BY <2>2 DEF BeginPush, TypeOK, counts, life, workers, manager
  <2>3. CASE EndPush(c)
    <3>1. taskQ' \in Seq(Tasks)
      BY <2>3, Pushed DEF EndPush, TypeOK
    <3> QED
      BY <2>3, <3>1 DEF EndPush, TypeOK, counts, life, workers, manager
  <2>4. CASE Notify(c)
    BY <1>s, <2>4 DEF Notify, TypeOK, counts, life, manager, WorkerPlaces
  <2>5. CASE Destroy(c)
    BY <2>5 DEF Destroy, TypeOK, counts, workers, manager
  <2>6. CASE DestroyJoin(c)
    BY <2>6 DEF DestroyJoin, TypeOK, counts, life, workers, manager
  <2>7. CASE DestroySignal(c)
    BY <1>s, <2>7 DEF DestroySignal, TypeOK, counts, life, manager, WorkerPlaces
  <2>8. CASE DestroyFree(c)
    BY <2>8 DEF DestroyFree, TypeOK, counts, workers, manager
  <2> QED
    BY <1>4, <2>1, <2>2, <2>3, <2>4, <2>5, <2>6, <2>7, <2>8 DEF Caller
<1>5. CASE UNCHANGED vars
  BY <1>5 DEF vars, TypeOK, counts, life, workers, manager, caller
<1> QED
  BY <1>1, <1>2, <1>3, <1>4, <1>5 DEF Next, Step, Released

\* The fields of the pool and the locals of its threads keep their types.
THEOREM CppTypesCorrect == Spec => []TypeOK
<1>1. TypeInv => TypeOK
  BY DEF TypeInv
<1> QED
  BY <1>1, TypeInit, TypeStep, PTL DEF Spec

-----------------------------------------------------------------------------
(* The mutexes *)

\* A worker that has found that it must wait, or may take, keeps the pool's
\* mutex alone, as does the manager while it starts workers.  What a worker is
\* about to take is there, or will be once the push under way has ended: nobody
\* else can take it.
MutexInv ==
    /\ \A w \in Slots : pc[w] \in {"wait", "take"} =>
          /\ mutexPool /\ mpc # "scan"
          /\ \A v \in Slots : pc[v] \in {"wait", "take"} => v = w
    /\ mpc = "scan" => mutexPool
    /\ \A w \in Slots : pc[w] = "take" => taskQ # <<>> \/ QueueLocked

\* Every step leaves the mutex with at most one thread, and no other takes what
\* a worker has seen.
LEMMA MutexStep == TypeInv /\ MutexInv /\ [Next]_vars => MutexInv'
<1> SUFFICES ASSUME TypeInv, MutexInv, [Next]_vars PROVE MutexInv'
  OBVIOUS
<1> USE DEF MutexInv
<1>p. pc \in [Slots -> WorkerPlaces] /\ taskQ \in Seq(Tasks) /\ mutexPool \in BOOLEAN
  BY DEF TypeInv, TypeOK, WorkerPlaces
\* Steps by which nobody comes to hold the mutex.
<1>s. ASSUME \A w \in Slots : pc'[w] \in {"wait", "take"} => pc'[w] = pc[w],
             mpc' = "scan" => mpc = "scan", UNCHANGED <<taskQ, cpc, mutexPool>>
      PROVE  MutexInv'
  BY <1>s DEF QueueLocked
\* A worker that has the mutex and examines the queue.
<1>e. ASSUME NEW w \in Slots, ~mutexPool, Examine(w), UNCHANGED <<taskQ, mpc, cpc>>
      PROVE  MutexInv'
  <2>1. PICK q \in {"wait", "quit", "take"} :
           /\ pc' = [pc EXCEPT ![w] = q] /\ mutexPool' = (q # "quit")
           /\ q = "take" => \E n \in TaskNumber : n # 0
    BY <1>e, Examined
  <2>2. q = "take" => taskQ # <<>> \/ QueueLocked
    BY <2>1, EmptySeq DEF TaskNumber
  <2>3. \A v \in Slots : pc[v] \notin {"wait", "take"}
    BY <1>e
  <2> QED
    BY <1>e, <1>p, <2>1, <2>2, <2>3 DEF QueueLocked
<1>g. SignalNotEmpty => \A w \in Slots : pc'[w] \in {"wait", "take"} => pc'[w] = pc[w]
  BY <1>p, Signalled
\* A caller that does not end a push.
<1>c. ASSUME NEW c \in Callers, cpc[c] # "push", UNCHANGED <<taskQ, mpc, mutexPool>>,
             \A d \in Callers : d # c => cpc'[d] = cpc[d],
             \A w \in Slots : pc'[w] \in {"wait", "take"} => pc'[w] = pc[w]
      PROVE  MutexInv'
  BY <1>c DEF QueueLocked
<1>1. CASE CreateWorker
  BY <1>s, <1>p, <1>1 DEF CreateWorker, manager
<1>2. CASE Manager
  <2>1. CASE ManagerTest \/ ManagerSnapshot \/ ManagerShrink
    BY <1>s, <2>1 DEF ManagerTest, ManagerSnapshot, ManagerShrink, workers, caller
  <2>2. CASE ManagerDecide
    BY <2>2 DEF ManagerDecide, BackToTest, workers, caller, QueueLocked
  <2>3. CASE ManagerScan
    BY <1>p, <2>3 DEF ManagerScan, caller, QueueLocked
  <2>4. CASE ManagerScanned
    BY <2>4 DEF ManagerScanned, BackToTest, workers, caller, QueueLocked
  <2>5. CASE ManagerSignal
    BY <1>s, <1>g, <2>5 DEF ManagerSignal, BackToTest, caller
  <2> QED
    BY <1>2, <2>1, <2>2, <2>3, <2>4, <2>5 DEF Manager
<1>3. ASSUME NEW w \in Slots, Worker(w) \/ SpuriousWake(w) PROVE MutexInv'
  <2>1. CASE Lock(w) \/ (Wake(w) /\ Resume(w))
    BY <1>e, <2>1 DEF Lock, Wake, Resume, manager, caller
  <2>2. CASE Wake(w) /\ Retire(w)
    BY <1>s, <1>p, <2>2 DEF Wake, Retire, manager, caller
  <2>3. CASE SpuriousWake(w) \/ Finish(w) \/ NotBusy(w) \/ ThreadExit(w)
    BY <1>p, <2>3 DEF SpuriousWake, Finish, NotBusy, ThreadExit, manager, caller, QueueLocked
  <2>4. CASE Wait(w) \/ Take(w)
    <3>1. /\ \A v \in Slots : pc'[v] \notin {"wait", "take"}
          /\ mpc' = mpc /\ mpc # "scan"
      BY <1>p, <2>4 DEF Wait, Take, manager
    <3> QED
      BY <3>1
  <2> QED
    BY <1>3, <2>1, <2>2, <2>3, <2>4 DEF Worker, Wake
<1>4. ASSUME NEW c \in Callers,
             Caller(c) \/ Destroy(c) \/ \E t \in Tasks : AddTask(c, t)
      PROVE  MutexInv'
  <2>p. cpc \in [Callers -> {"idle", "add", "push", "notify", "join", "signal", "returned"}]
    BY DEF TypeInv, TypeOK
  <2>1. CASE EndPush(c)
    <3>1. carg[c] \in Tasks
      BY <2>1 DEF EndPush, TypeInv, TypeOK, CargInv
    <3>2. taskQ' # <<>>
      BY <1>p, <2>1, <3>1, Pushed DEF EndPush
    <3> QED
      BY <2>1, <3>2 DEF EndPush, workers, manager
  <2>2. CASE BeginPush(c) \/ DestroyJoin(c) \/ DestroyFree(c) \/ Destroy(c)
    BY <1>c, <2>p, <2>2 DEF BeginPush, DestroyJoin, DestroyFree, Destroy, workers, manager
  <2>3. CASE \E t \in Tasks : AddTask(c, t)
    BY <1>c, <2>p, <2>3 DEF AddTask, workers, manager
  <2>4. CASE Notify(c)
    BY <1>c, <1>g, <2>p, <2>4 DEF Notify, manager
  <2>5. CASE DestroySignal(c)
    BY <1>s, <1>g, <2>5 DEF DestroySignal, manager
  <2> QED
    BY <1>4, <2>1, <2>2, <2>3, <2>4, <2>5 DEF Caller
<1>5. CASE UNCHANGED vars
  BY <1>s, <1>5 DEF vars, workers, manager, caller
<1> QED
  BY <1>1, <1>2, <1>3, <1>4, <1>5 DEF Next, Step, Released

-----------------------------------------------------------------------------
(* The counts *)

Counted == {w \in Slots : pc[w] \notin {"none", "retire"}}

\* While the constructor is still starting workers nobody has added a task or
\* destroyed the pool, so the manager starts none, and the cells not reached yet
\* are empty.
CreateInv ==
    created < minNum =>
       /\ ~shutdown /\ taskQ = <<>> /\ snap.queueSize = 0 /\ mpc # "scan"
       /\ \A w \in Slots : w >= created => pc[w] = "none"
       /\ \A c \in Callers : cpc[c] = "idle"

\* Workers quit only at shutdown, and the manager's copy of liveNum is not
\* negative.
QuitInv == /\ \A w \in Slots : pc[w] = "quit" => shutdown
           /\ snap.liveNum >= 0

CountInv == LiveNumExact /\ CreateInv /\ QuitInv

\* One worker more or less is counted.
LEMMA CountStep ==
  ASSUME NEW A \in SUBSET Slots, NEW w \in Slots
  PROVE  /\ Cardinality(A) \in Nat
         /\ w \notin A => Cardinality(A \union {w}) = Cardinality(A) + 1
         /\ w \in A => Cardinality(A \ {w}) = Cardinality(A) - 1
<1>1. IsFiniteSet(A)
  BY SlotsFinite, FS_Subset
<1> QED
  BY <1>1, FS_CardinalityType, FS_AddElement, FS_RemoveElement

\* The constructor sets liveNum to minNum before the workers are started.
LEMMA CountInit == Init => CountInv
<1> SUFFICES ASSUME Init PROVE CountInv
  OBVIOUS
<1>1. {w \in Slots : pc[w] \notin {"none", "retire"}} = {}
  BY DEF Init
<1>2. LiveNumExact
  <2>1. Cardinality({w \in Slots : pc[w] \notin {"none", "retire"}}) = 0
    BY <1>1, FS_EmptySet
  <2>2. liveNum = minNum /\ created = 0
    BY DEF Init
  <2> QED
    BY <2>1, <2>2, PoolAssumption DEF LiveNumExact
<1> QED
  BY <1>2 DEF Init, CountInv, CreateInv, QuitInv, NoSnap, Slots

\* The counts survive every step.
LEMMA CountInvStep == TypeInv /\ CountInv /\ [Next]_vars => CountInv'
<1> SUFFICES ASSUME TypeInv, CountInv, [Next]_vars PROVE CountInv'
  OBVIOUS
<1> USE PoolAssumption DEF CountInv
<1>p. /\ pc \in [Slots -> WorkerPlaces] /\ liveNum \in Int
      /\ created \in 0..minNum /\ Slots = 0..(maxNum - 1)
      /\ mi \in 0..maxNum /\ taskQ \in Seq(Tasks)
  BY DEF TypeInv, TypeOK, WorkerPlaces, Slots
<1>c. Counted \in SUBSET Slots /\ Counted' \in SUBSET Slots /\ Cardinality(Counted) \in Nat
  BY SlotsFinite, FS_Subset, FS_CardinalityType DEF Counted
<1>l. LiveNumExact <=> /\ minNum <= liveNum /\ liveNum <= maxNum
                       /\ Cardinality(Counted) + (minNum - created) <= liveNum
                       /\ ~shutdown => Cardinality(Counted) + (minNum - created) = liveNum
  BY DEF LiveNumExact, Counted
<1>m. LiveNumExact' <=> /\ minNum <= liveNum' /\ liveNum' <= maxNum
                        /\ Cardinality(Counted') + (minNum - created') <= liveNum'
                        /\ ~shutdown' => Cardinality(Counted') + (minNum - created') = liveNum'
  BY DEF LiveNumExact, Counted
\* Steps that count nobody in or out.
<1>s. ASSUME Counted' = Counted, UNCHANGED <<liveNum, created>>,
             shutdown => shutdown', created < minNum => ~shutdown' /\ taskQ' = <<>>,
             \A w \in Slots : pc'[w] = "quit" => pc[w] = "quit" \/ shutdown,
             \A w \in Slots : pc[w] = "none" => pc'[w] = "none",
             created < minNum => snap'.queueSize = 0 /\ mpc' # "scan",
             created < minNum => cpc' = cpc,
             snap'.liveNum >= 0
      PROVE  CountInv'
  <2>1. LiveNumExact'
    BY <1>l, <1>m, <1>p, <1>c, <1>s
  <2> QED
    BY <1>s, <2>1 DEF CreateInv, QuitInv
<1>g. SignalNotEmpty => /\ Counted' = Counted
                        /\ \A w \in Slots : pc'[w] = "quit" => pc[w] = "quit"
                        /\ \A w \in Slots : pc[w] = "none" => pc'[w] = "none"
  BY <1>p, Signalled DEF Counted
<1>1. CASE CreateWorker
  <2>1. created \in Slots /\ pc[created] = "none"
    BY <1>1, <1>p DEF CreateWorker, CreateInv
  <2>2. Counted' = Counted \union {created} /\ created \notin Counted
    BY <1>1, <1>p, <2>1 DEF CreateWorker, Counted
  <2>3. Cardinality(Counted') = Cardinality(Counted) + 1
    BY <2>1, <2>2, CountStep, <1>c
  <2>4. LiveNumExact'
    BY <1>1, <1>p, <1>c, <1>l, <1>m, <2>3 DEF CreateWorker, counts, life
  <2>5. CreateInv' /\ QuitInv'
    BY <1>1, <1>p DEF CreateWorker, CreateInv, QuitInv, life, manager
  <2> QED
    BY <2>4, <2>5
<1>2. CASE Manager
  <2>1. CASE ManagerScan
    <3>1. ~(created < minNum) /\ liveNum < maxNum /\ mi \in Slots
      BY <1>p, <2>1 DEF ManagerScan, ScanGoesOn, CreateInv
    <3>2. CASE pc[mi] = "none"
      <4>1. Counted' = Counted \union {mi} /\ mi \notin Counted
        BY <1>p, <2>1, <3>1, <3>2 DEF ManagerScan, Counted
      <4>2. Cardinality(Counted') = Cardinality(Counted) + 1
        BY <3>1, <4>1, CountStep, <1>c
      <4>3. LiveNumExact'
        BY <1>p, <1>c, <1>l, <1>m, <2>1, <3>1, <3>2, <4>2 DEF ManagerScan, life, caller
      <4> QED
        BY <1>p, <2>1, <3>1, <3>2, <4>3 DEF ManagerScan, CreateInv, QuitInv, life, caller
    <3>3. CASE pc[mi] # "none"
      BY <1>s, <2>1, <3>1, <3>3 DEF ManagerScan, Counted, CreateInv, QuitInv, life, caller
    <3> QED
      BY <3>2, <3>3
  <2>2. CASE ManagerSignal
    BY <1>s, <1>g, <2>2 DEF ManagerSignal, BackToTest, NoSnap, CreateInv, QuitInv,
       counts, life, caller
  <2>3. CASE ManagerSnapshot
    <3>1. Len(<<>>) = 0
      OBVIOUS
    <3>2. created < minNum => TaskNumber = {0}
      BY <3>1 DEF CreateInv, TaskNumber, QueueLocked
    <3> QED
      BY <1>s, <1>p, <1>l, <2>3, <3>2 DEF ManagerSnapshot, Counted, CreateInv, QuitInv,
         counts, life, workers, caller
  <2>4. CASE ManagerDecide
    <3>1. created < minNum => ~GrowWanted
      BY DEF GrowWanted, CreateInv, QuitInv, TypeInv, TypeOK
    <3> QED
      BY <1>s, <2>4, <3>1 DEF ManagerDecide, BackToTest, NoSnap, Counted, CreateInv, QuitInv,
         counts, life, workers, caller
  <2>5. CASE ManagerScanned
    BY <1>s, <2>5 DEF ManagerScanned, BackToTest, NoSnap, Counted, CreateInv, QuitInv,
       counts, life, workers, caller
  <2>6. CASE ManagerTest \/ ManagerShrink
    BY <1>s, <2>6 DEF ManagerTest, ManagerShrink, Counted, CreateInv, QuitInv,
       counts, life, workers, caller
  <2> QED
    BY <1>2, <2>1, <2>2, <2>3, <2>4, <2>5, <2>6 DEF Manager
<1>3. ASSUME NEW w \in Slots, Worker(w) \/ SpuriousWake(w) PROVE CountInv'
  <2>1. CASE Lock(w) \/ (Wake(w) /\ Resume(w))
    <3>1. /\ pc[w] \in {"lock", "woken"} /\ Examine(w)
          /\ UNCHANGED <<taskQ, liveNum, life, manager, caller>>
      BY <2>1 DEF Lock, Wake, Resume, counts
    <3>2. PICK q \in {"wait", "quit", "take"} :
             pc' = [pc EXCEPT ![w] = q] /\ (q = "quit") = shutdown
      BY <3>1, Examined
    <3>3. Counted' = Counted
      BY <1>p, <3>1, <3>2 DEF Counted
    <3> QED
      BY <1>s, <1>p, <3>1, <3>2, <3>3 DEF CreateInv, QuitInv, life, manager, caller
  <2>2. CASE Wake(w) /\ Retire(w)
    <3>1. Counted' = Counted \ {w} /\ w \in Counted
      BY <1>p, <2>2 DEF Wake, Retire, Counted
    <3>2. Cardinality(Counted') = Cardinality(Counted) - 1
      BY <3>1, CountStep, <1>c
    <3>3. LiveNumExact'
      <4>1. /\ liveNum' = liveNum - 1 /\ liveNum > minNum
            /\ created' = created /\ shutdown' = shutdown
        BY <2>2 DEF Wake, Retire, life, caller
      <4> QED
        BY <1>p, <1>c, <1>l, <1>m, <3>2, <4>1
    <3>4. CreateInv' /\ QuitInv'
      BY <1>p, <2>2 DEF Wake, Retire, CreateInv, QuitInv, life, manager, caller
    <3> QED
      BY <3>3, <3>4
  <2>3. CASE Wait(w) \/ SpuriousWake(w) \/ Finish(w) \/ NotBusy(w)
    BY <1>s, <1>p, <2>3 DEF Wait, SpuriousWake, Finish, NotBusy, Counted, CreateInv, QuitInv,
       counts, life, manager, caller
  <2>4. CASE Take(w)
    <3>1. taskQ = <<>> => taskQ' = <<>>
      BY <2>4 DEF Take, TakeTask
    <3> QED
      BY <1>s, <1>p, <2>4, <3>1 DEF Take, Counted, CreateInv, QuitInv, life, manager, caller
  <2>5. CASE ThreadExit(w) /\ pc[w] = "retire"
    BY <1>s, <1>p, <2>5 DEF ThreadExit, Counted, CreateInv, QuitInv,
       counts, life, manager, caller
  <2>6. CASE ThreadExit(w) /\ pc[w] = "quit"
    <3>1. Counted' = Counted \ {w} /\ w \in Counted /\ shutdown
      BY <1>p, <2>6 DEF ThreadExit, Counted, QuitInv
    <3>2. Cardinality(Counted') = Cardinality(Counted) - 1
      BY <3>1, CountStep, <1>c
    <3>3. LiveNumExact'
      <4>1. liveNum' = liveNum /\ created' = created /\ shutdown'
        BY <2>6, <3>1 DEF ThreadExit, counts, life, caller
      <4> QED
        BY <1>p, <1>c, <1>l, <1>m, <3>2, <4>1
    <3> QED
      BY <1>p, <2>6, <3>1, <3>3 DEF ThreadExit, CreateInv, QuitInv,
         counts, life, manager, caller
  <2> QED
    BY <1>3, <2>1, <2>2, <2>3, <2>4, <2>5, <2>6 DEF Worker, Wake, ThreadExit
<1>4. ASSUME NEW c \in Callers,
             Caller(c) \/ Destroy(c) \/ \E t \in Tasks : AddTask(c, t)
      PROVE  CountInv'
  <2>1. ~(created < minNum)
    BY <1>4, <1>p DEF Caller, Destroy, AddTask, BeginPush, EndPush, Notify, DestroyJoin,
       DestroySignal, DestroyFree, CreateInv
  <2>2. CASE Notify(c) \/ DestroySignal(c)
    BY <1>s, <1>g, <2>1, <2>2 DEF Notify, DestroySignal, QuitInv, counts, life, manager
  <2> QED
    BY <1>4, <1>s, <1>p, <2>1, <2>2 DEF Caller, Destroy, AddTask, BeginPush, EndPush, DestroyJoin,
       DestroyFree, QuitInv, Counted, counts, life, workers, manager
<1>5. CASE UNCHANGED vars
  BY <1>s, <1>5 DEF vars, Counted, CreateInv, QuitInv, counts, life, workers, manager, caller
<1> QED
  BY <1>1, <1>2, <1>3, <1>4, <1>5 DEF Next, Step, Released

\* liveNum is the number of workers and stays between minNum and maxNum.
THEOREM CppLiveNumCorrect == Spec => []LiveNumExact
<1>1. CountInv => LiveNumExact
  BY DEF CountInv
<1> QED
  BY <1>1, TypeInit, TypeStep, CountInit, CountInvStep, PTL DEF Spec

-----------------------------------------------------------------------------
(* Each task is in one place *)

\* A worker has a task exactly inside its function.
TaskInv == \A w \in Slots : task[w] # NoTask <=> pc[w] = "running"

\* Take finds a task, and the cells of new workers were empty.
LEMMA TaskInvStep ==
  TypeInv /\ MutexInv /\ CountInv /\ TaskInv /\ [Next]_vars => TaskInv'
<1> SUFFICES ASSUME TypeInv, MutexInv, CountInv, TaskInv, [Next]_vars PROVE TaskInv'
  OBVIOUS
<1> USE PoolAssumption DEF TaskInv
<1>p. /\ pc \in [Slots -> WorkerPlaces] /\ task \in [Slots -> Tasks \union {NoTask}]
      /\ created \in 0..minNum /\ taskQ \in Seq(Tasks)
  BY DEF TypeInv, TypeOK, WorkerPlaces
\* Steps in which nobody enters or leaves a task function.
<1>s. ASSUME task' = task, \A w \in Slots : pc'[w] = "running" <=> pc[w] = "running"
      PROVE  TaskInv'
  BY <1>s
<1>g. SignalNotEmpty => \A w \in Slots : pc'[w] = "running" <=> pc[w] = "running"
  BY <1>p, Signalled
<1>1. CASE CreateWorker
  <2>1. created \in Slots => pc[created] = "none"
    BY <1>1, <1>p DEF CreateWorker, CountInv, CreateInv
  <2> QED
    BY <1>s, <1>p, <1>1, <2>1 DEF CreateWorker
<1>2. CASE Manager
  BY <1>s, <1>g, <1>p, <1>2 DEF Manager, ManagerTest, ManagerSnapshot, ManagerDecide, ManagerScan,
     ManagerScanned, ManagerShrink, ManagerSignal, workers
<1>3. ASSUME NEW w \in Slots, Worker(w) \/ SpuriousWake(w) PROVE TaskInv'
  <2>1. CASE Lock(w) \/ (Wake(w) /\ Resume(w))
    <3>1. pc[w] \in {"lock", "woken"} /\ Examine(w) /\ task' = task
      BY <2>1 DEF Lock, Wake, Resume
    <3>2. PICK q \in {"wait", "quit", "take"} : pc' = [pc EXCEPT ![w] = q]
      BY <3>1, Examined
    <3> QED
      BY <1>s, <1>p, <3>1, <3>2
  <2>2. CASE Wake(w) /\ Retire(w)
    BY <1>s, <1>p, <2>2 DEF Wake, Retire
  <2>3. CASE Wait(w) \/ SpuriousWake(w) \/ NotBusy(w) \/ ThreadExit(w)
    BY <1>s, <1>p, <2>3 DEF Wait, SpuriousWake, NotBusy, ThreadExit
  <2>4. CASE Take(w)
    <3>1. taskQ # <<>>
      BY <2>4 DEF Take, MutexInv
    <3>2. task' = [task EXCEPT ![w] = Head(taskQ)] /\ Head(taskQ) \in Tasks
      BY <1>p, <2>4, <3>1, Popped DEF Take, TakeTask
    <3>3. pc' = [pc EXCEPT ![w] = "running"]
      BY <2>4 DEF Take
    <3> QED
      BY <1>p, <3>2, <3>3
  <2>5. CASE Finish(w)
    BY <1>p, <2>5 DEF Finish
  <2> QED
    BY <1>3, <2>1, <2>2, <2>3, <2>4, <2>5 DEF Worker, Wake
<1>4. ASSUME NEW c \in Callers,
             Caller(c) \/ Destroy(c) \/ \E t \in Tasks : AddTask(c, t)
      PROVE  TaskInv'
  BY <1>4, <1>s, <1>g DEF Caller, Destroy, AddTask, BeginPush, EndPush, Notify, DestroyJoin,
     DestroySignal, DestroyFree, workers
<1>5. CASE UNCHANGED vars
  BY <1>5, <1>s DEF vars, workers
<1> QED
  BY <1>1, <1>2, <1>3, <1>4, <1>5 DEF Next, Step, Released

\* No two places hold the same task: the cells of the queue, the workers, the
\* callers that have not pushed theirs yet, and what has finished.
OnceInv ==
    /\ \A i, j \in 1..Len(taskQ) : taskQ[i] = taskQ[j] => i = j
    /\ \A i \in 1..Len(taskQ) : /\ taskQ[i] \notin finished
                                /\ \A w \in Slots : taskQ[i] # task[w]
                                /\ \A c \in Callers : taskQ[i] # carg[c]
    /\ \A w \in Slots : task[w] # NoTask =>
          /\ task[w] \notin finished
          /\ \A v \in Slots : task[v] = task[w] => v = w
          /\ \A c \in Callers : carg[c] # task[w]
    /\ \A c \in Callers : carg[c] # NoTask =>
          /\ carg[c] \notin finished
          /\ \A d \in Callers : carg[d] = carg[c] => d = c

PoolInv == TypeInv /\ MutexInv /\ CountInv /\ TaskInv /\ OnceInv

\* A task goes from a caller through the queue and a worker to the finished ones.
LEMMA OnceStep ==
  TypeInv /\ MutexInv /\ TaskInv /\ OnceInv /\ [Next]_vars => OnceInv'
<1> SUFFICES ASSUME TypeInv, MutexInv, TaskInv, OnceInv, [Next]_vars PROVE OnceInv'
  OBVIOUS
<1> USE PoolAssumption
<1> DEFINE L == Len(taskQ)
<1>p. /\ pc \in [Slots -> WorkerPlaces] /\ task \in [Slots -> Tasks \union {NoTask}]
      /\ carg \in [Callers -> Tasks \union {NoTask}] /\ taskQ \in Seq(Tasks) /\ L \in Nat
      /\ \A i \in 1..L : taskQ[i] \in Tasks
  BY LenProperties, ElementOfSeq DEF TypeInv, TypeOK, WorkerPlaces
<1> HIDE DEF L
<1>s. UNCHANGED <<taskQ, task, carg, finished>> => OnceInv'
  BY DEF OnceInv
<1>1. ASSUME NEW w \in Slots, Take(w) PROVE OnceInv'
  <2>1. taskQ # <<>>
    BY <1>1 DEF Take, MutexInv
  <2>2. /\ L \in Nat \ {0} /\ Head(taskQ) = taskQ[1] /\ taskQ[1] \in Tasks
        /\ Len(taskQ') = L - 1 /\ \A i \in 1..(L - 1) : taskQ'[i] = taskQ[i + 1]
    BY <1>1, <1>p, <2>1, Popped DEF Take, TakeTask, L
  <2>3. task[w] = NoTask /\ UNCHANGED <<carg, finished>>
    BY <1>1 DEF Take, TaskInv, caller
  <2>4. task'[w] = taskQ[1] /\ \A v \in Slots : v # w => task'[v] = task[v]
    BY <1>1, <1>p, <2>1, <2>2 DEF Take, TakeTask
  <2>5. 1 \in 1..L /\ \A i \in 1..(L - 1) : i + 1 \in 1..L /\ i + 1 # 1
    BY <2>2
  <2>6. \A i, j \in 1..(L - 1) : taskQ'[i] = taskQ'[j] => i = j
    BY <2>2, <2>5 DEF OnceInv, L
  <2>7. \A i \in 1..(L - 1) : /\ taskQ'[i] \notin finished
                              /\ \A v \in Slots : taskQ'[i] # task'[v]
                              /\ \A c \in Callers : taskQ'[i] # carg[c]
    BY <2>2, <2>4, <2>5 DEF OnceInv, L
  <2>8. \A v \in Slots : task'[v] # NoTask =>
           /\ task'[v] \notin finished
           /\ \A u \in Slots : task'[u] = task'[v] => u = v
           /\ \A c \in Callers : carg[c] # task'[v]
    BY <2>4, <2>5 DEF OnceInv, L
  <2> QED
    BY <2>2, <2>3, <2>6, <2>7, <2>8 DEF OnceInv
<1>2. ASSUME NEW w \in Slots, Finish(w) PROVE OnceInv'
  <2>1. /\ task[w] # NoTask /\ finished' = finished \union {task[w]}
        /\ UNCHANGED <<taskQ, carg>>
        /\ task'[w] = NoTask /\ \A v \in Slots : v # w => task'[v] = task[v]
    BY <1>2, <1>p DEF Finish, TaskInv, caller
  <2>2. \A i \in 1..L : taskQ[i] # NoTask
    BY <1>p
  <2> QED
    BY <1>p, <2>1, <2>2 DEF OnceInv, L
<1>3. ASSUME NEW c \in Callers, NEW t \in Tasks, AddTask(c, t) PROVE OnceInv'
  <2>1. /\ carg[c] = NoTask
        /\ carg'[c] = t /\ \A d \in Callers : d # c => carg'[d] = carg[d]
        /\ UNCHANGED <<taskQ, task, finished>>
    BY <1>3, <1>p DEF AddTask, TypeInv, CargInv, workers
  <2>2. /\ t \notin finished /\ \A i \in 1..L : taskQ[i] # t
        /\ \A w \in Slots : task[w] # t
        /\ \A d \in Callers : carg[d] # t
    BY <1>3 DEF AddTask, Fresh, Queued, L
  <2> QED
    BY <2>1, <2>2 DEF OnceInv, L
<1>4. ASSUME NEW c \in Callers, EndPush(c) PROVE OnceInv'
  <2>1. carg[c] # NoTask /\ carg[c] \in Tasks
    BY <1>4, <1>p DEF EndPush, TypeInv, CargInv
  <2>2. /\ Len(taskQ') = L + 1 /\ \A i \in 1..L : taskQ'[i] = taskQ[i]
        /\ taskQ'[L + 1] = carg[c]
    BY <1>4, <1>p, <2>1, Pushed DEF EndPush, L
  <2>3. /\ carg'[c] = NoTask /\ \A d \in Callers : d # c => carg'[d] = carg[d]
        /\ UNCHANGED <<task, finished>>
    BY <1>4, <1>p DEF EndPush, workers
  <2>4. \A i \in 1..(L + 1) : i \in 1..L \/ i = L + 1
    BY <1>p
  <2>5. \A i \in 1..L : taskQ[i] # carg[c]
    BY DEF OnceInv, L
  <2>6. \A i, j \in 1..(L + 1) : taskQ'[i] = taskQ'[j] => i = j
    BY <2>2, <2>4, <2>5 DEF OnceInv, L
  <2>7. \A i \in 1..(L + 1) : /\ taskQ'[i] \notin finished
                              /\ \A w \in Slots : taskQ'[i] # task[w]
                              /\ \A d \in Callers : taskQ'[i] # carg'[d]
    <3> SUFFICES ASSUME NEW i \in 1..(L + 1)
                 PROVE  /\ taskQ'[i] \notin finished
                        /\ \A w \in Slots : taskQ'[i] # task[w]
                        /\ \A d \in Callers : taskQ'[i] # carg'[d]
      OBVIOUS
    <3>1. taskQ'[i] # NoTask
      BY <1>p, <2>1, <2>2, <2>4
    <3>2. CASE i \in 1..L
      BY <2>2, <2>3, <3>1, <3>2 DEF OnceInv, L
    <3>3. CASE i = L + 1
      BY <2>1, <2>2, <2>3, <3>1, <3>3 DEF OnceInv
    <3> QED
      BY <2>4, <3>2, <3>3
  <2>8. \A d \in Callers : carg'[d] # NoTask =>
           carg'[d] \notin finished /\ \A e \in Callers : carg'[e] = carg'[d] => e = d
    BY <2>3 DEF OnceInv
  <2>9. \A w \in Slots : task[w] # NoTask =>
           /\ task[w] \notin finished
           /\ \A v \in Slots : task[v] = task[w] => v = w
           /\ \A d \in Callers : carg'[d] # task[w]
    BY <2>3 DEF OnceInv
  <2> QED
    BY <2>2, <2>3, <2>6, <2>7, <2>8, <2>9 DEF OnceInv
<1> QED
  <2>1. CASE UNCHANGED vars
    BY <1>s, <2>1 DEF vars, workers, caller
  <2>2. CASE CreateWorker \/ Manager
    BY <1>s, <2>2 DEF CreateWorker, Manager, ManagerTest, ManagerSnapshot, ManagerDecide,
       ManagerScan, ManagerScanned, ManagerShrink, ManagerSignal, workers, caller
  <2>3. ASSUME NEW w \in Slots, Worker(w) \/ SpuriousWake(w) PROVE OnceInv'
    BY <1>s, <1>1, <1>2, <2>3 DEF Worker, SpuriousWake, Lock, Wait, Wake, NotBusy, ThreadExit, caller
  <2>4. ASSUME NEW c \in Callers,
               Caller(c) \/ Destroy(c) \/ \E t \in Tasks : AddTask(c, t)
        PROVE  OnceInv'
    BY <1>s, <1>3, <1>4, <2>4 DEF Caller, Destroy, BeginPush, Notify, DestroyJoin, DestroySignal,
       DestroyFree, workers
  <2> QED
    BY <2>1, <2>2, <2>3, <2>4 DEF Next, Step, Released

\* At the start there is no task anywhere.
LEMMA PoolInvInit == Init => PoolInv
<1> SUFFICES ASSUME Init PROVE PoolInv
  OBVIOUS
<1>1. MutexInv /\ TaskInv
  BY DEF Init, MutexInv, TaskInv
<1>2. OnceInv
  BY DEF Init, OnceInv
<1> QED
  BY <1>1, <1>2, TypeInit, CountInit DEF PoolInv

\* All layers together.
LEMMA PoolInvStep == PoolInv /\ [Next]_vars => PoolInv'
  BY TypeStep, MutexStep, CountInvStep, TaskInvStep, OnceStep DEF PoolInv

\* takeTask is called only by a worker for which there is a task, whatever the
\* unprotected read of the size returned.
THEOREM TaskForEachWorker == Spec => []NoNullTask
<1>1. PoolInv => NoNullTask
  BY DEF PoolInv, TaskInv, NoNullTask
<1> QED
  BY <1>1, PoolInvInit, PoolInvStep, PTL DEF Spec

-----------------------------------------------------------------------------
(* The pool implements TaskPool *)

\* What the refinement maps to running and to closed.
Running == {task[w] : w \in Slots} \ {NoTask}
Closed == /\ shutdown
          /\ \A c \in Callers : cpc[c] \notin {"add", "push"}
          /\ \A w \in Slots : pc[w] # "take"

\* A new pool is an empty, open one.
LEMMA PromiseInit == Init => Promise!Init
  BY DEF Init, Promise!Init

\* A step that moves no task and does not change what is closed is no step of
\* the promise; one that only closes is Close.
LEMMA Stutters ==
  ASSUME UNCHANGED <<taskQ, task, finished>>, Closed' = Closed \/ Closed'
  PROVE  [Promise!Next]_(Promise!vars)
<1>1. Running' = Running
  BY DEF Running
<1>2. CASE Closed' = Closed
  BY <1>1, <1>2 DEF Promise!vars, Running, Closed
<1>3. CASE Closed'
  <2>1. Closed' = TRUE
    BY <1>3 DEF Closed
  <2> QED
    BY <1>1, <2>1 DEF Promise!Next, Promise!Close, Running, Closed
<1> QED
  BY <1>2, <1>3

\* A worker that examines the queue may take only before shutdown.
LEMMA ExamineStutters ==
  ASSUME TypeInv, NEW w \in Slots, Examine(w), pc[w] \in {"lock", "woken"},
         UNCHANGED <<taskQ, task, finished, shutdown, cpc>>
  PROVE  [Promise!Next]_(Promise!vars)
<1>1. PICK q \in {"wait", "quit", "take"} :
         pc' = [pc EXCEPT ![w] = q] /\ (q = "quit") = shutdown
  BY Examined
<1>2. pc \in [Slots -> WorkerPlaces]
  BY DEF TypeInv, TypeOK, WorkerPlaces
<1>3. Closed' = Closed
  BY <1>1, <1>2 DEF Closed
<1> QED
  BY <1>3, Stutters

\* A take starts the oldest task: it is there, and the worker has no other.
LEMMA TakeStarts ==
  ASSUME PoolInv, NEW w \in Slots, Take(w)
  PROVE  Promise!Next
<1>1. /\ taskQ # <<>> /\ task[w] = NoTask
      /\ task \in [Slots -> Tasks \union {NoTask}] /\ taskQ \in Seq(Tasks)
  BY DEF Take, PoolInv, MutexInv, TaskInv, TypeInv, TypeOK
<1>2. task' = [task EXCEPT ![w] = Head(taskQ)] /\ taskQ' = Tail(taskQ) /\ Head(taskQ) \in Tasks
  BY <1>1, Popped DEF Take, TakeTask
<1>3. Running' = Running \union {Head(taskQ)}
  <2>1. task'[w] = Head(taskQ) /\ \A v \in Slots : v # w => task'[v] = task[v]
    BY <1>1, <1>2
  <2>2. Head(taskQ) # NoTask
    BY <1>2, PoolAssumption
  <2> QED
    BY <1>1, <2>1, <2>2 DEF Running
<1>4. ~Closed /\ Closed' \in BOOLEAN /\ finished' = finished
  BY DEF Take, Closed
<1>5. Promise!Start
  BY <1>1, <1>2, <1>3, <1>4 DEF Promise!Start, Running, Closed
<1> QED
  BY <1>5 DEF Promise!Next

\* The end of a task function finishes a task that no other worker runs.
LEMMA FinishFinishes ==
  ASSUME PoolInv, NEW w \in Slots, Finish(w)
  PROVE  Promise!Next
<1> DEFINE t == task[w]
<1>1. /\ task \in [Slots -> Tasks \union {NoTask}] /\ pc \in [Slots -> WorkerPlaces]
      /\ t \in Tasks /\ t # NoTask
  BY PoolAssumption DEF Finish, PoolInv, TaskInv, TypeInv, TypeOK, WorkerPlaces
<1>2. /\ task'[w] = NoTask /\ \A v \in Slots : v # w => task'[v] = task[v]
      /\ \A v \in Slots : task[v] = t => v = w
  BY <1>1 DEF Finish, PoolInv, OnceInv
<1>3. Running' = Running \ {t} /\ t \in Running
  BY <1>1, <1>2 DEF Running
<1>4. UNCHANGED taskQ /\ finished' = finished \union {t} /\ Closed' = Closed
  BY <1>1 DEF Finish, Closed, life, caller
<1>5. PICK u \in Tasks : u = t
  BY <1>1
<1>6. Promise!Finish(u)
  BY <1>3, <1>4, <1>5 DEF Promise!Finish, Running, Closed
<1> QED
  BY <1>6 DEF Promise!Next

\* The end of a push accepts a task that is in no other place, so that there
\* never wait more than there are tasks.
LEMMA PushAccepts ==
  ASSUME PoolInv, PoolInv', NEW c \in Callers, EndPush(c)
  PROVE  Promise!Next
<1> DEFINE t == carg[c]
<1>1. /\ t \in Tasks /\ t # NoTask /\ taskQ \in Seq(Tasks)
      /\ cpc \in [Callers -> {"idle", "add", "push", "notify", "join", "signal", "returned"}]
  BY PoolAssumption DEF EndPush, PoolInv, TypeInv, TypeOK, CargInv
<1>2. /\ taskQ' = Append(taskQ, t) /\ Len(taskQ) \in Nat /\ Len(taskQ') = Len(taskQ) + 1
      /\ UNCHANGED <<task, finished>>
  BY <1>1, Pushed DEF EndPush, workers
<1>3. Len(taskQ) < Cardinality(Tasks)
  <2> DEFINE f == [i \in 1..Len(taskQ') |-> taskQ'[i]]
  <2>1. taskQ' \in Seq(Tasks) /\ \A i, j \in 1..Len(taskQ') : taskQ'[i] = taskQ'[j] => i = j
    BY DEF PoolInv, TypeInv, TypeOK, OnceInv
  <2>2. \A i \in 1..Len(taskQ') : taskQ'[i] \in Tasks
    BY <2>1, ElementOfSeq
  <2>3. f \in Injection(1..Len(taskQ'), Tasks)
    BY <2>1, <2>2 DEF Injection, IsInjective
  <2>4. Cardinality(1..Len(taskQ')) <= Cardinality(Tasks)
    BY <2>3, FS_Injection, PoolAssumption
  <2>5. Cardinality(1..Len(taskQ')) = Len(taskQ')
    BY <1>2, FS_Interval
  <2> QED
    BY <1>2, <2>4, <2>5, FS_CardinalityType, PoolAssumption
<1>4. /\ t \notin {taskQ[i] : i \in 1..Len(taskQ)} /\ t \notin finished
      /\ t \notin Running
  BY <1>1 DEF PoolInv, OnceInv, Running
<1>5. ~Closed /\ Closed' \in BOOLEAN /\ Running' = Running
  BY <1>2 DEF EndPush, Closed, Running
<1>6. PICK u \in Tasks : u = t
  BY <1>1
<1>7. Promise!Accept(u)
  BY <1>2, <1>3, <1>4, <1>5, <1>6 DEF Promise!Accept, Promise!Pending, Running, Closed
<1> QED
  BY <1>7 DEF Promise!Next

\* Each step of the pool is a step of the promise, or no step of it.
LEMMA PromiseStep == PoolInv /\ PoolInv' /\ [Next]_vars => [Promise!Next]_(Promise!vars)
<1> SUFFICES ASSUME PoolInv, PoolInv', [Next]_vars PROVE [Promise!Next]_(Promise!vars)
  OBVIOUS
<1>p. /\ pc \in [Slots -> WorkerPlaces] /\ TypeInv
      /\ cpc \in [Callers -> {"idle", "add", "push", "notify", "join", "signal", "returned"}]
  BY DEF PoolInv, TypeInv, TypeOK, WorkerPlaces
<1>g. SignalNotEmpty => \A w \in Slots : pc'[w] = "take" <=> pc[w] = "take"
  BY <1>p, Signalled
\* Steps in which nobody comes to a take or leaves one.
<1>s. ASSUME UNCHANGED <<taskQ, task, finished, shutdown, cpc>>,
             \A w \in Slots : pc'[w] = "take" <=> pc[w] = "take"
      PROVE  [Promise!Next]_(Promise!vars)
  BY <1>s, Stutters DEF Closed
<1>1. CASE CreateWorker
  <2>1. created \in Slots => pc[created] = "none"
    BY <1>1 DEF CreateWorker, PoolInv, CountInv, CreateInv, TypeInv, TypeOK
  <2> QED
    BY <1>s, <1>p, <1>1, <2>1 DEF CreateWorker, life
<1>2. CASE Manager
  BY <1>s, <1>g, <1>p, <1>2 DEF Manager, ManagerTest, ManagerSnapshot, ManagerDecide, ManagerScan,
     ManagerScanned, ManagerShrink, ManagerSignal, workers, caller, life
<1>3. ASSUME NEW w \in Slots, Worker(w) \/ SpuriousWake(w)
      PROVE  [Promise!Next]_(Promise!vars)
  <2>1. CASE Lock(w) \/ (Wake(w) /\ Resume(w))
    BY <1>p, <2>1, ExamineStutters DEF Lock, Wake, Resume, life, caller
  <2>2. CASE Wake(w) /\ Retire(w)
    BY <1>s, <1>p, <2>2 DEF Wake, Retire, life, caller
  <2>3. CASE Wait(w) \/ SpuriousWake(w) \/ NotBusy(w) \/ ThreadExit(w)
    BY <1>s, <1>p, <2>3 DEF Wait, SpuriousWake, NotBusy, ThreadExit, life, caller
  <2> QED
    BY <1>3, <2>1, <2>2, <2>3, TakeStarts, FinishFinishes DEF Worker, Wake
<1>4. ASSUME NEW c \in Callers,
             Caller(c) \/ Destroy(c) \/ \E t \in Tasks : AddTask(c, t)
      PROVE  [Promise!Next]_(Promise!vars)
  <2>1. CASE \E t \in Tasks : AddTask(c, t)
    BY <2>1, Stutters DEF AddTask, Closed, life, workers
  <2>2. CASE BeginPush(c)
    <3>1. Closed' = Closed
      BY <1>p, <2>2 DEF BeginPush, Closed, life, workers
    <3> QED
      BY <2>2, <3>1, Stutters DEF BeginPush, workers
  <2>3. CASE EndPush(c)
    BY <2>3, PushAccepts
  <2>4. CASE Notify(c) \/ DestroySignal(c)
    <3>1. Closed' = Closed
      BY <1>p, <1>g, <2>4 DEF Notify, DestroySignal, Closed, life
    <3> QED
      BY <2>4, <3>1, Stutters DEF Notify, DestroySignal
  <2>5. CASE Destroy(c)
    <3>1. Closed' = Closed \/ Closed'
      BY <2>5 DEF Destroy, Closed
    <3> QED
      BY <2>5, <3>1, Stutters DEF Destroy, workers
  <2>6. CASE DestroyJoin(c) \/ DestroyFree(c)
    <3>1. Closed' = Closed
      BY <1>p, <2>6 DEF DestroyJoin, DestroyFree, Closed, life, workers
    <3> QED
      BY <2>6, <3>1, Stutters DEF DestroyJoin, DestroyFree, workers
  <2> QED
    BY <1>4, <2>1, <2>2, <2>3, <2>4, <2>5, <2>6 DEF Caller
<1>5. CASE UNCHANGED vars
  BY <1>s, <1>5 DEF vars, life, workers, caller
<1> QED
  BY <1>1, <1>2, <1>3, <1>4, <1>5 DEF Next, Step, Released

\* The C++ pool keeps the promise of TaskPool: with two mutexes, an unprotected
\* read and any number of threads, each accepted task is started once, in the
\* order of acceptance, and none after the pool is closed.
THEOREM CppImplementsTaskPool == Spec => ImplementsTaskPool
  BY PromiseInit, PromiseStep, PoolInvInit, PoolInvStep, PTL
     DEF Spec, ImplementsTaskPool, Promise!Spec
=============================================================================
