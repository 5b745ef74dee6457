-------------------------- MODULE PoolServerProofs --------------------------
(***************************************************************************)
(* The server on the thread pool uses the pool as ThreadPool allows: its   *)
(* behaviours are behaviours of ThreadPool, so that every theorem about    *)
(* the pool is one about the server.                                       *)
(***************************************************************************)
EXTENDS PoolServer, ThreadPoolProofs

\* The server never destroys its pool, and hands it nothing but its clients.
ServerInv ==
    /\ freed = FALSE /\ shutdown = FALSE
    /\ peer \in [Clients -> {"new", "open", "left"}]
    /\ backlog \in Seq(Clients)
    /\ pinfo \in Clients \union {NoTask}
    /\ listening \in BOOLEAN

\* The server starts with a new pool and no client.
LEMMA ServerInvInit == ServerInit => ServerInv
  BY DEF ServerInit, Init, ServerInv

\* No action of the pool's threads shuts the pool down or releases it.
LEMMA PoolStaysOpen ==
  ASSUME NEW w, NEW c, NEW t,
         \/ CreateWorker \/ Manager \/ Lock(w) \/ Wait(w) \/ Wake(w) \/ SpuriousWake(w)
         \/ Start(w) \/ Finish(w) \/ ThreadExit(w)
         \/ Add(c, t) \/ AddWait(c) \/ AddWake(c) \/ SpuriousAddWake(c)
  PROVE  freed' = freed /\ shutdown' = shutdown
  BY DEF CreateWorker, Manager, ManagerTest, ManagerSnapshot, ManagerBusyNum, ManagerDecide,
     ManagerScan, ManagerScanned, ManagerShrink, ManagerSignal, Lock, Wait, Wake,
     SpuriousWake, Start, Finish, ThreadExit, Add, AddWait, AddWake, SpuriousAddWake, life

\* Each step of the server is a step of the pool or leaves it alone.
LEMMA ServerStep ==
  ServerInv /\ [ServerNext]_allVars => ServerInv' /\ [Next]_vars
<1> SUFFICES ASSUME ServerInv, [ServerNext]_allVars PROVE ServerInv' /\ [Next]_vars
  OBVIOUS
<1> USE DEF ServerInv
<1>a. mainThread \in Callers /\ acceptor \in Callers /\ acceptConn \in Tasks /\ Clients \subseteq Tasks
  BY ServerAssumption
<1>1. CASE (PoolCreate \/ PoolManager) /\ UNCHANGED server
  <2>1. freed' = freed /\ shutdown' = shutdown
    BY <1>1, PoolStaysOpen DEF PoolCreate, PoolManager
  <2> QED
    BY <1>1, <2>1 DEF PoolCreate, PoolManager, server, Next, Step
<1>2. ASSUME NEW w \in Slots,
             (PoolWorker(w) \/ SpuriousWake(w) \/ PoolExit(w)) /\ UNCHANGED server
      PROVE  ServerInv' /\ [Next]_vars
  <2>1. freed' = freed /\ shutdown' = shutdown
    BY <1>2, PoolStaysOpen DEF PoolWorker, PoolExit
  <2> QED
    BY <1>2, <2>1 DEF PoolWorker, PoolExit, server, Next, Step, Worker
<1>3. ASSUME NEW w \in Slots, Return(w) PROVE ServerInv' /\ [Next]_vars
  <2>1. freed' = freed /\ shutdown' = shutdown
    BY <1>3, PoolStaysOpen DEF Return
  <2> QED
    BY <1>3, <2>1 DEF Return, server, Next, Step, Worker
<1>4. CASE AddAcceptConn
  <2>1. freed' = freed /\ shutdown' = shutdown
    BY <1>4, PoolStaysOpen DEF AddAcceptConn
  <2> QED
    BY <1>a, <1>4, <2>1 DEF AddAcceptConn, server, Next, Step
<1>5. CASE Accept
  <2>1. Head(backlog) \in Clients /\ Tail(backlog) \in Seq(Clients)
    BY <1>5 DEF Accept
  <2> QED
    BY <1>5, <2>1 DEF Accept, vars, life
<1>6. CASE AcceptFails
  BY <1>6 DEF AcceptFails, vars, life
<1>7. CASE AddWorking
  <2>1. freed' = freed /\ shutdown' = shutdown
    BY <1>7, PoolStaysOpen DEF AddWorking
  <2>2. pinfo \in Tasks
    BY <1>a, <1>7 DEF AddWorking
  <2> QED
    BY <1>a, <1>7, <2>1, <2>2 DEF AddWorking, Next, Step
<1>8. CASE AddGoesOn
  <2>1. freed' = freed /\ shutdown' = shutdown
    BY <1>8, PoolStaysOpen DEF AddGoesOn, PoolAdd
  <2> QED
    BY <1>a, <1>8, <2>1 DEF AddGoesOn, PoolAdd, server, Next, Step, Caller
<1>9. ASSUME NEW c \in Clients, Connect(c) \/ Leave(c) PROVE ServerInv' /\ [Next]_vars
  BY <1>9 DEF Connect, Leave, vars, life
<1>10. CASE UNCHANGED allVars
  BY <1>10 DEF allVars, server, vars, life
<1> QED
  BY <1>1, <1>2, <1>3, <1>4, <1>5, <1>6, <1>7, <1>8, <1>9, <1>10 DEF ServerNext

\* The server implements the thread pool: it adds each task once, and never
\* destroys the pool.
THEOREM ServerUsesPool == ServerSpec => Spec
<1>1. ServerInit => Init
  BY DEF ServerInit
<1> QED
  BY <1>1, ServerInvInit, ServerStep, PTL DEF ServerSpec, Spec

\* The pool's fields and the server's variables keep their types.
THEOREM ServerTypeCorrect == ServerSpec => []ServerTypeOK
<1>1. ServerSpec => []ServerInv
  BY ServerInvInit, ServerStep, PTL DEF ServerSpec
<1>2. ServerSpec => []TypeOK
  BY ServerUsesPool, TypeCorrect, PTL
<1>3. ServerInv /\ TypeOK => ServerTypeOK
  BY DEF ServerInv, ServerTypeOK
<1> QED
  BY <1>1, <1>2, <1>3, PTL

-----------------------------------------------------------------------------
(* The order of the clients *)

Connected == {c \in Clients : peer[c] # "new"}

\* The client that acceptConn has accepted and not yet put into the ring.
InHand == {carg[acceptor], pinfo} \intersect Clients

\* The clients that have connected are the first ones, and those nobody serves
\* stand in a line: the ring, then the hands of acceptConn, then the backlog.
LineInv ==
    /\ \A c, d \in Clients : c < d /\ d \in Connected => c \in Connected
    /\ \A i, j \in 1..queueSize :
          i < j /\ InRing[i] \in Clients /\ InRing[j] \in Clients => InRing[i] < InRing[j]
    /\ \A i, j \in 1..Len(backlog) : i < j => backlog[i] < backlog[j]
    /\ \A c \in Queued \intersect Clients, d \in InHand \union ToSet(backlog) : c < d
    /\ \A c \in InHand, d \in ToSet(backlog) : c < d
    /\ carg[acceptor] \in Clients \union {NoTask}
    /\ pinfo = NoTask \/ carg[acceptor] = NoTask
    /\ Pending \intersect Clients \subseteq Connected
    /\ TakenInOrder

\* The clients that wait are in the ring, in the hands of acceptConn or in the
\* backlog.
LEMMA PendingClients ==
  ASSUME ServerInv
  PROVE  /\ Pending \intersect Clients
               = (Queued \intersect Clients) \union InHand \union ToSet(backlog)
         /\ ToSet(backlog) \subseteq Clients /\ ToSet(backlog) = {backlog[i] : i \in 1..Len(backlog)}
         /\ NoTask \notin Clients /\ Clients \subseteq Nat
<1>1. NoTask \notin Clients /\ Clients \subseteq Nat
  BY PoolAssumption, ServerAssumption DEF Clients
<1>2. ToSet(backlog) = {backlog[i] : i \in 1..Len(backlog)} /\ ToSet(backlog) \subseteq Clients
  BY LenProperties, ElementOfSeq DEF ServerInv, ToSet
<1> QED
  BY <1>1, <1>2 DEF Pending, InHand

\* The oldest connection leaves the backlog.
LEMMA BacklogTaken ==
  ASSUME ServerInv, backlog # <<>>
  PROVE  /\ Head(backlog) \in Clients /\ Head(backlog) = backlog[1] /\ Tail(backlog) \in Seq(Clients)
         /\ Len(backlog) \in Nat \ {0} /\ Len(Tail(backlog)) = Len(backlog) - 1
         /\ \A i \in 1..(Len(backlog) - 1) : Tail(backlog)[i] = backlog[i + 1]
         /\ ToSet(Tail(backlog)) = {backlog[i] : i \in 2..Len(backlog)}
         /\ ToSet(backlog) = {Head(backlog)} \union ToSet(Tail(backlog))
<1> DEFINE n == Len(backlog)
<1>1. /\ n \in Nat \ {0} /\ Head(backlog) = backlog[1] /\ Head(backlog) \in Clients
      /\ Tail(backlog) \in Seq(Clients) /\ Len(Tail(backlog)) = n - 1
      /\ \A i \in 1..(n - 1) : Tail(backlog)[i] = backlog[i + 1]
  BY EmptySeq, HeadTailProperties DEF ServerInv
<1>2. ToSet(Tail(backlog)) = {Tail(backlog)[i] : i \in 1..(n - 1)}
  BY <1>1, LenProperties DEF ToSet
<1>3. \A i \in 1..(n - 1) : i + 1 \in 2..n
  BY <1>1
<1>4. \A i \in 2..n : i - 1 \in 1..(n - 1) /\ (i - 1) + 1 = i
  BY <1>1
<1>5. ToSet(Tail(backlog)) = {backlog[i] : i \in 2..n}
  <2>1. ToSet(Tail(backlog)) \subseteq {backlog[i] : i \in 2..n}
    BY <1>1, <1>2, <1>3
  <2>2. \A i \in 2..n : Tail(backlog)[i - 1] = backlog[i]
    BY <1>1, <1>4
  <2>3. {backlog[i] : i \in 2..n} \subseteq ToSet(Tail(backlog))
    BY <1>2, <1>4, <2>2
  <2> QED
    BY <2>1, <2>3
<1>6. ToSet(backlog) = {backlog[1]} \union {backlog[i] : i \in 2..n}
  <2>1. 1..n = {1} \union (2..n)
    BY <1>1
  <2> QED
    BY <2>1, PendingClients
<1> QED
  BY <1>1, <1>5, <1>6

\* A new connection is behind the others.
LEMMA BacklogGrown ==
  ASSUME ServerInv, NEW c \in Clients
  PROVE  /\ Len(backlog) \in Nat /\ Len(Append(backlog, c)) = Len(backlog) + 1
         /\ \A i \in 1..Len(backlog) : Append(backlog, c)[i] = backlog[i]
         /\ Append(backlog, c)[Len(backlog) + 1] = c
         /\ ToSet(Append(backlog, c)) = ToSet(backlog) \union {c}
<1> DEFINE n == Len(backlog)
           b == Append(backlog, c)
<1>1. /\ n \in Nat /\ b \in Seq(Clients) /\ Len(b) = n + 1
      /\ \A i \in 1..n : b[i] = backlog[i]
      /\ b[n + 1] = c
  BY AppendProperties, LenProperties DEF ServerInv
<1>2. ToSet(b) = {b[i] : i \in 1..(n + 1)}
  BY <1>1, LenProperties DEF ToSet
<1>3. 1..(n + 1) = (1..n) \union {n + 1}
  BY <1>1
<1>4. ToSet(b) = {backlog[i] : i \in 1..n} \union {c}
  BY <1>1, <1>2, <1>3
<1> QED
  BY <1>1, <1>4, PendingClients

\* The tasks in the ring after a step.
LEMMA QueuedNext ==
  ASSUME NEW n \in Nat, queueSize' = n
  PROVE  Queued' = {InRing'[i] : i \in 1..n}
<1>1. ASSUME NEW k \in 0..(n - 1)
      PROVE  taskQ'[QueueCell(k)'] \in {InRing'[i] : i \in 1..n}
  <2>1. k + 1 \in 1..n /\ (k + 1) - 1 = k
    OBVIOUS
  <2> QED
    BY <2>1 DEF InRing
<1>2. ASSUME NEW i \in 1..n PROVE InRing'[i] \in Queued'
  <2>1. i - 1 \in 0..(n - 1)
    OBVIOUS
  <2> QED
    BY <2>1 DEF InRing, Queued
<1> QED
  BY <1>1, <1>2 DEF Queued

\* Whoever stays where it is keeps its place in the line.
LEMMA LineStays ==
  ASSUME LineInv, UNCHANGED <<ring, carg, pinfo, backlog>>, Connected' = Connected
  PROVE  LineInv'
<1>1. /\ InRing' = InRing /\ queueSize' = queueSize /\ Queued' = Queued /\ InHand' = InHand
      /\ backlog' = backlog /\ Pending' = Pending /\ pinfo' = pinfo /\ carg' = carg
  BY SameRing DEF ring, Queued, QueueCell, InHand, Pending
<1>2. \A c \in Clients : peer'[c] # "new" <=> peer[c] # "new"
  BY DEF Connected
<1>3. TakenInOrder'
  BY <1>1, <1>2 DEF LineInv, TakenInOrder
<1>4. Pending' \intersect Clients \subseteq Connected'
  BY <1>1 DEF LineInv
<1> QED
  BY <1>1, <1>3, <1>4 DEF LineInv

\* A worker takes the client that stands first in the line, if it takes one.
LEMMA TakeKeepsLine ==
  ASSUME ServerInv, ServerInv', PoolInv, LineInv, NEW w \in Slots, queueSize # 0, TakeTask(w),
         UNCHANGED server
  PROVE  LineInv'
<1> DEFINE n == queueSize
           first == InRing[1]
<1>1. /\ 1 \in 1..n /\ queueSize' = n - 1
      /\ \A i \in 1..(n - 1) : InRing'[i] = InRing[i + 1]
  BY TakeFromRing DEF PoolInv
<1>2. n \in Nat \ {0} /\ \A i \in 1..(n - 1) : i + 1 \in 1..n /\ 1 < i + 1
  BY <1>1, InRingType, PoolAssumption DEF PoolInv
<1>3. /\ UNCHANGED <<carg, pinfo, backlog, peer>> /\ Connected' = Connected
      /\ InHand' = InHand /\ ToSet(backlog') = ToSet(backlog)
  BY DEF TakeTask, InHand, server, Connected
<1>4. Queued = {InRing[i] : i \in 1..n}
  BY InRingType DEF PoolInv
<1>5. Queued' = {InRing[i + 1] : i \in 1..(n - 1)}
  <2>1. n - 1 \in Nat
    BY <1>2
  <2>2. Queued' = {InRing'[i] : i \in 1..(n - 1)}
    BY <1>1, <2>1, QueuedNext
  <2> QED
    BY <1>1, <2>2
<1>6. 1..n = {1} \union {i + 1 : i \in 1..(n - 1)}
  <2>1. \A i \in 2..n : i - 1 \in 1..(n - 1) /\ (i - 1) + 1 = i
    BY <1>2
  <2>2. 1..n = {1} \union (2..n)
    BY <1>2
  <2> QED
    BY <1>2, <2>1, <2>2
<1>7. Queued = {first} \union Queued'
  BY <1>4, <1>5, <1>6
<1>8. first \in Clients => \A c \in Queued' \intersect Clients : first < c
  BY <1>1, <1>2, <1>5 DEF LineInv
<1>9. first \in Clients => \A c \in InHand \union ToSet(backlog) : first < c
  BY <1>7 DEF LineInv
<1>10. /\ Pending \intersect Clients
            = (Queued \intersect Clients) \union InHand \union ToSet(backlog)
       /\ Clients \subseteq Nat /\ ToSet(backlog) \subseteq Clients /\ NoTask \notin Clients
  BY PendingClients
<1>11. Pending' \intersect Clients
          = (Queued' \intersect Clients) \union InHand \union ToSet(backlog)
  BY <1>3, <1>10 DEF Pending, InHand
<1>12. Pending \intersect Clients \subseteq {first} \union Pending'
  BY <1>7, <1>10, <1>11
<1>13. first \in Clients => \A c \in Pending' \intersect Clients : first < c
  BY <1>8, <1>9, <1>11
<1>14. TakenInOrder'
  <2> SUFFICES ASSUME NEW c \in Clients, NEW d \in Clients,
                      c < d, peer'[d] # "new", c \in Pending'
               PROVE  d \in Pending'
    BY DEF TakenInOrder
  <2>1. c \in Pending
    BY <1>7, <1>10, <1>11
  <2>2. d \in Pending
    BY <1>3, <2>1 DEF LineInv, TakenInOrder
  <2>3. d # first
    BY <1>10, <1>13
  <2> QED
    BY <1>12, <2>2, <2>3
<1>15. \A i, j \in 1..(n - 1) :
          i < j /\ InRing'[i] \in Clients /\ InRing'[j] \in Clients => InRing'[i] < InRing'[j]
  BY <1>1, <1>2 DEF LineInv
<1>16. \A c \in Queued' \intersect Clients, d \in InHand \union ToSet(backlog) : c < d
  BY <1>7 DEF LineInv
<1>17. Pending' \intersect Clients \subseteq Connected
  BY <1>7, <1>10, <1>11 DEF LineInv
<1> QED
  BY <1>1, <1>3, <1>14, <1>15, <1>16, <1>17 DEF LineInv

\* A step that leaves the same clients waiting serves nobody.
LEMMA SamePending ==
  ASSUME LineInv, peer' = peer, Pending' \intersect Clients = Pending \intersect Clients
  PROVE  TakenInOrder' /\ Pending' \intersect Clients \subseteq Connected'
<1>1. TakenInOrder'
  BY DEF LineInv, TakenInOrder
<1>2. Connected' = Connected
  BY DEF Connected
<1> QED
  BY <1>1, <1>2 DEF LineInv

\* threadPoolAdd, called by acceptConn, keeps the client in hand or puts it at
\* the end of the ring, behind those that came before it.
LEMMA AddKeepsLine ==
  ASSUME ServerInv, PoolInv, LineInv, NEW t \in Clients, InHand = {t}, TryAdd(acceptor, t),
         pinfo' = NoTask, UNCHANGED <<peer, backlog>>
  PROVE  LineInv'
<1> DEFINE n == queueSize
<1>p. /\ n \in 0..queueCapacity /\ n \in Nat /\ Queued = {InRing[i] : i \in 1..n}
      /\ carg \in [Callers -> Tasks \union {NoTask}] /\ acceptor \in Callers
      /\ NoTask \notin Clients /\ t \in Tasks /\ ToSet(backlog) \subseteq Clients
  BY InRingType, PoolAssumption, ServerAssumption, PendingClients
     DEF PoolInv, TypeInv, TypeOK
<1>o. Pending \intersect Clients = (Queued \intersect Clients) \union {t} \union ToSet(backlog)
  BY PendingClients
<1>c. Connected' = Connected /\ shutdown = FALSE /\ ToSet(backlog') = ToSet(backlog)
  BY DEF Connected, ServerInv
<1>1. CASE UNCHANGED ring /\ carg' = [carg EXCEPT ![acceptor] = t]
  <2>1. InRing' = InRing /\ queueSize' = n /\ Queued' = Queued
    BY <1>1, SameRing DEF ring, Queued, QueueCell
  <2>2. carg'[acceptor] = t /\ InHand' = {t}
    BY <1>1, <1>p DEF InHand
  <2>3. Pending' \intersect Clients = Pending \intersect Clients
    BY <1>c, <1>o, <1>p, <2>1, <2>2 DEF Pending
  <2> QED
    BY <1>c, <2>1, <2>2, <2>3, SamePending DEF LineInv
<1>2. CASE /\ n # queueCapacity
           /\ taskQ' = [taskQ EXCEPT ![queueRear] = t]
           /\ queueSize' = n + 1 /\ queueFront' = queueFront
           /\ carg' = [carg EXCEPT ![acceptor] = NoTask]
  <2>1. InRing'[n + 1] = t /\ \A i \in 1..n : InRing'[i] = InRing[i]
    BY <1>2, <1>p, PushIntoRing DEF PoolInv
  <2>2. 1..(n + 1) = (1..n) \union {n + 1}
    BY <1>p
  <2>3. Queued' = Queued \union {t}
    <3>1. Queued' = {InRing'[i] : i \in 1..(n + 1)}
      BY <1>2, <1>p, QueuedNext
    <3> QED
      BY <1>p, <2>1, <2>2, <3>1
  <2>4. carg'[acceptor] = NoTask /\ InHand' = {}
    BY <1>2, <1>p DEF InHand
  <2>5. Pending' \intersect Clients = Pending \intersect Clients
    BY <1>c, <1>o, <1>p, <2>3, <2>4 DEF Pending
  <2>6. \A i, j \in 1..(n + 1) :
           i < j /\ InRing'[i] \in Clients /\ InRing'[j] \in Clients => InRing'[i] < InRing'[j]
    <3> SUFFICES ASSUME NEW i \in 1..(n + 1), NEW j \in 1..(n + 1), i < j,
                        InRing'[i] \in Clients, InRing'[j] \in Clients
                 PROVE  InRing'[i] < InRing'[j]
      OBVIOUS
    <3>1. i \in 1..n
      BY <1>p
    <3>2. CASE j \in 1..n
      BY <2>1, <3>1, <3>2 DEF LineInv
    <3>3. CASE j = n + 1
      <4>1. InRing[i] \in Queued \intersect Clients /\ t \in InHand
        BY <1>p, <2>1, <3>1
      <4> QED
        BY <2>1, <3>1, <3>3, <4>1 DEF LineInv
    <3> QED
      BY <2>2, <3>2, <3>3
  <2>7. \A c \in Queued' \intersect Clients, d \in ToSet(backlog) : c < d
    BY <2>3 DEF LineInv
  <2> QED
    BY <1>2, <1>c, <2>4, <2>5, <2>6, <2>7, SamePending DEF LineInv
<1> QED
  BY <1>1, <1>2, <1>c DEF TryAdd

\* The task acceptConn is no client and has no place in the line.
LEMMA AddAcceptConnKeepsLine ==
  ASSUME ServerInv, PoolInv, LineInv, TryAdd(mainThread, acceptConn), UNCHANGED server
  PROVE  LineInv'
<1> DEFINE n == queueSize
<1>p. /\ n \in 0..queueCapacity /\ n \in Nat /\ Queued = {InRing[i] : i \in 1..n}
      /\ carg \in [Callers -> Tasks \union {NoTask}]
      /\ acceptor \in Callers /\ mainThread # acceptor
      /\ acceptConn \in Tasks /\ acceptConn \notin Clients /\ ToSet(backlog) \subseteq Clients
  BY InRingType, PoolAssumption, ServerAssumption, PendingClients
     DEF PoolInv, TypeInv, TypeOK
<1>c. /\ Connected' = Connected /\ shutdown = FALSE /\ ToSet(backlog') = ToSet(backlog)
      /\ UNCHANGED <<peer, backlog, pinfo>>
  BY DEF Connected, ServerInv, server
<1>h. carg'[acceptor] = carg[acceptor] /\ InHand' = InHand
  BY <1>p, <1>c DEF TryAdd, InHand
<1>1. CASE UNCHANGED ring
  <2>1. InRing' = InRing /\ queueSize' = n /\ Queued' = Queued
    BY <1>1, SameRing DEF ring, Queued, QueueCell
  <2>2. Pending' \intersect Clients = Pending \intersect Clients
    BY <1>c, <1>h, <2>1 DEF Pending
  <2> QED
    BY <1>c, <1>h, <2>1, <2>2, SamePending DEF LineInv
<1>2. CASE /\ n # queueCapacity
           /\ taskQ' = [taskQ EXCEPT ![queueRear] = acceptConn]
           /\ queueSize' = n + 1 /\ queueFront' = queueFront
  <2>1. InRing'[n + 1] = acceptConn /\ \A i \in 1..n : InRing'[i] = InRing[i]
    BY <1>2, <1>p, PushIntoRing DEF PoolInv
  <2>2. 1..(n + 1) = (1..n) \union {n + 1}
    BY <1>p
  <2>3. Queued' = Queued \union {acceptConn}
    <3>1. Queued' = {InRing'[i] : i \in 1..(n + 1)}
      BY <1>2, <1>p, QueuedNext
    <3> QED
      BY <1>p, <2>1, <2>2, <3>1
  <2>4. Queued' \intersect Clients = Queued \intersect Clients
    BY <1>p, <2>3
  <2>5. Pending' \intersect Clients = Pending \intersect Clients
    BY <1>c, <1>h, <2>4 DEF Pending
  <2>6. \A i, j \in 1..(n + 1) :
           i < j /\ InRing'[i] \in Clients /\ InRing'[j] \in Clients => InRing'[i] < InRing'[j]
    BY <1>p, <2>1, <2>2 DEF LineInv
  <2> QED
    BY <1>2, <1>c, <1>h, <2>4, <2>5, <2>6, SamePending DEF LineInv
<1> QED
  BY <1>1, <1>2, <1>c DEF TryAdd

\* accept moves the oldest connection from the backlog into the hands of
\* acceptConn, which are empty.
LEMMA AcceptKeepsLine ==
  ASSUME ServerInv, PoolInv, LineInv, Accept
  PROVE  LineInv'
<1> DEFINE n == Len(backlog)
           c == Head(backlog)
<1>p. /\ pinfo = NoTask /\ carg[acceptor] = NoTask /\ NoTask \notin Clients
      /\ UNCHANGED <<ring, carg, peer>> /\ pinfo' = c /\ backlog' = Tail(backlog)
  BY ServerAssumption, PendingClients DEF Accept, PoolInv, HoldInv, vars, caller
<1>1. /\ c \in Clients /\ c = backlog[1] /\ n \in Nat \ {0} /\ Len(backlog') = n - 1
      /\ \A i \in 1..(n - 1) : backlog'[i] = backlog[i + 1]
      /\ ToSet(backlog') = {backlog[i] : i \in 2..n}
      /\ ToSet(backlog) = {c} \union ToSet(backlog')
  BY <1>p, BacklogTaken DEF Accept
<1>2. InHand = {} /\ InHand' = {c} /\ carg'[acceptor] = NoTask
  BY <1>p, <1>1 DEF InHand
<1>3. InRing' = InRing /\ queueSize' = queueSize /\ Queued' = Queued
  BY <1>p, SameRing DEF ring, Queued, QueueCell
<1>4. Pending' \intersect Clients = Pending \intersect Clients
  BY <1>p, <1>1, <1>3 DEF Pending
<1>5. \A i, j \in 1..(n - 1) : i < j => backlog'[i] < backlog'[j]
  <2>1. \A i \in 1..(n - 1) : i + 1 \in 1..n
    BY <1>1
  <2> QED
    BY <1>1, <2>1 DEF LineInv
<1>6. \A d \in ToSet(backlog') : c < d
  <2>1. \A i \in 2..n : i \in 1..n /\ 1 \in 1..n /\ 1 < i
    BY <1>1
  <2> QED
    BY <1>1, <2>1 DEF LineInv
<1>7. \A b \in Queued \intersect Clients, d \in {c} \union ToSet(backlog') : b < d
  BY <1>1 DEF LineInv
<1>8. Connected' = Connected
  BY <1>p DEF Connected
<1> QED
  BY <1>1, <1>2, <1>3, <1>4, <1>5, <1>6, <1>7, <1>8, <1>p, SamePending DEF LineInv

\* A new client is greater than those before it and goes to the end.
LEMMA ConnectKeepsLine ==
  ASSUME ServerInv, PoolInv, LineInv, NEW c \in Clients, Connect(c)
  PROVE  LineInv'
<1> DEFINE n == Len(backlog)
<1>p. /\ UNCHANGED <<ring, carg, pinfo>> /\ peer' = [peer EXCEPT ![c] = "open"]
      /\ backlog' = Append(backlog, c) /\ peer[c] = "new" /\ Clients \subseteq Nat
      /\ peer \in [Clients -> {"new", "open", "left"}]
  BY PendingClients DEF Connect, ServerInv, vars, caller
<1>1. /\ n \in Nat /\ Len(backlog') = n + 1
      /\ \A i \in 1..n : backlog'[i] = backlog[i]
      /\ backlog'[n + 1] = c
      /\ ToSet(backlog') = ToSet(backlog) \union {c}
  BY <1>p, BacklogGrown
<1>2. /\ InRing' = InRing /\ queueSize' = queueSize /\ Queued' = Queued
      /\ InHand' = InHand /\ carg' = carg
  BY <1>p, SameRing DEF ring, Queued, QueueCell, InHand
<1>3. c \notin Connected /\ Connected' = Connected \union {c}
  BY <1>p DEF Connected
<1>4. \A b \in Clients : b < c => b \in Connected
  BY <1>p DEF Connect, Connected, Clients
<1>5. \A b \in Connected : b < c
  <2>1. \A b \in Clients : b < c \/ b = c \/ c < b
    BY <1>p
  <2> QED
    BY <1>3, <2>1 DEF LineInv, Connected
<1>6. /\ Pending \intersect Clients
           = (Queued \intersect Clients) \union InHand \union ToSet(backlog)
      /\ ToSet(backlog) = {backlog[i] : i \in 1..n} /\ ToSet(backlog) \subseteq Clients
  BY PendingClients
<1>7. Pending' = Pending \union {c}
  BY <1>p, <1>1, <1>2 DEF Pending
<1>8. \A b \in Pending \intersect Clients : b < c
  BY <1>5 DEF LineInv
<1>9. TakenInOrder'
  <2> SUFFICES ASSUME NEW a \in Clients, NEW d \in Clients,
                      a < d, peer'[d] # "new", a \in Pending'
               PROVE  d \in Pending'
    BY DEF TakenInOrder
  <2>1. CASE d = c
    BY <1>7, <2>1
  <2>2. CASE d # c
    <3>1. d \in Connected /\ peer[d] # "new"
      BY <1>p, <2>2 DEF Connected
    <3>2. a # c
      BY <1>p, <1>5, <3>1
    <3> QED
      BY <1>7, <3>1, <3>2 DEF LineInv, TakenInOrder
  <2> QED
    BY <2>1, <2>2
<1>10. \A a, d \in Clients : a < d /\ d \in Connected' => a \in Connected'
  BY <1>3, <1>4 DEF LineInv
<1>11. \A i, j \in 1..(n + 1) : i < j => backlog'[i] < backlog'[j]
  <2> SUFFICES ASSUME NEW i \in 1..(n + 1), NEW j \in 1..(n + 1), i < j
               PROVE  backlog'[i] < backlog'[j]
    OBVIOUS
  <2>1. i \in 1..n /\ (j \in 1..n \/ j = n + 1)
    BY <1>1
  <2>2. CASE j \in 1..n
    BY <1>1, <2>1, <2>2 DEF LineInv
  <2>3. CASE j = n + 1
    <3>1. backlog[i] \in Pending \intersect Clients
      BY <1>6, <2>1
    <3> QED
      BY <1>1, <1>8, <2>1, <2>3, <3>1
  <2> QED
    BY <2>1, <2>2, <2>3
<1>12. \A a \in Queued \intersect Clients, d \in InHand \union ToSet(backlog') : a < d
  BY <1>1, <1>6, <1>8 DEF LineInv
<1>13. \A a \in InHand, d \in ToSet(backlog') : a < d
  BY <1>1, <1>6, <1>8 DEF LineInv
<1>14. Pending' \intersect Clients \subseteq Connected'
  BY <1>3, <1>7 DEF LineInv
<1> QED
  BY <1>1, <1>2, <1>9, <1>10, <1>11, <1>12, <1>13, <1>14, <1>p DEF LineInv

\* Each step of the server keeps the line.
LEMMA LineStep ==
  ServerInv /\ PoolInv /\ LineInv /\ [ServerNext]_allVars => LineInv'
<1> SUFFICES ASSUME ServerInv, PoolInv, LineInv, [ServerNext]_allVars PROVE LineInv'
  OBVIOUS
<1>s. UNCHANGED <<ring, carg, server>> => LineInv'
  BY LineStays DEF server, Connected
<1>a. mainThread \in Callers /\ acceptor \in Callers /\ acceptConn \in Tasks
      /\ acceptConn \notin Clients /\ Tasks = Clients \union {acceptConn} /\ NoTask \notin Tasks
  BY ServerAssumption, PoolAssumption
<1>n. ServerInv'
  BY ServerStep
<1>1. CASE (PoolCreate \/ PoolManager) /\ UNCHANGED server
  BY <1>s, <1>1 DEF PoolCreate, PoolManager, CreateWorker, Manager, ManagerTest,
     ManagerSnapshot, ManagerBusyNum, ManagerDecide, ManagerScan, ManagerScanned,
     ManagerShrink, ManagerSignal, caller
<1>2. ASSUME NEW w \in Slots,
             (PoolWorker(w) \/ SpuriousWake(w) \/ PoolExit(w)) /\ UNCHANGED server
      PROVE  LineInv'
  <2>1. CASE Lock(w) \/ (Wake(w) /\ Resume(w))
    <3>1. Examine(w)
      BY <2>1 DEF Lock, Wake, Resume
    <3> QED
      BY <1>s, <1>n, <1>2, <3>1, TakeKeepsLine DEF Examine
  <2>2. CASE \/ Wait(w) \/ (Wake(w) /\ Retire(w)) \/ Start(w)
             \/ SpuriousWake(w) \/ ThreadExit(w)
    BY <1>s, <1>2, <2>2 DEF Wait, Wake, Retire, Start, SpuriousWake, ThreadExit, caller
  <2> QED
    BY <1>2, <2>1, <2>2 DEF PoolWorker, PoolExit, Wake
<1>3. ASSUME NEW w \in Slots, Return(w) PROVE LineInv'
  BY <1>s, <1>3 DEF Return, Finish, caller
<1>4. CASE AddAcceptConn
  BY <1>4, AddAcceptConnKeepsLine DEF AddAcceptConn, Add
<1>5. CASE Accept
  BY <1>5, AcceptKeepsLine
<1>6. CASE AcceptFails
  BY <1>6, LineStays DEF AcceptFails, vars, caller, Connected
<1>7. CASE AddWorking
  <2>1. /\ pinfo \in Clients /\ carg[acceptor] = NoTask
        /\ TryAdd(acceptor, pinfo) /\ pinfo' = NoTask /\ UNCHANGED <<peer, backlog>>
    BY <1>a, <1>7 DEF AddWorking, Add, ServerInv, PoolInv, HoldInv
  <2>2. InHand = {pinfo}
    BY <1>a, <2>1 DEF InHand
  <2> QED
    BY <2>1, <2>2, AddKeepsLine
<1>8. CASE AddGoesOn
  <2>1. CASE AddWait(acceptor) \/ SpuriousAddWake(acceptor)
    BY <1>s, <1>8, <2>1 DEF AddGoesOn, AddWait, SpuriousAddWake
  <2>2. CASE AddWake(acceptor)
    <3>1. carg[acceptor] \in Clients /\ pinfo = NoTask
      BY <1>a, <2>2 DEF AddWake, PoolInv, TypeInv, CargInv, LineInv
    <3>2. InHand = {carg[acceptor]}
      BY <1>a, <3>1 DEF InHand
    <3> QED
      BY <1>8, <2>2, <3>1, <3>2, AddKeepsLine DEF AddGoesOn, AddWake, server
  <2> QED
    BY <1>8, <2>1, <2>2 DEF AddGoesOn, PoolAdd
<1>9. ASSUME NEW c \in Clients, Connect(c) PROVE LineInv'
  BY <1>9, ConnectKeepsLine
<1>10. ASSUME NEW c \in Clients, Leave(c) PROVE LineInv'
  <2>1. Connected' = Connected
    BY <1>10 DEF Leave, Connected, ServerInv
  <2> QED
    BY <1>10, <2>1, LineStays DEF Leave, vars, caller
<1>11. CASE UNCHANGED allVars
  BY <1>s, <1>11 DEF allVars, vars, caller
<1> QED
  BY <1>1, <1>2, <1>3, <1>4, <1>5, <1>6, <1>7, <1>8, <1>9, <1>10, <1>11 DEF ServerNext

\* The server takes its clients in the order they connected, for any number of
\* clients and workers and any length of the ring, although each goes through
\* the backlog, a variable, a call that blocks, and the ring.
THEOREM OrderOfClients == ServerSpec => []TakenInOrder
<1>1. ServerSpec => []PoolInv
  <2>1. Spec => []PoolInv
    BY PoolInvInit, PoolInvStep, PTL DEF Spec
  <2> QED
    BY <2>1, ServerUsesPool, PTL
<1>2. ServerInit => LineInv
  <2> SUFFICES ASSUME ServerInit PROVE LineInv
    OBVIOUS
  <2>1. /\ Queued = {} /\ queueSize = 0 /\ backlog = <<>> /\ pinfo = NoTask
        /\ carg[acceptor] = NoTask /\ NoTask \notin Clients /\ Connected = {}
    BY PoolAssumption, ServerAssumption DEF ServerInit, Init, Queued, Connected
  <2>2. ToSet(backlog) = {} /\ InHand = {} /\ Pending = {}
    BY <2>1 DEF ToSet, InHand, Pending
  <2> QED
    BY <2>1, <2>2 DEF LineInv, TakenInOrder
<1>3. ServerSpec => []LineInv
  BY <1>1, <1>2, ServerInvInit, ServerStep, LineStep, PTL DEF ServerSpec
<1>4. LineInv => TakenInOrder
  BY DEF LineInv
<1> QED
  BY <1>3, <1>4, PTL

-----------------------------------------------------------------------------
(* The acceptor that blocks in its own pool *)

\* What the pool has been given and has not refused.
Known == Queued \union Running \union finished

\* The pool forgets no task.
LEMMA KnownGrows == PoolInv /\ [Next]_vars => Known \subseteq Known'
<1> SUFFICES ASSUME PoolInv, [Next]_vars PROVE Known \subseteq Known'
  OBVIOUS
<1> DEFINE Tasked(q) == {q[i] : i \in 1..Len(q)}
<1>1. /\ InRing \in Seq(Tasks) /\ Len(InRing) = queueSize
      /\ Queued = Tasked(InRing)
  BY InRingType DEF PoolInv
<1>2. PoolInv'
  BY PoolInvStep
<1>3. queueSize' \in Nat
  BY <1>2, PoolAssumption DEF PoolInv, TypeInv, TypeOK
<1>4. Queued' = {InRing'[i] : i \in 1..queueSize'}
  BY <1>3, QueuedNext
<1>5. InRing' \in Seq(Tasks) => Queued' = Tasked(InRing')
  <2> SUFFICES ASSUME InRing' \in Seq(Tasks) PROVE queueSize' = Len(InRing')
    BY <1>4
  <2>1. DOMAIN InRing' = 1..queueSize'
    BY DEF InRing
  <2>2. Len(InRing') \in Nat /\ DOMAIN InRing' = 1..Len(InRing')
    OBVIOUS
  <2> QED
    BY <1>3, <2>1, <2>2
<1>6. [Promise!Next]_(Promise!vars)
  BY PromiseStep
<1>7. ASSUME NEW t \in Tasks, Promise!Accept(t) PROVE Known \subseteq Known'
  <2>1. InRing' = Append(InRing, t) /\ Running' = Running /\ finished' = finished
    BY <1>7 DEF Promise!Accept, InRing, Running
  <2>2. InRing' \in Seq(Tasks) /\ Tasked(InRing) \subseteq Tasked(InRing')
    BY <1>1, <2>1
  <2> QED
    BY <1>1, <1>5, <2>1, <2>2 DEF Known
<1>8. CASE Promise!Start
  <2>1. InRing # <<>> /\ InRing' = Tail(InRing) /\ finished' = finished
        /\ Running' = Running \union {Head(InRing)}
    BY <1>8 DEF Promise!Start, InRing, Running
  <2>2. /\ InRing' \in Seq(Tasks) /\ Len(InRing') = Len(InRing) - 1
        /\ \A i \in 1..(Len(InRing) - 1) : InRing'[i] = InRing[i + 1]
        /\ Head(InRing) = InRing[1] /\ Len(InRing) \in Nat
    BY <1>1, <2>1
  <2>3. ASSUME NEW i \in 1..Len(InRing)
        PROVE  InRing[i] \in Tasked(InRing') \union {Head(InRing)}
    <3>1. i = 1 \/ (i - 1 \in 1..(Len(InRing) - 1) /\ (i - 1) + 1 = i)
      BY <2>2
    <3> QED
      BY <2>2, <3>1
  <2> QED
    BY <1>1, <1>5, <2>1, <2>2, <2>3 DEF Known
<1>9. ASSUME NEW t \in Tasks, Promise!Finish(t) PROVE Known \subseteq Known'
  <2>1. InRing' = InRing /\ Running' = Running \ {t} /\ finished' = finished \union {t}
    BY <1>9 DEF Promise!Finish, InRing, Running
  <2> QED
    BY <1>1, <1>5, <2>1 DEF Known
<1>10. CASE Promise!Close \/ UNCHANGED Promise!vars
  <2>1. InRing' = InRing /\ Running' = Running /\ finished' = finished
    BY <1>10 DEF Promise!Close, Promise!vars, InRing, Running
  <2> QED
    BY <1>1, <1>5, <2>1 DEF Known
<1> QED
  BY <1>6, <1>7, <1>8, <1>9, <1>10 DEF Promise!Next

\* What acceptConn is, and whom the pool knows.
LEMMA AcceptorFacts ==
  ASSUME PoolInv
  PROVE  /\ mainThread \in Callers /\ acceptor \in Callers /\ mainThread # acceptor
         /\ acceptConn \in Tasks /\ acceptConn # NoTask
         /\ Accepting => acceptConn \in Known
         /\ Fresh(acceptConn) => acceptConn \notin Known
         /\ queueCapacity \in Nat \ {0}
<1>1. acceptConn \in Tasks /\ acceptConn # NoTask
  BY ServerAssumption, PoolAssumption
<1>2. Accepting => acceptConn \in Known
  BY <1>1 DEF Accepting, Known, Running
<1>3. Fresh(acceptConn) => acceptConn \notin Known
  BY DEF Fresh, Known, Running
<1> QED
  BY <1>1, <1>2, <1>3, ServerAssumption, PoolAssumption

\* main hands acceptConn to a pool that is still empty, so that it does not
\* block; and while acceptConn has a client in its hands, or is inside
\* threadPoolAdd, a worker executes it.
AcceptorInv ==
    /\ cpc[mainThread] = "idle"
    /\ acceptConn \notin Known => queueSize = 0
    /\ (pinfo # NoTask \/ cpc[acceptor] # "idle") => (listening /\ Accepting)

\* The pool's own threads leave the acceptor in acceptConn, and main outside.
LEMMA AcceptorStays ==
  ASSUME PoolInv, AcceptorInv, Known \subseteq Known', UNCHANGED server,
         queueSize' = queueSize \/ queueSize # 0,
         cpc'[mainThread] = "idle", cpc'[acceptor] = "idle" <=> cpc[acceptor] = "idle",
         \A w \in Slots : pc[w] = "running" => pc'[w] = "running" /\ task'[w] = task[w]
  PROVE  AcceptorInv'
<1>1. Accepting => Accepting'
  BY DEF Accepting
<1> QED
  BY <1>1 DEF AcceptorInv, server

\* A call of threadPoolAdd on behalf of acceptConn.
LEMMA AcceptorAdds ==
  ASSUME PoolInv, AcceptorInv, Known \subseteq Known', NEW t, TryAdd(acceptor, t), Accepting,
         listening, task' = task, listening' = listening
  PROVE  AcceptorInv'
<1>1. acceptConn \in Known'
  BY AcceptorFacts
<1>2. Accepting'
  <2>1. \A w \in Slots : pc[w] = "running" => pc'[w] = "running"
    BY NotEmptySignalled DEF TryAdd, PoolInv, TypeInv, TypeOK
  <2> QED
    BY <2>1 DEF Accepting
<1>3. cpc'[mainThread] = "idle"
  BY AcceptorFacts DEF TryAdd, AcceptorInv, PoolInv, TypeInv, TypeOK
<1> QED
  BY <1>1, <1>2, <1>3 DEF AcceptorInv

\* main never blocks, and the worker inside acceptConn stays there while it has
\* something to add.
LEMMA AcceptorStep ==
  ServerInv /\ PoolInv /\ AcceptorInv /\ [ServerNext]_allVars => AcceptorInv'
<1> SUFFICES ASSUME ServerInv, PoolInv, AcceptorInv, [ServerNext]_allVars PROVE AcceptorInv'
  OBVIOUS
<1>k. Known \subseteq Known'
  BY ServerStep, KnownGrows
<1>t. /\ pc \in [Slots -> WorkerPCs] /\ task \in [Slots -> Tasks \union {NoTask}]
      /\ cpc \in [Callers -> CallerPCs] /\ shutdown = FALSE
  BY DEF PoolInv, TypeInv, TypeOK, ServerInv
<1>s. ASSUME UNCHANGED server, queueSize' = queueSize, cpc' = cpc,
             \A w \in Slots : pc[w] = "running" => pc'[w] = "running" /\ task'[w] = task[w]
      PROVE  AcceptorInv'
  BY <1>k, <1>s, AcceptorStays DEF AcceptorInv
<1>1. CASE (PoolCreate \/ PoolManager) /\ UNCHANGED server
  <2>1. CASE CreateWorker
    <3>1. \A w \in Slots : pc[w] = "running" => w # created
      <4>1. created \in Nat /\ created < minNum
        BY <2>1, PoolAssumption DEF CreateWorker, PoolInv, TypeInv, TypeOK
      <4>2. \A w \in Slots : w = created => w >= created
        BY <4>1
      <4> QED
        BY <4>1, <4>2 DEF PoolInv, CountInv, CreateInv
    <3> QED
      BY <1>1, <1>s, <1>t, <2>1, <3>1 DEF CreateWorker, ring, caller
  <2>2. CASE ManagerScan
    BY <1>1, <1>s, <1>t, <2>2 DEF ManagerScan, ring, caller
  <2>3. CASE ManagerSignal
    <3>1. \A w \in Slots : pc[w] = "running" => pc'[w] = "running"
      BY <1>t, <2>3, NotEmptySignalled DEF ManagerSignal
    <3> QED
      BY <1>1, <1>s, <2>3, <3>1 DEF ManagerSignal, ring, caller
  <2>4. CASE \/ ManagerTest \/ ManagerSnapshot \/ ManagerBusyNum \/ ManagerDecide
             \/ ManagerScanned \/ ManagerShrink
    BY <1>1, <1>s, <2>4 DEF ManagerTest, ManagerSnapshot, ManagerBusyNum, ManagerDecide,
       ManagerScanned, ManagerShrink, ring, workers, caller
  <2> QED
    BY <1>1, <2>1, <2>2, <2>3, <2>4 DEF PoolCreate, PoolManager, Manager
<1>2. ASSUME NEW w \in Slots,
             (PoolWorker(w) \/ SpuriousWake(w) \/ PoolExit(w)) /\ UNCHANGED server
      PROVE  AcceptorInv'
  <2>1. CASE (Lock(w) \/ Wake(w)) /\ queueSize # 0 /\ TakeTask(w)
    <3>1. \A v \in Slots : pc[v] = "running" => pc'[v] = "running" /\ task'[v] = task[v]
      BY <1>t, <2>1 DEF Lock, Wake, TakeTask
    <3>2. /\ cpc'[mainThread] = "idle"
          /\ cpc'[acceptor] = "idle" <=> cpc[acceptor] = "idle"
      BY <1>t, <2>1, NotFullSignalled, AcceptorFacts DEF TakeTask, AcceptorInv
    <3> QED
      BY <1>2, <1>k, <2>1, <3>1, <3>2, AcceptorStays
  <2>2. CASE (Lock(w) \/ Wake(w)) /\ ~ (queueSize # 0 /\ TakeTask(w))
    <3>1. UNCHANGED <<queueSize, cpc>>
      BY <1>t, <2>2 DEF Lock, Wake, Retire, Resume, Examine, ring
    <3>2. \A v \in Slots : pc[v] = "running" => pc'[v] = "running" /\ task'[v] = task[v]
      BY <1>t, <2>2 DEF Lock, Wake, Retire, Resume, Examine
    <3> QED
      BY <1>2, <1>s, <3>1, <3>2
  <2>3. CASE Wait(w) \/ Start(w) \/ SpuriousWake(w) \/ ThreadExit(w)
    BY <1>2, <1>s, <1>t, <2>3 DEF Wait, Start, SpuriousWake, ThreadExit, ring, caller
  <2> QED
    BY <1>2, <2>1, <2>2, <2>3 DEF PoolWorker, PoolExit
<1>3. ASSUME NEW w \in Slots, Return(w) PROVE AcceptorInv'
  <2>1. /\ UNCHANGED <<queueSize, cpc, pinfo, listening>>
        /\ \A v \in Slots : v # w => pc'[v] = pc[v] /\ task'[v] = task[v]
        /\ task[w] = acceptConn => ~listening
    BY <1>3, <1>t DEF Return, Finish, ring, caller, server
  <2>2. listening /\ Accepting => Accepting'
    BY <2>1 DEF Accepting
  <2> QED
    BY <1>k, <2>1, <2>2 DEF AcceptorInv
<1>4. CASE AddAcceptConn
  <2>1. queueSize = 0 /\ queueSize # queueCapacity
    BY <1>4, AcceptorFacts DEF AddAcceptConn, Add, AcceptorInv
  <2>2. /\ taskQ' = [taskQ EXCEPT ![queueRear] = acceptConn] /\ queueSize' = queueSize + 1
        /\ queueFront' = queueFront /\ SignalNotEmpty
        /\ cpc' = [cpc EXCEPT ![mainThread] = "idle"] /\ UNCHANGED <<task, server>>
    BY <1>4, <1>t, <2>1 DEF AddAcceptConn, Add, TryAdd
  <2>3. acceptConn \in Known'
    <3>1. /\ queueRear \in Cells /\ taskQ \in [Cells -> Tasks \union {NoTask}]
          /\ queueRear = QueueCell(0)
      BY <2>1 DEF PoolInv, TypeInv, TypeOK, RingInv
    <3>2. QueueCell(0)' = queueRear /\ 0 \in 0..(queueSize' - 1)
      BY <2>1, <2>2, <3>1 DEF QueueCell
    <3>3. taskQ'[QueueCell(0)'] = acceptConn
      BY <2>2, <3>1, <3>2
    <3>4. acceptConn \in Queued'
      BY <3>2, <3>3 DEF Queued, QueueCell
    <3> QED
      BY <3>4 DEF Known
  <2>4. Accepting => Accepting'
    BY <1>t, <2>2, NotEmptySignalled DEF Accepting
  <2> QED
    BY <1>t, <2>2, <2>3, <2>4, AcceptorFacts DEF AcceptorInv, server
<1>5. CASE Accept
  BY <1>5, <1>k DEF Accept, vars, ring, caller, workers, AcceptorInv, Accepting
<1>6. CASE AcceptFails
  BY <1>6, <1>k DEF AcceptFails, vars, ring, caller, workers, AcceptorInv, Accepting
<1>7. CASE AddWorking
  BY <1>7, <1>k, AcceptorAdds DEF AddWorking, Add, AcceptorInv
<1>8. CASE AddGoesOn
  <2>1. listening /\ Accepting
    BY <1>8 DEF AddGoesOn, PoolAdd, AddWait, AddWake, SpuriousAddWake, AcceptorInv
  <2>2. CASE AddWake(acceptor)
    BY <1>8, <1>k, <2>1, <2>2, AcceptorAdds DEF AddGoesOn, AddWake, server
  <2>3. CASE AddWait(acceptor) \/ SpuriousAddWake(acceptor)
    <3>1. /\ UNCHANGED <<queueSize, pc, task, server>> /\ cpc'[mainThread] = cpc[mainThread]
      BY <1>8, <1>t, <2>3, AcceptorFacts DEF AddGoesOn, AddWait, SpuriousAddWake, ring, workers
    <3>2. Accepting'
      BY <2>1, <3>1 DEF Accepting
    <3> QED
      BY <1>k, <2>1, <3>1, <3>2 DEF AcceptorInv, server
  <2> QED
    BY <1>8, <2>2, <2>3 DEF AddGoesOn, PoolAdd
<1>9. ASSUME NEW c \in Clients, Connect(c) \/ Leave(c) PROVE AcceptorInv'
  BY <1>9, <1>k DEF Connect, Leave, vars, ring, caller, workers, AcceptorInv, Accepting
<1>10. CASE UNCHANGED allVars
  BY <1>10, <1>s DEF allVars, vars, ring, caller, workers
<1> QED
  BY <1>1, <1>2, <1>3, <1>4, <1>5, <1>6, <1>7, <1>8, <1>9, <1>10 DEF ServerNext

\* acceptConn, a task of the pool it adds to, sleeps only while the ring is
\* full: it is woken for the first cell that becomes free, whatever the pool's
\* other threads do.  Then a worker executes it, and main is never in its place:
\* the call with which main hands acceptConn to the pool does not block.
AcceptorSleepsOnFull ==
    /\ cpc[mainThread] = "idle"
    /\ Blocked => Accepting
    /\ cpc[acceptor] = "addWaiting" => queueSize = queueCapacity

\* The property holds for any number of workers and clients and any ring.
THEOREM AcceptorCorrect == ServerSpec => []AcceptorSleepsOnFull
<1>1. ServerSpec => []PoolInv
  <2>1. Spec => []PoolInv
    BY PoolInvInit, PoolInvStep, PTL DEF Spec
  <2> QED
    BY <2>1, ServerUsesPool, PTL
<1>2. ServerInit => AcceptorInv
  BY ServerAssumption, PoolAssumption DEF ServerInit, Init, AcceptorInv
<1>3. ServerSpec => []AcceptorInv
  BY <1>1, <1>2, ServerInvInit, ServerStep, AcceptorStep, PTL DEF ServerSpec
<1>4. ServerSpec => []ServerInv
  BY ServerInvInit, ServerStep, PTL DEF ServerSpec
<1>5. ServerSpec => []WakeupPerRoom
  BY ServerUsesPool, NoLostRoom, PTL
<1>6. PoolInv /\ ServerInv /\ AcceptorInv /\ WakeupPerRoom => AcceptorSleepsOnFull
  <2> SUFFICES ASSUME PoolInv, ServerInv, AcceptorInv, WakeupPerRoom
               PROVE  AcceptorSleepsOnFull
    OBVIOUS
  <2>1. ASSUME cpc[acceptor] = "addWaiting" PROVE queueSize = queueCapacity
    <3>1. {c \in Callers : cpc[c] = "addWoken"} = {}
      BY <2>1, ServerAssumption DEF AcceptorInv
    <3>2. Cardinality({c \in Callers : cpc[c] = "addWoken"}) = 0
      BY <3>1, FS_EmptySet
    <3>3. queueCapacity - queueSize =< 0
      BY <2>1, <3>2, ServerAssumption DEF WakeupPerRoom, ServerInv
    <3> QED
      BY <3>3, PoolAssumption DEF PoolInv, TypeInv, TypeOK
  <2> QED
    BY <2>1 DEF AcceptorSleepsOnFull, AcceptorInv, Blocked
<1> QED
  BY <1>1, <1>3, <1>4, <1>5, <1>6, PTL
=============================================================================
