--------------------------- MODULE ConnectionPool ---------------------------
(***************************************************************************)
(* The database connection pool: src/ConnectionPool/ConnectionPool.cpp,    *)
(* with the time stamp of MysqlConn.cpp and the client loop op2 of         *)
(* main.cpp.  Clients take connections from a queue and give them back, a  *)
(* producer opens new ones, a recycler closes those idle for too long.     *)
(*                                                                         *)
(* Everything the threads share is accessed under m_mutexQ, so each        *)
(* critical section is one action.  All of them wait on the one condition  *)
(* variable m_cond.  The connection the pool hands out is a shared_ptr     *)
(* whose deleter gives it back; op2 holds one at a time.                   *)
(***************************************************************************)
EXTENDS Integers, Sequences, FiniteSets

CONSTANTS Clients,      \* the threads that run op2
          Conns,        \* the MysqlConn objects; a bound on how many exist at once
          NoConn,       \* not a connection
          minSize, maxSize, maxIdleTime,   \* from dbconf.json
          Rounds        \* iterations of op2's loop

ASSUME ConnectionAssumption ==
    /\ minSize \in Nat \ {0}
    /\ maxSize \in Nat
    /\ minSize <= maxSize
    /\ maxIdleTime \in Nat
    /\ Rounds \in Nat
    /\ NoConn \notin Conns
    /\ IsFiniteSet(Clients)

VARIABLES
    connectionQ,  \* the idle connections, oldest first
    live,         \* the MysqlConn objects that exist
    aliveTime,    \* getAliveTime of each connection, up to maxIdleTime
    ppc,          \* the producer: about to test the size of the queue, or asleep
    cpc,          \* where each client is
    held,         \* the connection each client holds
    uses          \* the iterations each client has completed

pool    == <<connectionQ, live, aliveTime>>
clients == <<cpc, held, uses>>
vars    == <<pool, ppc, clients>>

-----------------------------------------------------------------------------
(* Helpers *)

\* m_cond.notify_all, for the clients; the producer's part is ppc' = "ready".
Notified(p) == [c \in DOMAIN p |-> IF p[c] = "waiting" THEN "woken" ELSE p[c]]

\* addConnection: a new object, its time stamp refreshed, goes to the rear.
\* The result of connect is ignored, so whether it is up makes no difference.
AddConnection ==
    \E n \in Conns \ live :
       /\ live' = live \union {n}
       /\ aliveTime' = [aliveTime EXCEPT ![n] = 0]
       /\ connectionQ' = Append(connectionQ, n)

\* Fault: > instead of >= minSize.
EnoughConnections_OffByOne ==
    Len(connectionQ) > minSize /\ Len(connectionQ) <= maxSize
\* The condition on which the producer sleeps.
EnoughConnections ==
    Len(connectionQ) >= minSize /\ Len(connectionQ) <= maxSize

-----------------------------------------------------------------------------
(* The constructor, up to the point where the two threads are detached: the  *)
(* file dbconf.json has been parsed and minSize connections opened.          *)

Init ==
    /\ \E s \in [1..minSize -> Conns] :
          /\ \A i, j \in 1..minSize : s[i] = s[j] => i = j
          /\ connectionQ = s
          /\ live = {s[i] : i \in 1..minSize}
    /\ aliveTime = [n \in Conns |-> 0]
    /\ ppc = "ready"
    /\ cpc = [c \in Clients |-> "idle"]
    /\ held = [c \in Clients |-> NoConn]
    /\ uses = [c \in Clients |-> 0]

-----------------------------------------------------------------------------
(* getConnection, and the deleter of what it returns *)

\* Fault: the connection is not removed from the queue.
Take_NoPop(c) ==
    /\ connectionQ # <<>>
    /\ held' = [held EXCEPT ![c] = Head(connectionQ)]
    /\ cpc' = [Notified(cpc) EXCEPT ![c] = "holding"]
    /\ ppc' = "ready"
    /\ UNCHANGED connectionQ
\* Fault: notify_all is missing.
Take_NoNotify(c) ==
    /\ connectionQ # <<>>
    /\ held' = [held EXCEPT ![c] = Head(connectionQ)]
    /\ connectionQ' = Tail(connectionQ)
    /\ cpc' = [cpc EXCEPT ![c] = "holding"]
    /\ ppc' = ppc
\* The oldest idle connection goes to the client and everybody is woken.
Take(c) ==
    /\ connectionQ # <<>>
    /\ held' = [held EXCEPT ![c] = Head(connectionQ)]
    /\ connectionQ' = Tail(connectionQ)
    /\ cpc' = [Notified(cpc) EXCEPT ![c] = "holding"]
    /\ ppc' = "ready"

\* A client enters getConnection, or returns from wait_for: it takes a
\* connection, or sleeps while there is none.
GetConnection(c) ==
    /\ \/ cpc[c] = "idle" /\ uses[c] < Rounds
       \/ cpc[c] = "woken"
    /\ \/ Take(c)
       \/ /\ connectionQ = <<>>
          /\ cpc' = [cpc EXCEPT ![c] = "waiting"]
          /\ UNCHANGED <<connectionQ, held, ppc>>
    /\ UNCHANGED <<live, aliveTime, uses>>

\* Fault: wait instead of wait_for.
Timeout_Never(c) == FALSE
\* wait_for returns after m_timeout, or spuriously; the queue is tested again
\* either way.
Timeout(c) ==
    /\ cpc[c] = "waiting"
    /\ cpc' = [cpc EXCEPT ![c] = "woken"]
    /\ UNCHANGED <<pool, ppc, held, uses>>

\* Fault: the time stamp is not refreshed.
Release_NoRefresh(c) ==
    /\ cpc[c] = "holding"
    /\ connectionQ' = Append(connectionQ, held[c])
    /\ held' = [held EXCEPT ![c] = NoConn]
    /\ cpc' = [cpc EXCEPT ![c] = "idle"]
    /\ uses' = [uses EXCEPT ![c] = uses[c] + 1]
    /\ UNCHANGED <<live, aliveTime, ppc>>
\* The last shared_ptr is gone: the connection returns to the rear of the
\* queue with a fresh time stamp.  Nobody is notified.
Release(c) ==
    /\ cpc[c] = "holding"
    /\ aliveTime' = [aliveTime EXCEPT ![held[c]] = 0]
    /\ connectionQ' = Append(connectionQ, held[c])
    /\ held' = [held EXCEPT ![c] = NoConn]
    /\ cpc' = [cpc EXCEPT ![c] = "idle"]
    /\ uses' = [uses EXCEPT ![c] = uses[c] + 1]
    /\ UNCHANGED <<live, ppc>>

-----------------------------------------------------------------------------
(* produceConnection *)

ProducerWait ==
    /\ ppc = "ready"
    /\ EnoughConnections
    /\ ppc' = "waiting"
    /\ UNCHANGED <<pool, clients>>

Produce ==
    /\ ppc = "ready"
    /\ ~EnoughConnections
    /\ AddConnection
    /\ cpc' = Notified(cpc)
    /\ UNCHANGED <<ppc, held, uses>>

SpuriousProducerWake ==
    /\ ppc = "waiting"
    /\ ppc' = "ready"
    /\ UNCHANGED <<pool, clients>>

-----------------------------------------------------------------------------
(* recycleConnection, and time *)

\* Fault: the last surplus connection is never closed.
Recyclable_OffByOne ==
    IF Len(connectionQ) < maxSize
      THEN {k \in 1..(Len(connectionQ) - minSize - 1) :
               \A i \in 1..k : aliveTime[connectionQ[i]] >= maxIdleTime}
      ELSE {}
\* How many connections the loop can close: it stops at minSize and at the
\* first that has not been idle for long enough, and does not run at all with
\* maxSize or more in the queue.
Recyclable ==
    IF Len(connectionQ) < maxSize
      THEN {k \in 1..(Len(connectionQ) - minSize) :
               \A i \in 1..k : aliveTime[connectionQ[i]] >= maxIdleTime}
      ELSE {}

\* Fault: the connections are closed and stay in the queue.
Recycle_NoPop ==
    \E k \in Recyclable :
       /\ \A m \in Recyclable : m <= k
       /\ live' = live \ {connectionQ[i] : i \in 1..k}
       /\ UNCHANGED <<connectionQ, aliveTime, ppc, clients>>
\* One pass of the recycler; a pass that closes nothing changes nothing.
Recycle ==
    \E k \in Recyclable :
       /\ \A m \in Recyclable : m <= k
       /\ live' = live \ {connectionQ[i] : i \in 1..k}
       /\ connectionQ' = SubSeq(connectionQ, k + 1, Len(connectionQ))
       /\ UNCHANGED <<aliveTime, ppc, clients>>

\* steady_clock advances for every connection; getAliveTime is compared with
\* maxIdleTime only, so larger values are not told apart.
Tick ==
    /\ \E n \in live : aliveTime[n] < maxIdleTime
    /\ aliveTime' = [n \in Conns |-> IF n \in live /\ aliveTime[n] < maxIdleTime
                                       THEN aliveTime[n] + 1 ELSE aliveTime[n]]
    /\ UNCHANGED <<connectionQ, live, ppc, clients>>

-----------------------------------------------------------------------------

Next == \/ \E c \in Clients : GetConnection(c) \/ Timeout(c) \/ Release(c)
        \/ ProducerWait \/ Produce \/ SpuriousProducerWake
        \/ Recycle
        \/ Tick

Spec == Init /\ [][Next]_vars

(***************************************************************************)
(* Fairness: every thread that can run runs again, wait_for does time out, *)
(* op2 ends each iteration, the recycler wakes up every second and time    *)
(* passes.  A client need not begin its next iteration, and no spurious    *)
(* wake-up is relied upon for the producer.                                *)
(***************************************************************************)
Fairness ==
    /\ \A c \in Clients :
          /\ WF_vars(cpc[c] = "woken" /\ GetConnection(c))
          /\ WF_vars(Timeout(c))
          /\ WF_vars(Release(c))
    /\ WF_vars(ProducerWait \/ Produce)
    /\ WF_vars(Recycle)
    /\ WF_vars(Tick)

FairSpec == Spec /\ Fairness

-----------------------------------------------------------------------------
(* Properties *)

\* Every queued or held connection is an object that has not been deleted,
\* and every variable has its type.
TypeOK ==
    /\ live \subseteq Conns
    /\ connectionQ \in Seq(live)
    /\ aliveTime \in [Conns -> 0..maxIdleTime]
    /\ ppc \in {"ready", "waiting"}
    /\ cpc \in [Clients -> {"idle", "waiting", "woken", "holding"}]
    /\ held \in [Clients -> live \union {NoConn}]
    /\ uses \in [Clients -> 0..Rounds]

Queued == {connectionQ[i] : i \in 1..Len(connectionQ)}
Holding == {c \in Clients : cpc[c] = "holding"}

\* A connection is used by one client at a time, is not in the queue while it
\* is used, and none is lost: taking, returning, opening and closing keep the
\* objects partitioned.
ExclusiveUse ==
    /\ \A i, j \in 1..Len(connectionQ) : connectionQ[i] = connectionQ[j] => i = j
    /\ \A c, d \in Holding : held[c] = held[d] => c = d
    /\ \A c \in Clients : IF c \in Holding THEN held[c] \in live \ Queued
                                           ELSE held[c] = NoConn
    /\ live = Queued \union {held[c] : c \in Holding}

\* The comment in recycleConnection: the head of the queue has been idle
\* longest, so looking at the head is enough.
HeadIdleLongest ==
    \A i, j \in 1..Len(connectionQ) :
       i < j => aliveTime[connectionQ[i]] >= aliveTime[connectionQ[j]]

\* The producer never sleeps with fewer than minSize connections in the queue:
\* every take wakes it, and the recycler, which notifies nobody, stops at
\* minSize.
ProducerAwake == Len(connectionQ) < minSize => ppc = "ready"

\* With room for every client above minSize, the pool opens at most one
\* connection for each client beyond minSize.
PoolBounded ==
    minSize + Cardinality(Clients) <= maxSize
       => Cardinality(live) <= minSize + Cardinality(Clients)

\* A client inside getConnection gets a connection, although a connection that
\* is returned wakes nobody.
GetReturns == \A c \in Clients : (cpc[c] = "waiting") ~> (cpc[c] = "holding")

\* When the clients have done their work the recycler closes the surplus: the
\* constructor's minSize connections are what remains of an idle pool.  (The
\* code keeps this only as long as fewer than maxSize are queued.)
SurplusRecycled ==
    (\A c \in Clients : uses[c] = Rounds) ~> (Len(connectionQ) = minSize)

\* The comment in produceConnection: the producer sleeps when there are many
\* connections.
ProducerSleepsWhenMany ==
    [][Produce => Len(connectionQ) < maxSize]_vars
=============================================================================
