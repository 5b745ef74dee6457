------------------------ MODULE ConnectionPoolProofs ------------------------
(***************************************************************************)
(* Proofs about the database connection pool, for every number of clients, *)
(* of connections and of iterations, and every setting of dbconf.json.     *)
(***************************************************************************)
EXTENDS ConnectionPool, FiniteSetTheorems, SequenceTheorems, TLAPS

-----------------------------------------------------------------------------
(* The queue *)

\* pop: the head leaves the queue and the others move up.
LEMMA Popped ==
  ASSUME NEW q \in Seq(Conns), q # <<>>
  PROVE  /\ Len(q) \in Nat \ {0} /\ Head(q) = q[1] /\ q[1] \in Conns
         /\ Tail(q) \in Seq(Conns) /\ Len(Tail(q)) = Len(q) - 1
         /\ \A i \in 1..(Len(q) - 1) : Tail(q)[i] = q[i + 1]
<1>1. Len(q) \in Nat \ {0} /\ Head(q) = q[1] /\ q[1] \in Conns
  BY EmptySeq, ElementOfSeq
<1>2. Tail(q) \in Seq(Conns) /\ Len(Tail(q)) = Len(q) - 1
  BY HeadTailProperties
<1>3. \A i \in 1..(Len(q) - 1) : Tail(q)[i] = q[i + 1]
  BY HeadTailProperties, <1>1, <1>2
<1> QED
  BY <1>1, <1>2, <1>3

\* push: the new connection is behind the others.
LEMMA Pushed ==
  ASSUME NEW q \in Seq(Conns), NEW n \in Conns
  PROVE  /\ Len(q) \in Nat
         /\ Append(q, n) \in Seq(Conns) /\ Len(Append(q, n)) = Len(q) + 1
         /\ \A i \in 1..Len(q) : Append(q, n)[i] = q[i]
         /\ Append(q, n)[Len(q) + 1] = n
  BY AppendProperties, LenProperties

\* Several pops of the recycler.
LEMMA PoppedMany ==
  ASSUME NEW q \in Seq(Conns), NEW k \in 1..Len(q)
  PROVE  /\ Len(q) \in Nat
         /\ SubSeq(q, k + 1, Len(q)) \in Seq(Conns)
         /\ Len(SubSeq(q, k + 1, Len(q))) = Len(q) - k
         /\ \A i \in 1..(Len(q) - k) : SubSeq(q, k + 1, Len(q))[i] = q[i + k]
<1>1. Len(q) \in Nat
  BY LenProperties
<1>2. SubSeq(q, k + 1, Len(q)) \in Seq(Conns)
  BY <1>1, SubSeqProperties, ElementOfSeq
<1>3. Len(SubSeq(q, k + 1, Len(q))) = Len(q) - k
  BY <1>1, SubSeqProperties
<1>4. \A i \in 1..(Len(q) - k) : SubSeq(q, k + 1, Len(q))[i] = q[i + k]
  BY <1>1, <1>3, SubSeqProperties
<1> QED
  BY <1>1, <1>2, <1>3, <1>4

-----------------------------------------------------------------------------
(* The invariant *)

\* TypeOK, with what it says of live connections left to UseInv.
TypeInv ==
    /\ live \subseteq Conns
    /\ connectionQ \in Seq(Conns)
    /\ aliveTime \in [Conns -> 0..maxIdleTime]
    /\ ppc \in {"ready", "waiting"}
    /\ cpc \in [Clients -> {"idle", "waiting", "woken", "holding"}]
    /\ held \in [Clients -> Conns \union {NoConn}]
    /\ uses \in [Clients -> 0..Rounds]

\* ExclusiveUse, by the cells of the queue.
UseInv ==
    /\ \A i, j \in 1..Len(connectionQ) : connectionQ[i] = connectionQ[j] => i = j
    /\ \A c, d \in Clients :
          cpc[c] = "holding" /\ cpc[d] = "holding" /\ held[c] = held[d] => c = d
    /\ \A c \in Clients : cpc[c] = "holding" => held[c] \in live
    /\ \A c \in Clients : cpc[c] # "holding" => held[c] = NoConn
    /\ \A c \in Clients, i \in 1..Len(connectionQ) : held[c] # connectionQ[i]
    /\ \A i \in 1..Len(connectionQ) : connectionQ[i] \in live
    /\ \A n \in live : \/ \E i \in 1..Len(connectionQ) : n = connectionQ[i]
                       \/ \E c \in Clients : cpc[c] = "holding" /\ n = held[c]

\* A client is inside an iteration only while it has one left.
RoundInv == \A c \in Clients : cpc[c] # "idle" => uses[c] < Rounds

Inv == TypeInv /\ UseInv /\ RoundInv /\ HeadIdleLongest /\ ProducerAwake

\* The constructor opens minSize connections.
LEMMA PoolInit == Init => Inv
<1> SUFFICES ASSUME Init PROVE Inv
  OBVIOUS
<1> USE ConnectionAssumption
<1>1. PICK s \in [1..minSize -> Conns] :
         /\ \A i, j \in 1..minSize : s[i] = s[j] => i = j
         /\ connectionQ = s
         /\ live = {s[i] : i \in 1..minSize}
  BY DEF Init
<1>2. connectionQ \in Seq(Conns) /\ Len(connectionQ) = minSize
  BY <1>1, LenProperties DEF Seq
<1>3. TypeInv
  BY <1>1, <1>2 DEF Init, TypeInv
<1>4. UseInv
  BY <1>1, <1>2 DEF Init, UseInv
<1>5. HeadIdleLongest
  BY <1>1, <1>2 DEF Init, HeadIdleLongest
<1>6. ProducerAwake
  BY <1>2 DEF Init, ProducerAwake
<1>7. RoundInv
  BY DEF Init, RoundInv
<1> QED
  BY <1>3, <1>4, <1>5, <1>6, <1>7 DEF Inv

-----------------------------------------------------------------------------
(* The steps *)

\* notify_all wakes the sleeping clients and touches no other.
LEMMA NotifiedClients ==
  ASSUME TypeInv
  PROVE  /\ Notified(cpc) \in [Clients -> {"idle", "waiting", "woken", "holding"}]
         /\ \A c \in Clients : /\ Notified(cpc)[c] = "holding" <=> cpc[c] = "holding"
                               /\ Notified(cpc)[c] = "idle" <=> cpc[c] = "idle"
  BY DEF TypeInv, Notified

\* A client gets the head of the queue, or goes to sleep.
LEMMA GetKeeps == ASSUME NEW c \in Clients PROVE Inv /\ GetConnection(c) => Inv'
<1> SUFFICES ASSUME Inv, GetConnection(c) PROVE Inv'
  OBVIOUS
<1> USE ConnectionAssumption DEF Inv
<1>1. /\ UNCHANGED <<live, aliveTime, uses>> /\ cpc[c] # "holding"
      /\ connectionQ \in Seq(Conns) /\ Len(connectionQ) \in Nat
  BY LenProperties DEF GetConnection, TypeInv
<1>2. uses[c] < Rounds
  BY DEF GetConnection, RoundInv
<1>3. CASE Take(c)
  <2>1. connectionQ # <<>> /\ connectionQ' = Tail(connectionQ)
    BY <1>3 DEF Take
  <2> DEFINE L == Len(connectionQ)
  <2>2. /\ L \in Nat \ {0} /\ Head(connectionQ) = connectionQ[1] /\ connectionQ[1] \in Conns
        /\ connectionQ' \in Seq(Conns) /\ Len(connectionQ') = L - 1
        /\ \A i \in 1..(L - 1) : connectionQ'[i] = connectionQ[i + 1]
    BY <1>1, <2>1, Popped
  <2>3. held' = [held EXCEPT ![c] = connectionQ[1]] /\ ppc' = "ready"
    BY <1>3, <2>2 DEF Take
  <2>4. /\ cpc' \in [Clients -> {"idle", "waiting", "woken", "holding"}]
        /\ cpc'[c] = "holding"
        /\ \A d \in Clients \ {c} : /\ cpc'[d] = "holding" <=> cpc[d] = "holding"
                                    /\ cpc'[d] = "idle" <=> cpc[d] = "idle"
    BY <1>3, NotifiedClients DEF Take
  <2>5. TypeInv'
    BY <1>1, <2>2, <2>3, <2>4 DEF TypeInv
  <2>6. held \in [Clients -> Conns \union {NoConn}]
    BY DEF TypeInv
  <2>7. /\ \A d \in Clients \ {c} : held'[d] = held[d]
        /\ held'[c] = connectionQ[1]
    BY <2>3, <2>6
  <2>8. UseInv'
    <3> HIDE DEF L
    <3>1. \A i \in 1..(L - 1) : i + 1 \in 1..L /\ i + 1 # 1
      BY <2>2
    <3>2. 1 \in 1..L /\ \A i \in 1..L : i = 1 \/ (i - 1 \in 1..(L - 1) /\ connectionQ'[i - 1] = connectionQ[i])
      BY <2>2
    <3>3. \A i, j \in 1..(L - 1) : connectionQ'[i] = connectionQ'[j] => i = j
      BY <2>2, <3>1 DEF UseInv, L
    <3>4. \A d, e \in Clients :
             cpc'[d] = "holding" /\ cpc'[e] = "holding" /\ held'[d] = held'[e] => d = e
      BY <2>4, <2>7, <3>2 DEF UseInv, L
    <3>5. /\ \A d \in Clients : cpc'[d] = "holding" => held'[d] \in live
          /\ \A d \in Clients : cpc'[d] # "holding" => held'[d] = NoConn
      BY <2>4, <2>7, <3>2 DEF UseInv, L
    <3>6. \A d \in Clients, i \in 1..(L - 1) : held'[d] # connectionQ'[i]
      BY <2>2, <2>7, <3>1, <3>2 DEF UseInv, L
    <3>7. \A i \in 1..(L - 1) : connectionQ'[i] \in live
      BY <2>2, <3>1 DEF UseInv, L
    <3>8. \A n \in live : \/ \E i \in 1..(L - 1) : n = connectionQ'[i]
                          \/ \E d \in Clients : cpc'[d] = "holding" /\ n = held'[d]
      <4> SUFFICES ASSUME NEW n \in live
                   PROVE  \/ \E i \in 1..(L - 1) : n = connectionQ'[i]
                          \/ \E d \in Clients : cpc'[d] = "holding" /\ n = held'[d]
        OBVIOUS
      <4>1. CASE \E i \in 1..L : n = connectionQ[i]
        BY <4>1, <3>2, <2>4, <2>7
      <4>2. CASE \E d \in Clients : cpc[d] = "holding" /\ n = held[d]
        BY <4>2, <1>1, <2>4, <2>7
      <4> QED
        BY <4>1, <4>2 DEF UseInv, L
    <3>9. Len(connectionQ') = L - 1 /\ live' = live
      BY <1>1, <2>2
    <3> QED
      BY <3>3, <3>4, <3>5, <3>6, <3>7, <3>8, <3>9 DEF UseInv
  <2>9. HeadIdleLongest'
    BY <1>1, <2>2 DEF HeadIdleLongest
  <2>10. ProducerAwake'
    BY <2>3 DEF ProducerAwake
  <2>11. RoundInv'
    BY <1>1, <1>2, <2>4 DEF RoundInv
  <2> QED
    BY <2>5, <2>8, <2>9, <2>10, <2>11
<1>4. CASE /\ connectionQ = <<>>
           /\ cpc' = [cpc EXCEPT ![c] = "waiting"]
           /\ UNCHANGED <<connectionQ, held, ppc>>
  <2>1. TypeInv'
    BY <1>1, <1>4 DEF TypeInv
  <2>2. UseInv'
    BY <1>1, <1>4 DEF UseInv, TypeInv
  <2>3. RoundInv'
    BY <1>1, <1>4, <1>2 DEF RoundInv, TypeInv
  <2> QED
    BY <1>1, <1>4, <2>1, <2>2, <2>3 DEF HeadIdleLongest, ProducerAwake
<1> QED
  BY <1>3, <1>4 DEF GetConnection

\* A connection that is given back goes behind the others with a new time stamp.
LEMMA ReleaseKeeps == ASSUME NEW c \in Clients PROVE Inv /\ Release(c) => Inv'
<1> SUFFICES ASSUME Inv, Release(c) PROVE Inv'
  OBVIOUS
<1> USE ConnectionAssumption DEF Inv
<1> DEFINE L == Len(connectionQ)
           n == held[c]
<1>1. cpc[c] = "holding" /\ n \in live /\ n \in Conns /\ UNCHANGED <<live, ppc>>
  BY DEF Release, UseInv, TypeInv
<1>2. /\ L \in Nat /\ connectionQ' \in Seq(Conns) /\ Len(connectionQ') = L + 1
      /\ \A i \in 1..L : connectionQ'[i] = connectionQ[i]
      /\ connectionQ'[L + 1] = n
  BY <1>1, Pushed DEF Release, TypeInv
<1>3. /\ aliveTime' = [aliveTime EXCEPT ![n] = 0]
      /\ held' = [held EXCEPT ![c] = NoConn]
      /\ cpc' = [cpc EXCEPT ![c] = "idle"]
  BY DEF Release
<1>4. uses' = [uses EXCEPT ![c] = uses[c] + 1] /\ uses[c] \in 0..Rounds /\ uses[c] < Rounds
  BY <1>1 DEF Release, TypeInv, RoundInv
<1>5. TypeInv'
  BY <1>1, <1>2, <1>3, <1>4 DEF TypeInv
<1>6. /\ held'[c] = NoConn /\ cpc'[c] = "idle"
      /\ \A d \in Clients \ {c} : held'[d] = held[d] /\ cpc'[d] = cpc[d]
  BY <1>3 DEF TypeInv
<1>7. \A i \in 1..L : connectionQ[i] # n
  BY DEF UseInv
<1>8. UseInv'
  <2> HIDE DEF L, n
  <2>1. \A i, j \in 1..(L + 1) : connectionQ'[i] = connectionQ'[j] => i = j
    BY <1>2, <1>7 DEF UseInv, L
  <2>2. \A d \in Clients, i \in 1..(L + 1) : held'[d] # connectionQ'[i]
    <3> SUFFICES ASSUME NEW d \in Clients, NEW i \in 1..(L + 1) PROVE held'[d] # connectionQ'[i]
      OBVIOUS
    <3>1. connectionQ'[i] \in Conns
      BY <1>2, ElementOfSeq
    <3>2. CASE d = c
      BY <3>1, <3>2, <1>6
    <3>3. CASE d # c /\ i \in 1..L
      BY <3>3, <1>2, <1>6 DEF UseInv, L
    <3>4. CASE d # c /\ i = L + 1
      BY <3>1, <3>4, <1>1, <1>2, <1>6 DEF UseInv, n
    <3> QED
      BY <3>2, <3>3, <3>4, <1>2
  <2>3. \A d, e \in Clients :
           cpc'[d] = "holding" /\ cpc'[e] = "holding" /\ held'[d] = held'[e] => d = e
    BY <1>6 DEF UseInv
  <2>4. /\ \A d \in Clients : cpc'[d] = "holding" => held'[d] \in live
        /\ \A d \in Clients : cpc'[d] # "holding" => held'[d] = NoConn
    BY <1>6 DEF UseInv
  <2>5. \A i \in 1..(L + 1) : connectionQ'[i] \in live
    BY <1>1, <1>2 DEF UseInv, L
  <2>6. \A m \in live : \/ \E i \in 1..(L + 1) : m = connectionQ'[i]
                        \/ \E d \in Clients : cpc'[d] = "holding" /\ m = held'[d]
    <3> SUFFICES ASSUME NEW m \in live
                 PROVE  \/ \E i \in 1..(L + 1) : m = connectionQ'[i]
                        \/ \E d \in Clients : cpc'[d] = "holding" /\ m = held'[d]
      OBVIOUS
    <3>1. CASE \E i \in 1..L : m = connectionQ[i]
      BY <3>1, <1>2
    <3>2. CASE m = n
      BY <3>2, <1>2
    <3>3. CASE \E d \in Clients \ {c} : cpc[d] = "holding" /\ m = held[d]
      BY <3>3, <1>6
    <3> QED
      BY <3>1, <3>2, <3>3 DEF UseInv, L, n
  <2> QED
    BY <1>1, <1>2, <2>1, <2>2, <2>3, <2>4, <2>5, <2>6 DEF UseInv
<1>9. RoundInv'
  BY <1>4, <1>6 DEF RoundInv, TypeInv
<1>10. HeadIdleLongest'
  <2> HIDE DEF L, n
  <2>1. \A i \in 1..L : connectionQ[i] \in Conns /\ aliveTime'[connectionQ'[i]] = aliveTime[connectionQ[i]]
                        /\ aliveTime[connectionQ[i]] \in Nat
    BY <1>2, <1>3, <1>7, ElementOfSeq DEF TypeInv, L
  <2>2. aliveTime'[connectionQ'[L + 1]] = 0
    BY <1>1, <1>2, <1>3 DEF TypeInv
  <2>3. \A i, j \in 1..(L + 1) :
           i < j => aliveTime'[connectionQ'[i]] >= aliveTime'[connectionQ'[j]]
    BY <1>2, <2>1, <2>2 DEF HeadIdleLongest, L
  <2> QED
    BY <1>2, <2>3 DEF HeadIdleLongest
<1>11. ProducerAwake'
  BY <1>1, <1>2 DEF ProducerAwake
<1> QED
  BY <1>5, <1>8, <1>9, <1>10, <1>11

\* A new connection goes behind the others, too.
LEMMA ProduceKeeps == Inv /\ Produce => Inv'
<1> SUFFICES ASSUME Inv, Produce PROVE Inv'
  OBVIOUS
<1> USE ConnectionAssumption DEF Inv
<1> DEFINE L == Len(connectionQ)
<1>1. PICK n \in Conns \ live : /\ live' = live \union {n}
                                /\ aliveTime' = [aliveTime EXCEPT ![n] = 0]
                                /\ connectionQ' = Append(connectionQ, n)
  BY DEF Produce, AddConnection
<1>2. /\ L \in Nat /\ connectionQ' \in Seq(Conns) /\ Len(connectionQ') = L + 1
      /\ \A i \in 1..L : connectionQ'[i] = connectionQ[i]
      /\ connectionQ'[L + 1] = n
  BY <1>1, Pushed DEF TypeInv
<1>3. /\ UNCHANGED <<ppc, held, uses>> /\ ppc = "ready"
      /\ cpc' \in [Clients -> {"idle", "waiting", "woken", "holding"}]
      /\ \A c \in Clients : /\ cpc'[c] = "holding" <=> cpc[c] = "holding"
                            /\ cpc'[c] = "idle" <=> cpc[c] = "idle"
  BY NotifiedClients DEF Produce
<1>4. TypeInv'
  BY <1>1, <1>2, <1>3 DEF TypeInv
<1>5. \A i \in 1..L : connectionQ[i] # n
  BY <1>1 DEF UseInv
<1>6. \A c \in Clients : held[c] # n
  BY <1>1 DEF UseInv
<1>7. UseInv'
  <2> HIDE DEF L
  <2>1. \A i, j \in 1..(L + 1) : connectionQ'[i] = connectionQ'[j] => i = j
    BY <1>2, <1>5 DEF UseInv, L
  <2>2. \A d \in Clients, i \in 1..(L + 1) : held'[d] # connectionQ'[i]
    BY <1>2, <1>3, <1>6 DEF UseInv, L
  <2>3. /\ \A d, e \in Clients :
              cpc'[d] = "holding" /\ cpc'[e] = "holding" /\ held'[d] = held'[e] => d = e
        /\ \A d \in Clients : cpc'[d] = "holding" => held'[d] \in live'
        /\ \A d \in Clients : cpc'[d] # "holding" => held'[d] = NoConn
    BY <1>1, <1>3 DEF UseInv
  <2>4. \A i \in 1..(L + 1) : connectionQ'[i] \in live'
    BY <1>1, <1>2 DEF UseInv, L
  <2>5. \A m \in live' : \/ \E i \in 1..(L + 1) : m = connectionQ'[i]
                         \/ \E d \in Clients : cpc'[d] = "holding" /\ m = held'[d]
    <3> SUFFICES ASSUME NEW m \in live'
                 PROVE  \/ \E i \in 1..(L + 1) : m = connectionQ'[i]
                        \/ \E d \in Clients : cpc'[d] = "holding" /\ m = held'[d]
      OBVIOUS
    <3>1. CASE \E i \in 1..L : m = connectionQ[i]
      BY <3>1, <1>2
    <3>2. CASE m = n
      BY <3>2, <1>2
    <3>3. CASE \E d \in Clients : cpc[d] = "holding" /\ m = held[d]
      BY <3>3, <1>3
    <3> QED
      BY <1>1, <3>1, <3>2, <3>3 DEF UseInv, L
  <2> QED
    BY <1>2, <2>1, <2>2, <2>3, <2>4, <2>5 DEF UseInv
<1>8. RoundInv'
  BY <1>3 DEF RoundInv
<1>9. HeadIdleLongest'
  <2> HIDE DEF L
  <2>1. \A i \in 1..L : connectionQ[i] \in Conns /\ aliveTime'[connectionQ'[i]] = aliveTime[connectionQ[i]]
                        /\ aliveTime[connectionQ[i]] \in Nat
    BY <1>1, <1>2, <1>5, ElementOfSeq DEF TypeInv, L
  <2>2. aliveTime'[connectionQ'[L + 1]] = 0
    BY <1>1, <1>2 DEF TypeInv
  <2>3. \A i, j \in 1..(L + 1) :
           i < j => aliveTime'[connectionQ'[i]] >= aliveTime'[connectionQ'[j]]
    BY <1>2, <2>1, <2>2 DEF HeadIdleLongest, L
  <2> QED
    BY <1>2, <2>3 DEF HeadIdleLongest
<1>10. ProducerAwake'
  BY <1>3 DEF ProducerAwake
<1> QED
  BY <1>4, <1>7, <1>8, <1>9, <1>10

\* The recycler closes connections at the head of the queue, which nobody
\* holds, and leaves minSize of them.
LEMMA RecycleKeeps == Inv /\ Recycle => Inv'
<1> SUFFICES ASSUME Inv, Recycle PROVE Inv'
  OBVIOUS
<1> USE ConnectionAssumption DEF Inv
<1> DEFINE L == Len(connectionQ)
<1>1. L \in Nat /\ connectionQ \in Seq(Conns)
  BY LenProperties DEF TypeInv
<1>2. PICK k \in Recyclable : /\ live' = live \ {connectionQ[i] : i \in 1..k}
                              /\ connectionQ' = SubSeq(connectionQ, k + 1, Len(connectionQ))
                              /\ UNCHANGED <<aliveTime, ppc, clients>>
  BY DEF Recycle
<1>3. k \in 1..(L - minSize) /\ k \in 1..L
  BY <1>1 DEF Recyclable
<1>4. /\ connectionQ' \in Seq(Conns) /\ Len(connectionQ') = L - k
      /\ \A i \in 1..(L - k) : connectionQ'[i] = connectionQ[i + k]
  BY <1>1, <1>2, <1>3, PoppedMany
<1>5. UNCHANGED <<aliveTime, ppc, cpc, held, uses>>
  BY <1>2 DEF clients
<1> HIDE DEF L
<1>6. \A i \in 1..(L - k) : i + k \in 1..L /\ i + k \notin 1..k
  BY <1>1, <1>3
<1>7. TypeInv'
  BY <1>2, <1>4, <1>5 DEF TypeInv
<1>8. UseInv'
  <2>1. \A i, j \in 1..(L - k) : connectionQ'[i] = connectionQ'[j] => i = j
    <3>1. \A i, j \in 1..(L - k) : connectionQ[i + k] = connectionQ[j + k] => i + k = j + k
      BY <1>6 DEF UseInv, L
    <3>2. \A i, j \in 1..(L - k) : i + k = j + k => i = j
      BY <1>1, <1>3
    <3> QED
      BY <1>4, <3>1, <3>2
  <2>2. \A d \in Clients, i \in 1..(L - k) : held'[d] # connectionQ'[i]
    BY <1>4, <1>5, <1>6 DEF UseInv, L
  <2>3. \A d \in Clients : cpc[d] = "holding" => held[d] \in live'
    <3>1. \A d \in Clients, i \in 1..k : held[d] # connectionQ[i]
      BY <1>1, <1>3 DEF UseInv, L
    <3> QED
      BY <1>2, <3>1 DEF UseInv
  <2>4. \A i \in 1..(L - k) : connectionQ'[i] \in live'
    <3> SUFFICES ASSUME NEW i \in 1..(L - k) PROVE connectionQ[i + k] \in live'
      BY <1>4
    <3>1. \A j \in 1..k : j \in 1..L /\ j # i + k
      BY <1>1, <1>3
    <3>2. \A j \in 1..k : connectionQ[j] # connectionQ[i + k]
      BY <1>6, <3>1 DEF UseInv, L
    <3>3. connectionQ[i + k] \in live
      BY <1>6 DEF UseInv, L
    <3> QED
      BY <1>2, <3>2, <3>3
  <2>5. \A m \in live' : \/ \E i \in 1..(L - k) : m = connectionQ'[i]
                         \/ \E d \in Clients : cpc'[d] = "holding" /\ m = held'[d]
    <3> SUFFICES ASSUME NEW m \in live'
                 PROVE  \/ \E i \in 1..(L - k) : m = connectionQ'[i]
                        \/ \E d \in Clients : cpc'[d] = "holding" /\ m = held'[d]
      OBVIOUS
    <3>1. m \in live /\ \A i \in 1..k : m # connectionQ[i]
      BY <1>2
    <3>2. ASSUME NEW i \in 1..L, m = connectionQ[i] PROVE \E j \in 1..(L - k) : m = connectionQ'[j]
      <4>1. i - k \in 1..(L - k) /\ (i - k) + k = i
        BY <3>1, <3>2, <1>1, <1>3
      <4> QED
        BY <3>2, <4>1, <1>4
    <3> QED
      BY <3>1, <3>2, <1>5 DEF UseInv, L
  <2> QED
    BY <1>4, <1>5, <2>1, <2>2, <2>3, <2>4, <2>5 DEF UseInv
<1>9. RoundInv'
  BY <1>5 DEF RoundInv
<1>10. HeadIdleLongest'
  <2>1. \A i, j \in 1..(L - k) : i < j => i + k < j + k
    BY <1>1, <1>3
  <2>2. ASSUME NEW i \in 1..(L - k), NEW j \in 1..(L - k), i < j
        PROVE  aliveTime'[connectionQ'[i]] >= aliveTime'[connectionQ'[j]]
    <3>1. aliveTime[connectionQ[i + k]] >= aliveTime[connectionQ[j + k]]
      BY <1>6, <2>1, <2>2 DEF HeadIdleLongest, L
    <3> QED
      BY <1>4, <1>5, <3>1
  <2> QED
    BY <1>4, <2>2 DEF HeadIdleLongest
<1>11. ProducerAwake'
  BY <1>1, <1>3, <1>4 DEF ProducerAwake
<1> QED
  BY <1>7, <1>8, <1>9, <1>10, <1>11

\* Time passes for all connections alike.
LEMMA TickKeeps == Inv /\ Tick => Inv'
<1> SUFFICES ASSUME Inv, Tick PROVE Inv'
  OBVIOUS
<1> USE ConnectionAssumption DEF Inv
<1>1. /\ UNCHANGED <<connectionQ, live, ppc, cpc, held, uses>>
      /\ aliveTime' = [n \in Conns |-> IF n \in live /\ aliveTime[n] < maxIdleTime
                                         THEN aliveTime[n] + 1 ELSE aliveTime[n]]
  BY DEF Tick, clients
<1>2. aliveTime' \in [Conns -> 0..maxIdleTime]
  BY <1>1 DEF TypeInv
<1>3. TypeInv' /\ UseInv' /\ RoundInv' /\ ProducerAwake'
  BY <1>1, <1>2 DEF TypeInv, UseInv, RoundInv, ProducerAwake
<1>4. HeadIdleLongest'
  <2>1. \A i \in 1..Len(connectionQ) :
           /\ connectionQ[i] \in live /\ connectionQ[i] \in Conns
           /\ aliveTime[connectionQ[i]] \in 0..maxIdleTime
    BY DEF UseInv, TypeInv
  <2>2. \A i \in 1..Len(connectionQ) :
           aliveTime'[connectionQ[i]] = IF aliveTime[connectionQ[i]] < maxIdleTime
                                          THEN aliveTime[connectionQ[i]] + 1
                                          ELSE aliveTime[connectionQ[i]]
    BY <1>1, <2>1
  <2>3. \A i, j \in 1..Len(connectionQ) :
           i < j => aliveTime'[connectionQ[i]] >= aliveTime'[connectionQ[j]]
    BY <2>1, <2>2 DEF HeadIdleLongest
  <2> QED
    BY <1>1, <2>3 DEF HeadIdleLongest
<1> QED
  BY <1>3, <1>4

\* Falling asleep and waking up.
LEMMA SleepKeeps ==
  ASSUME \/ \E c \in Clients : Timeout(c)
         \/ ProducerWait \/ SpuriousProducerWake \/ UNCHANGED vars
  PROVE  Inv => Inv'
<1> SUFFICES ASSUME Inv PROVE Inv'
  OBVIOUS
<1> USE ConnectionAssumption DEF Inv
<1>1. ASSUME NEW c \in Clients, Timeout(c) PROVE Inv'
  <2>1. /\ UNCHANGED <<connectionQ, live, aliveTime, ppc, held, uses>>
        /\ cpc[c] = "waiting" /\ cpc' = [cpc EXCEPT ![c] = "woken"]
    BY <1>1 DEF Timeout, pool
  <2>2. TypeInv'
    BY <2>1 DEF TypeInv
  <2>3. \A d \in Clients : /\ cpc'[d] = "holding" <=> cpc[d] = "holding"
                           /\ cpc'[d] = "idle" <=> cpc[d] = "idle"
    BY <2>1 DEF TypeInv
  <2> QED
    BY <2>1, <2>2, <2>3 DEF UseInv, RoundInv, HeadIdleLongest, ProducerAwake
<1>2. CASE ProducerWait
  <2>1. Len(connectionQ) \in Nat
    BY LenProperties DEF TypeInv
  <2> QED
    BY <1>2, <2>1 DEF ProducerWait, EnoughConnections, pool, clients, TypeInv, UseInv, RoundInv,
       HeadIdleLongest, ProducerAwake
<1>3. CASE SpuriousProducerWake
  BY <1>3 DEF SpuriousProducerWake, pool, clients, TypeInv, UseInv, RoundInv, HeadIdleLongest,
     ProducerAwake
<1>4. CASE UNCHANGED vars
  BY <1>4 DEF vars, pool, clients, TypeInv, UseInv, RoundInv, HeadIdleLongest, ProducerAwake
<1> QED
  BY <1>1, <1>2, <1>3, <1>4

\* Every step keeps the pool in order.
LEMMA PoolStep == Inv /\ [Next]_vars => Inv'
  BY GetKeeps, ReleaseKeeps, ProduceKeeps, RecycleKeeps, TickKeeps, SleepKeeps DEF Next

-----------------------------------------------------------------------------
(* The theorems *)

\* Each connection in the queue or in a client's hands is a live object, and
\* every variable has its type.
THEOREM ConnectionTypesCorrect == Spec => []TypeOK
<1>1. Inv => TypeOK
  <2> SUFFICES ASSUME Inv PROVE TypeOK
    OBVIOUS
  <2>1. connectionQ \in Seq(live)
    <3>1. connectionQ \in [1..Len(connectionQ) -> Conns] /\ Len(connectionQ) \in Nat
      BY LenProperties DEF Inv, TypeInv
    <3>2. connectionQ \in [1..Len(connectionQ) -> live]
      BY <3>1 DEF Inv, UseInv
    <3> QED
      BY <3>1, <3>2 DEF Seq
  <2>2. held \in [Clients -> live \union {NoConn}]
    BY DEF Inv, TypeInv, UseInv
  <2> QED
    BY <2>1, <2>2 DEF Inv, TypeInv, TypeOK
<1> QED
  BY <1>1, PoolInit, PoolStep, PTL DEF Spec

\* No two clients use one connection, none is used while it is in the queue,
\* and none is lost, for any number of clients.
THEOREM UseCorrect == Spec => []ExclusiveUse
<1>1. Inv => ExclusiveUse
  BY DEF Inv, UseInv, ExclusiveUse, Holding, Queued
<1> QED
  BY <1>1, PoolInit, PoolStep, PTL DEF Spec

\* The queue is sorted by idle time, so that the recycler need only look at its
\* head.
THEOREM OrderCorrect == Spec => []HeadIdleLongest
<1>1. Inv => HeadIdleLongest
  BY DEF Inv
<1> QED
  BY <1>1, PoolInit, PoolStep, PTL DEF Spec

\* The producer does not sleep while fewer than minSize connections are queued.
THEOREM ProducerCorrect == Spec => []ProducerAwake
<1>1. Inv => ProducerAwake
  BY DEF Inv
<1> QED
  BY <1>1, PoolInit, PoolStep, PTL DEF Spec

-----------------------------------------------------------------------------
(* How many connections there are *)

\* Every connection is in the queue or with a client, and those in the queue
\* are as many as its cells.
LEMMA PoolCount ==
  ASSUME Inv
  PROVE  /\ IsFiniteSet(live) /\ Cardinality(live) \in Nat /\ Len(connectionQ) \in Nat
         /\ Cardinality(live) <= Len(connectionQ) + Cardinality(Clients)
         /\ Len(connectionQ) <= Cardinality(live)
<1> USE ConnectionAssumption
<1> DEFINE L == Len(connectionQ)
           H == {held[c] : c \in Clients}
<1>1. L \in Nat
  <2>1. connectionQ \in Seq(Conns)
    BY DEF Inv, TypeInv
  <2> QED
    BY <2>1, LenProperties
<1>2. IsFiniteSet(1..L) /\ Cardinality(1..L) = L
  <2> HIDE DEF L
  <2>1. Cardinality(1..L) = IF 1 > L THEN 0 ELSE L - 1 + 1
    BY <1>1, FS_Interval
  <2> QED
    BY <1>1, <2>1, FS_Interval
<1>3. IsFiniteSet(Queued) /\ Cardinality(Queued) = L
  <2> DEFINE f == [i \in 1..L |-> connectionQ[i]]
  <2>1. f \in Bijection(1..L, Queued)
    BY DEF Inv, UseInv, Queued, Bijection, Injection, Surjection, IsInjective
  <2> QED
    BY <1>2, <2>1, FS_Bijection DEF ExistsBijection
<1>4. IsFiniteSet(H) /\ Cardinality(H) <= Cardinality(Clients)
  <2> DEFINE g == [c \in Clients |-> held[c]]
  <2>1. g \in Surjection(Clients, H)
    BY DEF Surjection
  <2> QED
    BY <2>1, FS_Surjection
<1>5. live \subseteq Queued \union H /\ Queued \subseteq live
  BY DEF Inv, UseInv, Queued
<1>6. /\ IsFiniteSet(Queued \union H)
      /\ Cardinality(Queued \union H) <= L + Cardinality(Clients)
  <2> HIDE DEF L, H
  <2>1. /\ IsFiniteSet(Queued \union H)
        /\ Cardinality(Queued \union H)
              = Cardinality(Queued) + Cardinality(H) - Cardinality(Queued \intersect H)
    BY <1>3, <1>4, FS_Union
  <2>2. /\ Cardinality(H) \in Nat /\ Cardinality(Clients) \in Nat
        /\ Cardinality(Queued \intersect H) \in Nat
    BY <1>3, <1>4, FS_CardinalityType, FS_Intersection
  <2> QED
    BY <1>1, <1>3, <1>4, <2>1, <2>2
<1> HIDE DEF L, H
<1>7. IsFiniteSet(live) /\ Cardinality(live) <= Cardinality(Queued \union H) /\ L <= Cardinality(live)
  BY <1>3, <1>5, <1>6, FS_Subset
<1>8. /\ Cardinality(live) \in Nat /\ Cardinality(Queued \union H) \in Nat
      /\ Cardinality(Clients) \in Nat
  BY <1>6, <1>7, FS_CardinalityType
<1> QED
  BY <1>1, <1>6, <1>7, <1>8 DEF L

\* With room for every client above minSize, no more connections are ever open
\* than minSize and one for each client: only the producer opens one, and only
\* while fewer than minSize are idle.
THEOREM BoundCorrect == Spec => []PoolBounded
<1> USE ConnectionAssumption
<1> DEFINE N == Cardinality(Clients)
<1>0. N \in Nat
  BY FS_CardinalityType
<1>1. Init => PoolBounded
  <2> SUFFICES ASSUME Init PROVE Cardinality(live) <= minSize + N
    BY DEF PoolBounded
  <2>1. PICK s \in [1..minSize -> Conns] : connectionQ = s
    BY DEF Init
  <2>2. Len(connectionQ) = minSize
    BY <2>1, LenProperties DEF Seq
  <2> QED
    BY <2>2, PoolInit, PoolCount
<1>2. Inv /\ PoolBounded /\ [Next]_vars => PoolBounded'
  <2> SUFFICES ASSUME Inv, PoolBounded, [Next]_vars, minSize + N <= maxSize
               PROVE  Cardinality(live') <= minSize + N
    BY DEF PoolBounded
  <2>1. /\ IsFiniteSet(live) /\ Cardinality(live) \in Nat /\ Len(connectionQ) \in Nat
        /\ Cardinality(live) <= Len(connectionQ) + N
        /\ Len(connectionQ) <= Cardinality(live) /\ Cardinality(live) <= minSize + N
    BY PoolCount DEF PoolBounded
  <2>2. CASE live' \subseteq live
    <3>1. Cardinality(live') <= Cardinality(live) /\ Cardinality(live') \in Nat
      BY <2>1, <2>2, FS_Subset, FS_CardinalityType
    <3> QED
      BY <2>1, <3>1, <1>0
  <2>3. CASE Produce
    <3>1. PICK n \in Conns \ live : live' = live \union {n}
      BY <2>3 DEF Produce, AddConnection
    <3>2. Cardinality(live') = Cardinality(live) + 1
      BY <2>1, <3>1, FS_AddElement
    <3>3. Len(connectionQ) < minSize
      BY <2>1, <2>3, <1>0 DEF Produce, EnoughConnections
    <3> QED
      BY <2>1, <3>2, <3>3, <1>0
  <2>4. live' \subseteq live \/ Produce
    BY DEF Next, GetConnection, Timeout, Release, ProducerWait, SpuriousProducerWake, Recycle, Tick,
       vars, pool
  <2> QED
    BY <2>2, <2>3, <2>4
<1> QED
  BY <1>1, <1>2, PoolInit, PoolStep, PTL DEF Spec
=============================================================================
