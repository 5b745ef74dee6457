------------------------ MODULE SemaphoreNodesProofs ------------------------
(***************************************************************************)
(* What holds of the two semaphores for any number of producers and        *)
(* consumers and any capacity.                                             *)
(***************************************************************************)
EXTENDS SemaphoreNodes, FiniteSetTheorems, TLAPS

Places == {"wait", "work", "post"}

TypeInv == psem \in Nat /\ csem \in Nat /\ nodes \in Int /\ pc \in [Threads -> Places]

\* Each node is announced by csem, or by a producer that has still to post, or
\* belongs to a consumer that has passed csem.
NodesInv == nodes = csem + Cardinality(In(Producers, "post")) + Cardinality(In(Consumers, "work"))

\* Each place is free in psem, or belongs to a producer that has passed psem,
\* or to a consumer that has still to post, or has a node.
PlacesInv == Capacity = psem + nodes + Cardinality(In(Producers, "work")) + Cardinality(In(Consumers, "post"))

SemInv == TypeInv /\ NodesInv /\ PlacesInv

\* How the numbers of threads at each place change when one of them moves.
LEMMA Moves ==
  ASSUME pc \in [Threads -> Places], NEW S \in SUBSET Threads, IsFiniteSet(S),
         NEW t \in Threads, NEW p \in Places, NEW q \in Places, p # q, At(t, p, q)
  PROVE  /\ pc' \in [Threads -> Places]
         /\ \A r \in Places : Cardinality(In(S, r)) \in Nat
         /\ \A r \in Places : t \notin S \/ r \notin {p, q} => In(S, r)' = In(S, r)
         /\ t \in S => /\ Cardinality(In(S, p)') = Cardinality(In(S, p)) - 1
                       /\ Cardinality(In(S, q)') = Cardinality(In(S, q)) + 1
<1>1. pc[t] = p /\ pc' = [pc EXCEPT ![t] = q]
  BY DEF At
<1>2. \A r \in Places : IsFiniteSet(In(S, r)) /\ Cardinality(In(S, r)) \in Nat
  <2> TAKE r \in Places
  <2>1. In(S, r) \subseteq S
    BY DEF In
  <2> QED
    BY <2>1, FS_Subset, FS_CardinalityType
<1>3. \A r \in Places : t \notin S \/ r \notin {p, q} => In(S, r)' = In(S, r)
  BY <1>1 DEF In
<1>4. ASSUME t \in S
      PROVE  /\ In(S, p)' = In(S, p) \ {t} /\ t \in In(S, p)
             /\ In(S, q)' = In(S, q) \union {t} /\ t \notin In(S, q)
  BY <1>1, <1>4 DEF In
<1>5. ASSUME t \in S
      PROVE  /\ Cardinality(In(S, p)') = Cardinality(In(S, p)) - 1
             /\ Cardinality(In(S, q)') = Cardinality(In(S, q)) + 1
  <2>1. /\ IsFiniteSet(In(S, p)) /\ IsFiniteSet(In(S, q)) /\ Cardinality(In(S, q)) \in Nat
        /\ In(S, p)' = In(S, p) \ {t} /\ t \in In(S, p)
        /\ In(S, q)' = In(S, q) \union {t} /\ t \notin In(S, q)
    BY <1>2, <1>4, <1>5
  <2>2. Cardinality(In(S, p) \ {t}) = Cardinality(In(S, p)) - 1
    BY <2>1, FS_RemoveElement
  <2>3. Cardinality(In(S, q) \union {t}) = Cardinality(In(S, q)) + 1
    BY <2>1, FS_AddElement
  <2> QED
    BY <2>1, <2>2, <2>3
<1> QED
  BY <1>1, <1>2, <1>3, <1>5

\* All threads begin in front of sem_wait.
LEMMA SemInit ==
  ASSUME NodesAssumption, Init
  PROVE  SemInv
<1>1. \A S \in SUBSET Threads : In(S, "work") = {} /\ In(S, "post") = {}
  BY DEF Init, In
<1>2. Producers \in SUBSET Threads /\ Consumers \in SUBSET Threads
  BY DEF Threads
<1>3. Cardinality({}) = 0
  BY FS_EmptySet
<1>4. /\ Cardinality(In(Producers, "work")) = 0 /\ Cardinality(In(Producers, "post")) = 0
      /\ Cardinality(In(Consumers, "work")) = 0 /\ Cardinality(In(Consumers, "post")) = 0
  BY <1>1, <1>2, <1>3
<1>5. psem = Capacity /\ csem = 0 /\ nodes = 0 /\ Capacity \in Nat
  BY DEF NodesAssumption, Init
<1>6. TypeInv
  BY <1>5 DEF Init, TypeInv, Places
<1> QED
  BY <1>4, <1>5, <1>6 DEF SemInv, NodesInv, PlacesInv

\* A thread that moves takes a place or a node along with it.
LEMMA SemStep ==
  ASSUME NodesAssumption, SemInv, [Next]_vars
  PROVE  SemInv'
<1> USE DEF SemInv
<1>1. /\ Producers \in SUBSET Threads /\ Consumers \in SUBSET Threads
      /\ IsFiniteSet(Producers) /\ IsFiniteSet(Consumers) /\ Capacity \in Nat
      /\ "wait" \in Places /\ "work" \in Places /\ "post" \in Places
  BY DEF NodesAssumption, Threads, Places
<1>2. CASE UNCHANGED vars
  BY <1>2 DEF vars, TypeInv, NodesInv, PlacesInv, In
<1>3. ASSUME NEW p \in Producers, Producer(p) PROVE SemInv'
  <2>1. p \in Threads /\ p \notin Consumers
    BY DEF NodesAssumption, Threads
  <2>2. CASE WaitForPlace(p)
    <3>1. /\ At(p, "wait", "work") /\ psem > 0 /\ psem' = psem - 1
          /\ csem' = csem /\ nodes' = nodes
      BY <2>2 DEF WaitForPlace
    <3>2. /\ pc' \in [Threads -> Places] /\ In(Producers, "post")' = In(Producers, "post")
          /\ Cardinality(In(Producers, "work")) \in Nat
          /\ Cardinality(In(Producers, "work")') = Cardinality(In(Producers, "work")) + 1
      BY <1>1, <2>1, <3>1, Moves DEF TypeInv
    <3>3. \A r \in Places : In(Consumers, r)' = In(Consumers, r) /\ Cardinality(In(Consumers, r)) \in Nat
      BY <1>1, <2>1, <3>1, Moves DEF TypeInv
    <3> QED
      BY <1>1, <3>1, <3>2, <3>3 DEF TypeInv, NodesInv, PlacesInv
  <2>3. CASE Push(p)
    <3>1. At(p, "work", "post") /\ nodes' = nodes + 1 /\ psem' = psem /\ csem' = csem
      BY <2>3 DEF Push
    <3>2. /\ pc' \in [Threads -> Places]
          /\ Cardinality(In(Producers, "work")) \in Nat /\ Cardinality(In(Producers, "post")) \in Nat
          /\ Cardinality(In(Producers, "work")') = Cardinality(In(Producers, "work")) - 1
          /\ Cardinality(In(Producers, "post")') = Cardinality(In(Producers, "post")) + 1
      BY <1>1, <2>1, <3>1, Moves DEF TypeInv
    <3>3. \A r \in Places : In(Consumers, r)' = In(Consumers, r) /\ Cardinality(In(Consumers, r)) \in Nat
      BY <1>1, <2>1, <3>1, Moves DEF TypeInv
    <3> QED
      BY <1>1, <3>1, <3>2, <3>3 DEF TypeInv, NodesInv, PlacesInv
  <2>4. CASE PostNode(p)
    <3>1. At(p, "post", "wait") /\ csem' = csem + 1 /\ psem' = psem /\ nodes' = nodes
      BY <2>4 DEF PostNode
    <3>2. /\ pc' \in [Threads -> Places] /\ In(Producers, "work")' = In(Producers, "work")
          /\ Cardinality(In(Producers, "post")) \in Nat
          /\ Cardinality(In(Producers, "post")') = Cardinality(In(Producers, "post")) - 1
      BY <1>1, <2>1, <3>1, Moves DEF TypeInv
    <3>3. \A r \in Places : In(Consumers, r)' = In(Consumers, r) /\ Cardinality(In(Consumers, r)) \in Nat
      BY <1>1, <2>1, <3>1, Moves DEF TypeInv
    <3> QED
      BY <1>1, <3>1, <3>2, <3>3 DEF TypeInv, NodesInv, PlacesInv
  <2> QED
    BY <1>3, <2>2, <2>3, <2>4 DEF Producer
<1>4. ASSUME NEW c \in Consumers, Consumer(c) PROVE SemInv'
  <2>1. c \in Threads /\ c \notin Producers
    BY DEF NodesAssumption, Threads
  <2>2. CASE WaitForNode(c)
    <3>1. /\ At(c, "wait", "work") /\ csem > 0 /\ csem' = csem - 1
          /\ psem' = psem /\ nodes' = nodes
      BY <2>2 DEF WaitForNode
    <3>2. /\ pc' \in [Threads -> Places] /\ In(Consumers, "post")' = In(Consumers, "post")
          /\ Cardinality(In(Consumers, "work")) \in Nat
          /\ Cardinality(In(Consumers, "work")') = Cardinality(In(Consumers, "work")) + 1
      BY <1>1, <2>1, <3>1, Moves DEF TypeInv
    <3>3. \A r \in Places : In(Producers, r)' = In(Producers, r) /\ Cardinality(In(Producers, r)) \in Nat
      BY <1>1, <2>1, <3>1, Moves DEF TypeInv
    <3> QED
      BY <1>1, <3>1, <3>2, <3>3 DEF TypeInv, NodesInv, PlacesInv
  <2>3. CASE Pop(c)
    <3>1. At(c, "work", "post") /\ nodes' = nodes - 1 /\ psem' = psem /\ csem' = csem
      BY <2>3 DEF Pop
    <3>2. /\ pc' \in [Threads -> Places]
          /\ Cardinality(In(Consumers, "work")) \in Nat /\ Cardinality(In(Consumers, "post")) \in Nat
          /\ Cardinality(In(Consumers, "work")') = Cardinality(In(Consumers, "work")) - 1
          /\ Cardinality(In(Consumers, "post")') = Cardinality(In(Consumers, "post")) + 1
      BY <1>1, <2>1, <3>1, Moves DEF TypeInv
    <3>3. \A r \in Places : In(Producers, r)' = In(Producers, r) /\ Cardinality(In(Producers, r)) \in Nat
      BY <1>1, <2>1, <3>1, Moves DEF TypeInv
    <3> QED
      BY <1>1, <3>1, <3>2, <3>3 DEF TypeInv, NodesInv, PlacesInv
  <2>4. CASE PostPlace(c)
    <3>1. At(c, "post", "wait") /\ psem' = psem + 1 /\ csem' = csem /\ nodes' = nodes
      BY <2>4 DEF PostPlace
    <3>2. /\ pc' \in [Threads -> Places] /\ In(Consumers, "work")' = In(Consumers, "work")
          /\ Cardinality(In(Consumers, "post")) \in Nat
          /\ Cardinality(In(Consumers, "post")') = Cardinality(In(Consumers, "post")) - 1
      BY <1>1, <2>1, <3>1, Moves DEF TypeInv
    <3>3. \A r \in Places : In(Producers, r)' = In(Producers, r) /\ Cardinality(In(Producers, r)) \in Nat
      BY <1>1, <2>1, <3>1, Moves DEF TypeInv
    <3> QED
      BY <1>1, <3>1, <3>2, <3>3 DEF TypeInv, NodesInv, PlacesInv
  <2> QED
    BY <1>4, <2>2, <2>3, <2>4 DEF Consumer
<1> QED
  BY <1>2, <1>3, <1>4 DEF Next

\* The threads at a place are finitely many, and no fewer than none.
LEMMA CountsAreNumbers ==
  ASSUME NodesAssumption
  PROVE  \A r \in Places : /\ Cardinality(In(Producers, r)) \in Nat
                           /\ Cardinality(In(Consumers, r)) \in Nat
<1> TAKE r \in Places
<1>1. In(Producers, r) \subseteq Producers /\ In(Consumers, r) \subseteq Consumers
  BY DEF In
<1> QED
  BY <1>1, FS_Subset, FS_CardinalityType DEF NodesAssumption

\* No consumer finds the list empty, no producer makes it longer than the
\* initial value of psem, the semaphores stay within that value, and producers
\* and consumers do not all wait for each other.
THEOREM NodesCorrect ==
  ASSUME NodesAssumption
  PROVE  Spec => [](TypeOK /\ NoNullNode /\ CapacityKept /\ SomebodyGoesOn)
<1>1. SemInv => TypeOK /\ NoNullNode /\ CapacityKept
  <2> SUFFICES ASSUME SemInv PROVE TypeOK /\ NoNullNode /\ CapacityKept
    OBVIOUS
  <2>1. /\ Cardinality(In(Producers, "work")) \in Nat /\ Cardinality(In(Producers, "post")) \in Nat
        /\ Cardinality(In(Consumers, "work")) \in Nat /\ Cardinality(In(Consumers, "post")) \in Nat
    BY CountsAreNumbers DEF Places
  <2>2. Capacity \in Nat
    BY DEF NodesAssumption
  <2> QED
    BY <2>1, <2>2 DEF SemInv, TypeInv, NodesInv, PlacesInv, TypeOK, NoNullNode, CapacityKept, Places
<1>2. SemInv => SomebodyGoesOn
  <2> SUFFICES ASSUME SemInv, \A t \in Threads : pc[t] = "wait"
               PROVE  psem > 0 \/ csem > 0
    BY DEF SomebodyGoesOn
  <2>1. /\ In(Producers, "work") = {} /\ In(Producers, "post") = {}
        /\ In(Consumers, "work") = {} /\ In(Consumers, "post") = {}
    BY DEF In, Threads
  <2>2. Cardinality({}) = 0
    BY FS_EmptySet
  <2>3. psem \in Nat /\ csem \in Nat /\ nodes = csem + 0 + 0 /\ Capacity = psem + nodes + 0 + 0
    BY <2>1, <2>2 DEF SemInv, TypeInv, NodesInv, PlacesInv
  <2>4. Capacity \in Nat \ {0}
    BY DEF NodesAssumption
  <2> QED
    BY <2>3, <2>4
<1>3. Init => SemInv
  BY SemInit
<1>4. SemInv /\ [Next]_vars => SemInv'
  BY SemStep
<1> QED
  BY <1>1, <1>2, <1>3, <1>4, PTL DEF Spec
=============================================================================
