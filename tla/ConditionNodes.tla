---------------------------- MODULE ConditionNodes ----------------------------
(***************************************************************************)
(* Producers and consumers on a condition variable: src/Thread/            *)
(* pthread_cond.c.  A producer puts a node on the list with the mutex held *)
(* and broadcasts after it has unlocked; a consumer sleeps while the list  *)
(* is empty.  A critical section is one action, and of the list only its   *)
(* length matters, since head is NULL when it is 0.  Neither loop ends.    *)
(***************************************************************************)
EXTENDS Integers, FiniteSets, TLAPS

CONSTANTS Producers, Consumers

VARIABLES nodes,   \* how many nodes the list has
          pc       \* a producer is at "lock" or "broadcast"; a consumer is at
                   \* "lock", "waiting" in pthread_cond_wait, or "woken" and
                   \* waits for the mutex

vars == <<nodes, pc>>

Threads == Producers \union Consumers

Init == nodes = 0 /\ pc = [t \in Threads |-> "lock"]

-----------------------------------------------------------------------------

\* producer, up to the unlock
Push(p) ==
    /\ pc[p] = "lock"
    /\ nodes' = nodes + 1
    /\ pc' = [pc EXCEPT ![p] = "broadcast"]

\* pthread_cond_broadcast
Broadcast(p) ==
    /\ pc[p] = "broadcast"
    /\ pc' = [t \in Threads |-> IF t = p THEN "lock"
                                ELSE IF pc[t] = "waiting" THEN "woken" ELSE pc[t]]
    /\ UNCHANGED nodes

\* consumer: the list has a node, which it takes off and frees
Consume(c) ==
    /\ pc[c] \in {"lock", "woken"}
    /\ nodes > 0
    /\ nodes' = nodes - 1
    /\ pc' = [pc EXCEPT ![c] = "lock"]

\* The list is empty.
Sleep(c) ==
    /\ pc[c] \in {"lock", "woken"}
    /\ nodes = 0
    /\ pc' = [pc EXCEPT ![c] = "waiting"]
    /\ UNCHANGED nodes

SpuriousWake(c) ==
    /\ pc[c] = "waiting"
    /\ pc' = [pc EXCEPT ![c] = "woken"]
    /\ UNCHANGED nodes

-----------------------------------------------------------------------------

Next ==
    \/ \E p \in Producers : Push(p) \/ Broadcast(p)
    \/ \E c \in Consumers : Consume(c) \/ Sleep(c) \/ SpuriousWake(c)

Spec == Init /\ [][Next]_vars

-----------------------------------------------------------------------------
(* Properties *)

\* The variables have their types: no consumer takes a node from an empty list,
\* where it would follow a null pointer, although several are woken for one.
TypeOK ==
    /\ nodes \in Nat
    /\ pc \in [Threads -> {"lock", "broadcast", "waiting", "woken"}]

\* No consumer sleeps beside a node unless a producer is about to wake it: the
\* broadcast may come after the unlock.
NoSleeperForgotten ==
    (nodes > 0 /\ \E c \in Consumers : pc[c] = "waiting")
       => \E p \in Producers : pc[p] = "broadcast"

-----------------------------------------------------------------------------

\* However many threads there are, no consumer takes a node that is not there,
\* and none sleeps beside one that nobody will wake it for.
THEOREM ConditionCorrect ==
  ASSUME Producers \intersect Consumers = {}
  PROVE  Spec => [](TypeOK /\ NoSleeperForgotten)
<1> DEFINE Inv == TypeOK /\ NoSleeperForgotten
<1> USE DEF Threads
<1>1. Init => Inv
  BY DEF Init, TypeOK, NoSleeperForgotten
<1>2. Inv /\ [Next]_vars => Inv'
  <2> SUFFICES ASSUME Inv, [Next]_vars PROVE Inv'
    OBVIOUS
  <2>1. CASE UNCHANGED vars
    BY <2>1 DEF vars, TypeOK, NoSleeperForgotten
  \* Whoever has just put a node on the list has still to broadcast.
  <2>2. ASSUME NEW p \in Producers, Push(p) PROVE Inv'
    BY <2>2 DEF Push, TypeOK, NoSleeperForgotten
  \* After a broadcast nobody sleeps.
  <2>3. ASSUME NEW p \in Producers, Broadcast(p) PROVE Inv'
    BY <2>3 DEF Broadcast, TypeOK, NoSleeperForgotten
  <2>4. ASSUME NEW c \in Consumers, Consume(c) PROVE Inv'
    BY <2>4 DEF Consume, TypeOK, NoSleeperForgotten
  \* A consumer falls asleep beside an empty list.
  <2>5. ASSUME NEW c \in Consumers, Sleep(c) PROVE Inv'
    BY <2>5 DEF Sleep, TypeOK, NoSleeperForgotten
  <2>6. ASSUME NEW c \in Consumers, SpuriousWake(c) PROVE Inv'
    BY <2>6 DEF SpuriousWake, TypeOK, NoSleeperForgotten
  <2> QED
    BY <2>1, <2>2, <2>3, <2>4, <2>5, <2>6 DEF Next
<1> QED
  BY <1>1, <1>2, PTL DEF Spec
=============================================================================
