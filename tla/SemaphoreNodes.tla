---------------------------- MODULE SemaphoreNodes ----------------------------
(***************************************************************************)
(* Producers and consumers on two semaphores: src/Thread/semaphore.c.      *)
(* psem counts the places on the list that may be filled, csem the nodes   *)
(* that may be taken.  The list itself is changed with the mutex held, one *)
(* action for each critical section; only its length matters, since head   *)
(* is NULL when it is 0.  Neither loop ends.                               *)
(***************************************************************************)
EXTENDS Integers, FiniteSets

CONSTANTS Producers, Consumers,
          Capacity     \* the initial value of psem, 5 in main

NodesAssumption ==
    /\ IsFiniteSet(Producers) /\ IsFiniteSet(Consumers)
    /\ Producers \intersect Consumers = {}
    /\ Capacity \in Nat \ {0}

VARIABLES psem, csem,
          nodes,   \* how many nodes the list has
          pc       \* each thread: "wait" in front of sem_wait or in it, "work"
                   \* in front of its critical section, "post" behind it

vars == <<psem, csem, nodes, pc>>

Threads == Producers \union Consumers

\* sem_init
Init ==
    /\ psem = Capacity /\ csem = 0
    /\ nodes = 0
    /\ pc = [t \in Threads |-> "wait"]

At(t, p, q) == pc[t] = p /\ pc' = [pc EXCEPT ![t] = q]

-----------------------------------------------------------------------------
(* producer *)

\* sem_wait(&psem)
WaitForPlace(p) ==
    /\ psem > 0
    /\ At(p, "wait", "work")
    /\ psem' = psem - 1
    /\ UNCHANGED <<csem, nodes>>

\* A node is put in front of the list.
Push(p) == At(p, "work", "post") /\ nodes' = nodes + 1 /\ UNCHANGED <<psem, csem>>

\* sem_post(&csem)
PostNode(p) == At(p, "post", "wait") /\ csem' = csem + 1 /\ UNCHANGED <<psem, nodes>>

-----------------------------------------------------------------------------
(* consumer *)

\* sem_wait(&csem)
WaitForNode(c) ==
    /\ csem > 0
    /\ At(c, "wait", "work")
    /\ csem' = csem - 1
    /\ UNCHANGED <<psem, nodes>>

\* The first node is taken off the list and freed, without a test for NULL.
Pop(c) == At(c, "work", "post") /\ nodes' = nodes - 1 /\ UNCHANGED <<psem, csem>>

\* sem_post(&psem)
PostPlace(c) == At(c, "post", "wait") /\ psem' = psem + 1 /\ UNCHANGED <<csem, nodes>>

-----------------------------------------------------------------------------

Producer(p) == WaitForPlace(p) \/ Push(p) \/ PostNode(p)
Consumer(c) == WaitForNode(c) \/ Pop(c) \/ PostPlace(c)

Next == (\E p \in Producers : Producer(p)) \/ (\E c \in Consumers : Consumer(c))

Spec == Init /\ [][Next]_vars

-----------------------------------------------------------------------------
(* Properties *)

In(S, p) == {t \in S : pc[t] = p}

\* Every variable has its type; the semaphores stay within the capacity.
TypeOK ==
    /\ psem \in 0..Capacity /\ csem \in 0..Capacity
    /\ nodes \in Int
    /\ pc \in [Threads -> {"wait", "work", "post"}]

\* Each consumer that has passed csem has a node of its own on the list, so
\* that none of them follows a null pointer, whatever the order in which they
\* get the mutex.
NoNullNode == Cardinality(In(Consumers, "work")) <= nodes

\* The list never has more nodes than psem was initialised with, counting those
\* that producers are about to put there.
CapacityKept == nodes + Cardinality(In(Producers, "work")) <= Capacity

\* They never all wait for each other: with everybody in front of a semaphore,
\* one of the two lets a thread through.
SomebodyGoesOn == psem > 0 \/ csem > 0 \/ \E t \in Threads : pc[t] # "wait"
=============================================================================
