------------------------------ MODULE TaskPool ------------------------------
(***************************************************************************)
(* What a thread pool promises to the program that adds tasks to it,       *)
(* whatever its threads do: an accepted task is started once, in the order *)
(* of acceptance, it finishes once, at most Capacity tasks wait at a time, *)
(* and once the pool is closed no task is accepted and none is started.    *)
(* The pools of the repository are shown to implement this module.         *)
(***************************************************************************)
EXTENDS Naturals, Sequences

CONSTANTS Tasks,     \* the tasks that may be added, each at most once
          Capacity   \* how many tasks may wait

VARIABLES pending,   \* the accepted tasks no thread has started yet, oldest first
          running,   \* the tasks some thread has taken and not finished
          finished,  \* the tasks that have been executed
          closed     \* the pool is being destroyed

vars == <<pending, running, finished, closed>>

Pending == {pending[i] : i \in 1..Len(pending)}

Init == /\ pending = <<>>
        /\ running = {}
        /\ finished = {}
        /\ closed = FALSE

\* The last acceptance or start that was under way when the pool was told to
\* close may be the step that closes it.
Accept(t) == /\ ~closed
             /\ Len(pending) < Capacity
             /\ t \notin Pending \union running \union finished
             /\ pending' = Append(pending, t)
             /\ closed' \in BOOLEAN
             /\ UNCHANGED <<running, finished>>

Start == /\ ~closed
         /\ pending # <<>>
         /\ pending' = Tail(pending)
         /\ running' = running \union {Head(pending)}
         /\ closed' \in BOOLEAN
         /\ UNCHANGED finished

Finish(t) == /\ t \in running
             /\ running' = running \ {t}
             /\ finished' = finished \union {t}
             /\ UNCHANGED <<pending, closed>>

Close == /\ closed' = TRUE
         /\ UNCHANGED <<pending, running, finished>>

Next == \/ \E t \in Tasks : Accept(t) \/ Finish(t)
        \/ Start
        \/ Close

Spec == Init /\ [][Next]_vars
=============================================================================
