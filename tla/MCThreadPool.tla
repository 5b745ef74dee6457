---------------------------- MODULE MCThreadPool ----------------------------
(* Instances of the C thread pool for TLC. *)
EXTENDS ThreadPool, TLC

\* The pool treats all tasks alike.
TaskSymmetry == Permutations(Tasks)
=============================================================================
