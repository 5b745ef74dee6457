-------------------------- MODULE MCConnectionPool --------------------------
(* Instances of the connection pool for TLC. *)
EXTENDS ConnectionPool, TLC

\* The connections are interchangeable.
ConnSymmetry == Permutations(Conns)
=============================================================================
