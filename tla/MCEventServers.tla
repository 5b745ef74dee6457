--------------------------- MODULE MCEventServers ---------------------------
(* An instance of the multiplexing servers for TLC. *)
EXTENDS EventServers

CONSTANTS c1, c2

\* All four programs.
MCPrograms == AllPrograms

\* One client whose requests may arrive together, one that asks nothing.
MCRequests == [c \in Clients |-> IF c = c1 THEN 2 ELSE 0]
\* Two threads on one connection of an epoll program.  In thread_server a
\* second one is started again and again, by a main that waits for nothing.
MCHandlers == [trigger \in {"level", "edge"} |-> IF trigger = "edge" THEN 2 ELSE 1]
=============================================================================
