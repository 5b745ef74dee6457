--------------------------- MODULE MCFramedServer ---------------------------
(* An instance of the framing server for TLC. *)
EXTENDS FramedServer

CONSTANTS c1, c2, c3

\* Messages whose bytes could be taken for lengths; the other two clients
\* connect and leave.
MCText == [c \in Clients |-> CASE c = c1 -> <<<<1, 0>>, <<1>>>>
                               [] c \in {c2, c3} -> <<>>]
=============================================================================
