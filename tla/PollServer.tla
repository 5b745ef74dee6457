------------------------------ MODULE PollServer ------------------------------
(***************************************************************************)
(* The echo server on poll: src/IO_mulit_way/poll_server.c.  One thread,   *)
(* and an array fds whose first maxfd + 1 cells are given to poll, which   *)
(* ignores a cell with -1.  The code takes cell 0 for the listening        *)
(* socket.  The clients of this model connect and stay silent: what the    *)
(* code does with requests is never reached, see ConnectionAccepted.  A    *)
(* connection is named by its client.                                      *)
(***************************************************************************)
EXTENDS Integers, FiniteSets, FiniteSetsExt

CONSTANTS Clients, lfd, NoFd,
          Cells      \* the length of fds, 1024 in the code

VARIABLES
    fds,       \* the descriptor of each cell
    revents,   \* the cells that poll has reported last
    maxfd,
    pc,        \* "poll", or "loop" behind it
    backlog,   \* the clients that wait for accept
    arrived    \* the clients that have connected

vars == <<fds, revents, maxfd, pc, backlog, arrived>>

\* No statement puts lfd into fds.
Init ==
    /\ fds = [k \in 0..(Cells - 1) |-> NoFd]
    /\ revents = {} /\ maxfd = 0
    /\ pc = "poll"
    /\ backlog = {} /\ arrived = {}

Connect(c) ==
    /\ c \notin arrived
    /\ arrived' = arrived \union {c} /\ backlog' = backlog \union {c}
    /\ UNCHANGED <<fds, revents, maxfd, pc>>

\* poll blocks until a cell has something to report.
Poll ==
    /\ pc = "poll"
    /\ revents' = {k \in 0..maxfd : fds[k] = lfd /\ backlog # {}}
    /\ revents' # {}
    /\ pc' = "loop"
    /\ UNCHANGED <<fds, maxfd, backlog, arrived>>

\* A new connection goes to the first cell with -1, or to none.
Accept ==
    LET free == {k \in DOMAIN fds : fds[k] = NoFd}
        cell == IF free = {} THEN Cells ELSE Min(free)
    IN  /\ pc = "loop" /\ 0 \in revents
        /\ \E c \in backlog : /\ backlog' = backlog \ {c}
                              /\ fds' = [k \in DOMAIN fds |-> IF k = cell THEN c ELSE fds[k]]
        /\ maxfd' = IF cell > maxfd THEN cell ELSE maxfd
        /\ pc' = "poll"
        /\ UNCHANGED <<revents, arrived>>

Next == Poll \/ Accept \/ \E c \in Clients : Connect(c)

\* main goes on whenever poll or accept would return.
Spec == Init /\ [][Next]_vars /\ WF_vars(Poll \/ Accept)

\* The comments in the loop: a change is detected, there is a new connection,
\* and it is accepted.
ConnectionAccepted == \A c \in Clients : (c \in arrived) ~> (c \notin backlog)
=============================================================================
