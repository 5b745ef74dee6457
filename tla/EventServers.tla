---------------------------- MODULE EventServers ----------------------------
(***************************************************************************)
(* The echo servers of src/IO_mulit_way that wait for many descriptors at  *)
(* once.  Four programs, which differ in two ways:                         *)
(*                                                                         *)
(*                     handled by main    one thread for each event        *)
(*   level (select)    select_server      thread_server                    *)
(*   edge (epoll)      epoll_server       thread_epoll_server              *)
(*                                                                         *)
(* The handlers of a row have the same steps.  A handler is where it is    *)
(* and the descriptor it works on, so a number of handlers for each such   *)
(* pair says all: handled by main there is at most one.                    *)
(*                                                                         *)
(* A request is what one recv returns.  Requests are counted, not told     *)
(* apart.  Descriptors are numbers, and accept gives the lowest free one.  *)
(***************************************************************************)
EXTENDS Integers, Sequences, FiniteSets, FiniteSetsExt

CONSTANTS Clients, NoClient,
          Programs,      \* the programs considered
          Requests,      \* bound: how many requests each client sends
          MaxHandlers    \* bound: the handlers at work on one connection, for
                         \* each trigger

AllPrograms == [trigger : {"level", "edge"}, threaded : BOOLEAN]

ASSUME EventAssumption ==
    /\ IsFiniteSet(Clients) /\ NoClient \notin Clients
    /\ Programs \subseteq AllPrograms
    /\ Requests \in [Clients -> Nat] /\ MaxHandlers \in [{"level", "edge"} -> Nat \ {0}]

lfd == 0
Descriptors == 1..Cardinality(Clients)
Watchable == Descriptors \union {lfd}
Phases == {"accept", "add", "recv", "send", "resend", "clear", "close"}

VARIABLES
    program,   \* the program that runs
    alive,     \* its process has not ended
    peer,      \* each client: "new", "open", "left", "reset", or "gone" once
               \* the server has been told of the reset
    asked,     \* how many requests it has sent
    unread,    \* how many of them the server has not received
    backlog,   \* the connections that wait for accept
    owner,     \* the client each open descriptor belongs to
    watched,   \* rdset, or the descriptors added to epfd
    events,    \* the edges epoll has not reported
    mpc,       \* main is in select or epoll_wait ("wait") or behind it
    rdtemp,    \* main's copy of rdset, then what select or epoll_wait has
               \* reported and main has still to look at
    handlers   \* how many handlers there are at each phase and descriptor

clients == <<peer, asked>>
main    == <<mpc, rdtemp>>
vars    == <<program, alive, clients, unread, backlog, owner, watched, events,
             main, handlers>>

\* How many handlers are at phase p, working on d.
At(p, d) == handlers[<<p, d>>]

Level == program.trigger = "level"
Edge  == program.trigger = "edge"
Threaded == program.threaded

-----------------------------------------------------------------------------
(* What the kernel reports *)

Hangup(d) == owner[d] # NoClient /\ peer[owner[d]] # "open"

\* A recv on d, or an accept on lfd, would not block.
Ready(d) == IF d = lfd THEN backlog # <<>>
            ELSE owner[d] # NoClient /\ (unread[owner[d]] > 0 \/ Hangup(d))

\* An edge on the connection of c, if epoll watches its descriptor.
EdgeOf(c) == {d \in watched \ {lfd} : owner[d] = c}
RaiseEdge(edges) == events' = IF Edge THEN events \union edges ELSE events

-----------------------------------------------------------------------------

Init ==
    /\ program \in Programs
    /\ alive = TRUE
    /\ peer = [c \in Clients |-> "new"]
    /\ asked = [c \in Clients |-> 0] /\ unread = [c \in Clients |-> 0]
    /\ backlog = <<>>
    /\ owner = [d \in Descriptors |-> NoClient]
    /\ watched = {lfd} /\ events = {}
    /\ mpc = "wait" /\ rdtemp = IF Level THEN {lfd} ELSE {}
    /\ handlers = [h \in Phases \X Watchable |-> 0]

-----------------------------------------------------------------------------
(* The clients *)

Connect(c) ==
    /\ peer[c] = "new"
    /\ peer' = [peer EXCEPT ![c] = "open"]
    /\ backlog' = Append(backlog, c)
    /\ RaiseEdge({lfd})
    /\ UNCHANGED <<program, alive, asked, unread, owner, watched, main, handlers>>

Ask(c) ==
    /\ peer[c] = "open" /\ asked[c] < Requests[c]
    /\ asked' = [asked EXCEPT ![c] = @ + 1]
    /\ unread' = [unread EXCEPT ![c] = @ + 1]
    /\ RaiseEdge(EdgeOf(c))
    /\ UNCHANGED <<program, alive, peer, backlog, owner, watched, main, handlers>>

Leave(c) ==
    /\ peer[c] = "open"
    /\ peer' = [peer EXCEPT ![c] = "left"]
    /\ RaiseEdge(EdgeOf(c))
    /\ UNCHANGED <<program, alive, asked, unread, backlog, owner, watched, main, handlers>>

\* The connection breaks, for instance because an answer reaches a closed
\* socket: the server loses what it has not received.
Reset(c) ==
    /\ peer[c] \in {"open", "left"} /\ \E d \in Descriptors : owner[d] = c
    /\ peer' = [peer EXCEPT ![c] = "reset"]
    /\ unread' = [unread EXCEPT ![c] = 0]
    /\ RaiseEdge(EdgeOf(c))
    /\ UNCHANGED <<program, alive, asked, backlog, owner, watched, main, handlers>>

-----------------------------------------------------------------------------
(* main: wait for events, then hand each one to a handler *)

Idle == \A h \in DOMAIN handlers : handlers[h] = 0

\* Fault: select is given rdset itself and overwrites it.
Select_InPlace ==
    LET set == {d \in rdtemp : Ready(d)}
    IN  /\ mpc = "wait" /\ Level
        /\ set # {}
        /\ rdtemp' = set /\ watched' = set
        /\ mpc' = "dispatch"
        /\ UNCHANGED <<program, alive, clients, unread, backlog, owner, events, handlers>>
\* select leaves in the copy what is ready.  If a descriptor of the copy is
\* closed it fails and leaves all of it; main does not look at the result.
Select ==
    LET bad == \E d \in rdtemp \ {lfd} : owner[d] = NoClient
        set == {d \in rdtemp : bad \/ Ready(d)}
    IN  /\ mpc = "wait" /\ Level
        /\ set # {}
        /\ rdtemp' = set
        /\ mpc' = "dispatch"
        /\ UNCHANGED <<program, alive, clients, unread, backlog, owner, watched, events, handlers>>

\* Fault: the descriptors are added with EPOLLIN alone.
EpollWait_Level ==
    LET set == {d \in watched : Ready(d)}
    IN  /\ mpc = "wait" /\ Edge
        /\ set # {}
        /\ rdtemp' = set
        /\ mpc' = "dispatch"
        /\ UNCHANGED <<program, alive, clients, unread, backlog, owner, watched, events, handlers>>
\* epoll_wait reports an edge once, if its descriptor is still ready.
EpollWait ==
    LET set == {d \in events : Ready(d)}
    IN  /\ mpc = "wait" /\ Edge
        /\ set # {}
        /\ rdtemp' = set
        /\ events' = {}
        /\ mpc' = "dispatch"
        /\ UNCHANGED <<program, alive, clients, unread, backlog, owner, watched, handlers>>

\* The handlers that will still use d; one more would do what they do.
AtWork(d) == At("recv", d) + At("send", d)
               + At("clear", d) + At("close", d)

\* The handler of d begins: a call, or a new thread.
Dispatch(d) ==
    /\ mpc = "dispatch" /\ d \in rdtemp
    /\ Level => d = Min(rdtemp)
    /\ Threaded \/ Idle
    /\ LET h == <<IF d = lfd THEN "accept" ELSE "recv", d>>
           enough == IF d = lfd THEN handlers[h] >= Cardinality(Clients)
                                ELSE AtWork(d) >= MaxHandlers[program.trigger]
       IN  handlers' = IF enough THEN handlers ELSE [handlers EXCEPT ![h] = @ + 1]
    /\ rdtemp' = rdtemp \ {d}
    /\ UNCHANGED <<program, alive, clients, unread, backlog, owner, watched, events, mpc>>

\* Back at the top of the loop: main copies rdset, in the threaded program
\* with the mutex held.
Copy ==
    /\ mpc = "dispatch" /\ rdtemp = {}
    /\ Threaded \/ Idle
    /\ mpc' = "wait"
    /\ rdtemp' = IF Level THEN watched ELSE {}
    /\ UNCHANGED <<program, alive, clients, unread, backlog, owner, watched, events, handlers>>

Main == Select \/ EpollWait \/ Copy \/ \E d \in Watchable : Dispatch(d)

-----------------------------------------------------------------------------
(* The handlers: acceptConn and communication, or the same code in main *)

Goes(p, d, q, e) == handlers' = [handlers EXCEPT ![<<p, d>>] = @ - 1, ![<<q, e>>] = @ + 1]
Ends(p, d)       == handlers' = [handlers EXCEPT ![<<p, d>>] = @ - 1]

\* One accept for an event, however many connections wait.
Accept ==
    /\ At("accept", lfd) > 0 /\ backlog # <<>>
    /\ LET d == Min({e \in Descriptors : owner[e] = NoClient})
       IN  /\ owner' = [owner EXCEPT ![d] = Head(backlog)]
           /\ Goes("accept", lfd, "add", d)
    /\ backlog' = Tail(backlog)
    /\ UNCHANGED <<program, alive, clients, unread, watched, events, main>>

\* FD_SET, or EPOLL_CTL_ADD, which raises an edge if the descriptor is ready,
\* and fails if another thread has closed the number, or added it, by now.
Add(d) ==
    /\ At("add", d) > 0
    /\ Ends("add", d)
    /\ LET added == IF Edge THEN {e \in {d} \ watched : owner[e] # NoClient} ELSE {d}
       IN  /\ watched' = watched \union added
           /\ RaiseEdge({e \in added : Ready(e)})
    /\ UNCHANGED <<program, alive, clients, unread, backlog, owner, main>>

\* What recv does, by what it returns.

\* Fault: the result of recv is taken for a request without a look at it.
RecvSome_Unchecked(d) ==
    /\ owner[d] # NoClient
    /\ Goes("recv", d, "send", d)
    /\ unread' = [unread EXCEPT ![owner[d]] = @ - 1]
    /\ UNCHANGED <<alive, peer>>
RecvSome(d) ==
    /\ owner[d] # NoClient
    /\ unread[owner[d]] > 0
    /\ Goes("recv", d, "send", d)
    /\ unread' = [unread EXCEPT ![owner[d]] = @ - 1]
    /\ UNCHANGED <<alive, peer>>

\* Fault: the end of the connection is handled like an error.
RecvEnd_AsError(d) ==
    /\ owner[d] # NoClient
    /\ unread[owner[d]] = 0 /\ peer[owner[d]] \in {"left", "gone"}
    /\ Ends("recv", d)
    /\ UNCHANGED <<alive, peer, unread>>
RecvEnd(d) ==
    /\ owner[d] # NoClient
    /\ unread[owner[d]] = 0 /\ peer[owner[d]] \in {"left", "gone"}
    /\ Goes("recv", d, "clear", d)
    /\ UNCHANGED <<alive, peer, unread>>

\* Fault: EAGAIN is taken for the end of the connection.
RecvAgain_AsEnd(d) ==
    /\ Edge /\ owner[d] # NoClient
    /\ unread[owner[d]] = 0 /\ peer[owner[d]] = "open"
    /\ Goes("recv", d, "clear", d)
    /\ UNCHANGED <<alive, peer, unread>>
\* Only the sockets of the epoll programs do not block.
RecvAgain(d) ==
    /\ Edge /\ owner[d] # NoClient
    /\ unread[owner[d]] = 0 /\ peer[owner[d]] = "open"
    /\ IF Threaded THEN Goes("recv", d, "resend", d) ELSE Ends("recv", d)
    /\ UNCHANGED <<alive, peer, unread>>

\* An error is printed and the descriptor stays as it is; epoll_server exits.
RecvError(d) ==
    /\ owner[d] # NoClient => peer[owner[d]] = "reset"
    /\ Ends("recv", d)
    /\ alive' = (Level \/ Threaded)
    /\ peer' = [c \in Clients |-> IF c = owner[d] THEN "gone" ELSE peer[c]]
    /\ UNCHANGED unread

Recv(d) ==
    /\ At("recv", d) > 0
    /\ RecvSome(d) \/ RecvEnd(d) \/ RecvAgain(d) \/ RecvError(d)
    /\ UNCHANGED <<program, asked, backlog, owner, watched, events, main>>

\* Fault: the handler of an edge receives only once.
AfterSend_OneRecv(d) == Ends("send", d)
\* The handler of an edge receives until recv would block.
AfterSend(d) == IF Level THEN Ends("send", d) ELSE Goes("send", d, "recv", d)

\* A send on d fails.
Broken(d) == owner[d] # NoClient => peer[owner[d]] \in {"reset", "gone"}

\* The answer.  On a broken connection SIGPIPE may end the process, and
\* select_server returns from main.
Send(d) ==
    /\ At("send", d) > 0
    /\ AfterSend(d)
    /\ alive' \in IF ~Broken(d) THEN {TRUE}
                  ELSE IF Level /\ ~Threaded THEN {FALSE} ELSE BOOLEAN
    /\ UNCHANGED <<program, clients, unread, backlog, owner, watched, events, main>>

\* thread_epoll_server answers everything once more at the end.
Resend(d) ==
    /\ At("resend", d) > 0
    /\ Ends("resend", d)
    /\ alive' \in IF Broken(d) THEN BOOLEAN ELSE {TRUE}
    /\ UNCHANGED <<program, clients, unread, backlog, owner, watched, events, main>>

\* Fault: the descriptor is closed but stays in the set.
Clear_Missing(d) ==
    /\ At("clear", d) > 0
    /\ Goes("clear", d, "close", d)
    /\ UNCHANGED <<program, alive, clients, unread, backlog, owner, watched, events, main>>
\* FD_CLR or EPOLL_CTL_DEL: by number, whoever has the descriptor by now.
Clear(d) ==
    /\ At("clear", d) > 0
    /\ Goes("clear", d, "close", d)
    /\ watched' = watched \ {d} /\ events' = events \ {d}
    /\ UNCHANGED <<program, alive, clients, unread, backlog, owner, main>>

\* close takes the descriptor out of epoll, but not out of rdset.
Close(d) ==
    /\ At("close", d) > 0
    /\ Ends("close", d)
    /\ owner' = [owner EXCEPT ![d] = NoClient]
    /\ watched' = IF Edge THEN watched \ {d} ELSE watched
    /\ events' = events \ {d}
    /\ UNCHANGED <<program, alive, clients, unread, backlog, main>>

Handler(d) == Add(d) \/ Recv(d) \/ Send(d) \/ Resend(d) \/ Clear(d) \/ Close(d)

-----------------------------------------------------------------------------

Next ==
    /\ alive
    /\ \/ Main \/ Accept
       \/ \E d \in Descriptors : Handler(d)
       \/ \E c \in Clients : Connect(c) \/ Ask(c) \/ Leave(c) \/ Reset(c)

\* main and every thread keep running; a client need not do anything.
Fairness ==
    /\ WF_vars(alive /\ Main)
    /\ WF_vars(alive /\ Accept)
    /\ \A d \in Descriptors :
          /\ WF_vars(alive /\ Add(d)) /\ WF_vars(alive /\ Recv(d))
          /\ WF_vars(alive /\ Send(d)) /\ WF_vars(alive /\ Resend(d))
          /\ WF_vars(alive /\ Clear(d)) /\ WF_vars(alive /\ Close(d))

Spec == Init /\ [][Next]_vars /\ Fairness

-----------------------------------------------------------------------------
(* Properties *)

\* Every variable has its type.
TypeOK ==
    /\ program \in AllPrograms /\ alive \in BOOLEAN
    /\ peer \in [Clients -> {"new", "open", "left", "reset", "gone"}]
    /\ \A c \in Clients : asked[c] \in 0..Requests[c] /\ unread[c] \in 0..asked[c]
    /\ backlog \in Seq(Clients)
    /\ owner \in [Descriptors -> Clients \union {NoClient}]
    /\ {watched, events, rdtemp} \subseteq SUBSET Watchable
    /\ mpc \in {"wait", "dispatch"}
    /\ handlers \in [Phases \X Watchable -> Nat]

\* An accept never blocks: each one that was dispatched has a connection
\* waiting for it, so that main never hangs in accept, and thread_epoll_server
\* keeps no thread there.  (thread_server does: its main waits again before
\* the thread has accepted.)
AcceptNeverBlocks ==
    (Edge \/ ~Threaded) => At("accept", lfd) <= Len(backlog)

\* Between two events a server without threads watches exactly the connections
\* it has open: none is left without being watched, none watched after close.
WatchExact ==
    (~Threaded /\ Idle) => watched \ {lfd} = {d \in Descriptors : owner[d] # NoClient}

\* A server without threads closes a connection only after its client left.
\* (With threads two handlers may see the end of one connection, and the later
\* close may hit the next client's.)
ClosesOnlyLeft ==
    [][~Threaded => \A d \in Descriptors :
          (owner[d] # NoClient /\ owner'[d] = NoClient) => Hangup(d)]_vars

\* The programs that use select accept every connection that waits.  (Those
\* that use epoll take one connection for an edge and may leave the next.)
LevelAccepts ==
    \A c \in Clients :
       (Level /\ \E i \in 1..Len(backlog) : backlog[i] = c)
          ~> (~alive \/ \A i \in 1..Len(backlog) : backlog[i] # c)

\* main waits for the descriptor: it is watched, and in the set select has.
Attended(d) == d \in watched /\ ((Level /\ mpc = "wait") => d \in rdtemp)

Departed == \E c \in Clients : peer[c] \notin {"new", "open"}

\* Every request on a descriptor that main waits for is received, as long as
\* no client leaves: an edge reported once is enough, and threads that take
\* each other's requests lose none.  (In thread_server a new descriptor may
\* stay out of the set that select was given.)
RequestsReceived ==
    \A d \in Descriptors :
       (Attended(d) /\ owner[d] # NoClient /\ Ready(d)) ~> (Departed \/ ~Ready(d) \/ ~alive)

\* Something waits on d, and it is not just the end of a connection that some
\* handler has been told is broken: those are left as they are.
Awaits(d) == Ready(d) /\ peer[owner[d]] # "gone"

\* Somebody will still look at d, or close it: epoll has its edge, main has it to
\* dispatch, or a handler has not come to the end of it.
Minded(d) == \/ d \in events \union rdtemp
             \/ \E p \in {"recv", "send", "clear", "close"} : At(p, d) > 0

\* No edge is lost in the programs that use epoll.  It is reported once, while
\* requests, ends and resets come at any time and, in thread_epoll_server, other
\* threads receive from the descriptor, close it, and accept the next client with
\* its number; and yet whatever waits on a watched descriptor is minded.
NoEdgeLost ==
    Edge /\ alive => \A d \in watched \ {lfd} : Awaits(d) => Minded(d)

\* A server without threads gives back the descriptor of each client that
\* leaves, unless it exits.
LeftIsClosed ==
    \A d \in Descriptors :
       (~Threaded /\ Hangup(d)) ~> (owner[d] = NoClient \/ ~alive)
=============================================================================
