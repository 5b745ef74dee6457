----------------------------- MODULE PoolServer -----------------------------
(***************************************************************************)
(* src/socket/multi_thread: an echo server on the C thread pool, composed  *)
(* of the pool as ThreadPool models it (the directory has its own copy of  *)
(* threadPool.c) and of the two task functions of server.c.                *)
(*                                                                         *)
(* The task acceptConn occupies one worker for as long as it accepts, and  *)
(* is a caller of the pool that runs it: while the ring is full it blocks  *)
(* in threadPoolAdd.  The task working serves one client until it leaves.  *)
(* A client is the number of its connection, and names its task.           *)
(***************************************************************************)
EXTENDS ThreadPool, SequencesExt

CONSTANTS NumClients,    \* bound: the clients that connect
          acceptConn,    \* the argument of the task acceptConn
          mainThread,    \* the caller that adds acceptConn
          acceptor       \* the caller inside acceptConn

Clients == 1..NumClients

ASSUME ServerAssumption ==
    /\ NumClients \in Nat /\ acceptConn \notin Clients
    /\ Tasks = Clients \union {acceptConn}
    /\ Callers = {mainThread, acceptor} /\ mainThread # acceptor

VARIABLES
    peer,       \* each client: "new", "open" or "left"
    backlog,    \* the connections that wait for accept
    pinfo,      \* the client acceptConn has accepted and not yet added
    listening   \* accept has not failed

server  == <<peer, backlog, pinfo, listening>>
allVars == <<vars, server>>

-----------------------------------------------------------------------------

ServerInit ==
    /\ Init
    /\ peer = [c \in Clients |-> "new"]
    /\ backlog = <<>> /\ pinfo = NoTask /\ listening = TRUE

-----------------------------------------------------------------------------
(* The pool, as the server's copy of threadPool.c has it *)

PoolCreate == CreateWorker
PoolManager == Manager
\* A worker outside the task functions.
PoolWorker(w) == Lock(w) \/ Wait(w) \/ Wake(w) \/ Start(w)
PoolExit(w) == ThreadExit(w)
\* A caller inside threadPoolAdd that found the ring full.
PoolAdd(c) == AddWait(c) \/ AddWake(c)

-----------------------------------------------------------------------------
(* server.c *)

\* main adds acceptConn and ends; the pool stays.
AddAcceptConn ==
    /\ Add(mainThread, acceptConn)
    /\ UNCHANGED server

\* The worker that is inside acceptConn.
Accepting == \E w \in Slots : pc[w] = "running" /\ task[w] = acceptConn

Accept ==
    /\ Accepting /\ listening
    /\ cpc[acceptor] = "idle" /\ pinfo = NoTask
    /\ backlog # <<>>
    /\ pinfo' = Head(backlog)
    /\ backlog' = Tail(backlog)
    /\ UNCHANGED <<vars, peer, listening>>

\* accept returns -1: acceptConn leaves its loop and closes the socket.
AcceptFails ==
    /\ Accepting /\ listening
    /\ cpc[acceptor] = "idle" /\ pinfo = NoTask
    /\ listening' = FALSE
    /\ UNCHANGED <<vars, peer, backlog, pinfo>>

\* acceptConn, a task, calls threadPoolAdd.
AddWorking ==
    /\ pinfo # NoTask
    /\ Add(acceptor, pinfo)
    /\ pinfo' = NoTask
    /\ UNCHANGED <<peer, backlog, listening>>

\* It goes on inside threadPoolAdd when the ring was full.
AddGoesOn ==
    /\ PoolAdd(acceptor) \/ SpuriousAddWake(acceptor)
    /\ UNCHANGED server

\* A task function returns: acceptConn after a failed accept, working when
\* recv has told it that its client has left, and after close.
Return(w) ==
    /\ task[w] = acceptConn => ~listening
    /\ task[w] \in Clients => peer[task[w]] = "left"
    /\ Finish(w)
    /\ UNCHANGED server

\* The clients.  The kernel refuses connections once the socket is closed.
Connect(c) ==
    /\ peer[c] = "new" /\ listening
    /\ \A b \in 1..(c - 1) : peer[b] # "new"
    /\ peer' = [peer EXCEPT ![c] = "open"]
    /\ backlog' = Append(backlog, c)
    /\ UNCHANGED <<vars, pinfo, listening>>

Leave(c) ==
    /\ peer[c] = "open"
    /\ peer' = [peer EXCEPT ![c] = "left"]
    /\ UNCHANGED <<vars, backlog, pinfo, listening>>

ServerNext ==
    \/ (PoolCreate \/ PoolManager) /\ UNCHANGED server
    \/ \E w \in Slots :
          \/ (PoolWorker(w) \/ SpuriousWake(w) \/ PoolExit(w)) /\ UNCHANGED server
          \/ Return(w)
    \/ AddAcceptConn \/ Accept \/ AcceptFails \/ AddWorking \/ AddGoesOn
    \/ \E c \in Clients : Connect(c) \/ Leave(c)

(***************************************************************************)
(* Fairness.  As in ThreadPool, every thread keeps running and gets the    *)
(* mutex in the end; the task functions go on as soon as they can.  There  *)
(* is none for clients, for a failing accept nor for a spurious wake-up.   *)
(***************************************************************************)
ServerFairness ==
    /\ WF_allVars(PoolCreate /\ UNCHANGED server)
    /\ SF_allVars(PoolManager /\ UNCHANGED server)
    /\ \A w \in Slots :
          /\ SF_allVars((PoolWorker(w) \/ PoolExit(w)) /\ UNCHANGED server)
          /\ WF_allVars(Return(w))
    /\ SF_allVars(AddAcceptConn)
    /\ WF_allVars(Accept)
    /\ SF_allVars(AddWorking)
    /\ SF_allVars(PoolAdd(acceptor) /\ UNCHANGED server)

ServerSpec == ServerInit /\ [][ServerNext]_allVars /\ ServerFairness

-----------------------------------------------------------------------------
(* Properties *)

\* The variables of the pool and of the server have their types.
ServerTypeOK ==
    /\ TypeOK
    /\ peer \in [Clients -> {"new", "open", "left"}]
    /\ backlog \in Seq(Clients)
    /\ pinfo \in Clients \union {NoTask}
    /\ listening \in BOOLEAN

\* The clients whose task no worker has taken.
Pending == ToSet(backlog) \union Queued \union ({pinfo, carg[acceptor]} \ {NoTask})

\* Clients are taken in the order they connected, through the backlog, the
\* variable of acceptConn, the blocked threadPoolAdd and the ring: no client
\* is served before one that came earlier.
TakenInOrder ==
    \A c, d \in Clients :
       (c < d /\ peer[d] # "new" /\ c \in Pending) => d \in Pending

Blocked == cpc[acceptor] \in {"addWait", "addWaiting", "addWoken"}

\* acceptConn blocks in its own pool while the ring is full, and resumes when
\* a client that is being served leaves: the worker that runs acceptConn is
\* not the one that has to make room.
AcceptorResumes ==
    (Blocked /\ \E w \in Slots : pc[w] = "running" /\ task[w] \in Clients
                                   /\ peer[task[w]] = "left") ~> ~Blocked
=============================================================================
