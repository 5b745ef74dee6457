---------------------------- MODULE FramedServer ----------------------------
(***************************************************************************)
(* src/SocketPackage: clients that send messages framed by their length,   *)
(* and the server that starts one thread for each connection.              *)
(*                                                                         *)
(* TCP keeps the order of the bytes and nothing else: one send may accept  *)
(* part of a frame, one recv may return the end of one message and never   *)
(* more than it asked for.  A byte is a digit of base Radix, so that the   *)
(* bytes of the length are really encoded, decoded, and cut short when a   *)
(* connection ends in the middle of them.                                  *)
(*                                                                         *)
(* A thread of the server is named by the client it was started for.  A    *)
(* descriptor is a number, given out again once it is closed.              *)
(***************************************************************************)
EXTENDS Integers, Sequences, SequencesExt, FiniteSetsExt

CONSTANTS Clients, NoClient,
          Text,          \* the messages each client has to send
          MaxClients,    \* the length of infos, 250 in the code
          Radix,         \* the number of values of a byte, 256 in the code
          HEADER         \* the bytes of the length, 4 in the code

Byte == 0..(Radix - 1)

\* What a byte weighs that has i bytes behind it.
Place[i \in 0..HEADER] == IF i = 0 THEN 1 ELSE Radix * Place[i - 1]

ASSUME FramedAssumption ==
    /\ IsFiniteSet(Clients) /\ NoClient \notin Clients
    /\ MaxClients \in Nat \ {0}
    /\ Radix \in Nat \ {0, 1}
    /\ HEADER \in Nat \ {0}
    /\ Text \in [Clients -> Seq(Seq(Byte))]
    /\ \A c \in Clients : \A i \in 1..Len(Text[c]) :
          Len(Text[c][i]) \in 1..(Place[HEADER] - 1)

Descriptors == 1..Cardinality(Clients)
Slots == 1..MaxClients

VARIABLES
    peer,      \* each client: "new", "open", "done" (closed after its last
               \* message), "gone" (closed or killed earlier), "reset"
    sent,      \* how many messages it has written completely
    out,       \* what writen still has to write of the frame it is sending
    net,       \* the bytes written and not received
    backlog,   \* the connections that wait for accept
    owner,     \* the client each open descriptor of the server belongs to
    infos,     \* the descriptor in each slot of the table, or -1
    pinfo,     \* the slot main looked up last
    phase,     \* where each thread is
    slot,      \* its argument, a slot of infos
    fd,        \* the descriptor recvMsg was called with
    len, buf,  \* the length recvMsg has decoded, and what readn has read
    got        \* history: the messages it has received

client == <<peer, sent, out>>
table  == <<backlog, owner, infos, pinfo, slot>>
thread == <<phase, fd, len, buf, got>>
vars   == <<client, net, table, thread>>

-----------------------------------------------------------------------------
(* The frame *)

\* htonl: the highest byte first.
Encode(n) == [i \in 1..HEADER |-> (n \div Place[HEADER - i]) % Radix]

\* ntohl of a length that was 0 and whose first bytes have been received: what
\* the first k of its bytes are worth, for each k.
Worth(bytes) ==
    LET worth[k \in 0..HEADER] ==
          IF k = 0 THEN 0
          ELSE Radix * worth[k - 1] + (IF k <= Len(bytes) THEN bytes[k] ELSE 0)
    IN  worth

Decode(bytes) == Worth(bytes)[HEADER]

Frame(msg) == Encode(Len(msg)) \o msg

Take(s, n) == SubSeq(s, 1, n)
Drop(s, n) == SubSeq(s, n + 1, Len(s))

-----------------------------------------------------------------------------

Init ==
    /\ peer = [c \in Clients |-> "new"]
    /\ sent = [c \in Clients |-> 0]
    /\ out  = [c \in Clients |-> <<>>]
    /\ net  = [c \in Clients |-> <<>>]
    /\ backlog = <<>>
    /\ owner = [d \in Descriptors |-> NoClient]
    /\ infos = [s \in Slots |-> -1]
    /\ pinfo = 1
    /\ phase = [c \in Clients |-> "none"]
    /\ slot = [c \in Clients |-> 1]
    /\ fd = [c \in Clients |-> -1]
    /\ len = [c \in Clients |-> 0]
    /\ buf = [c \in Clients |-> <<>>]
    /\ got = [c \in Clients |-> <<>>]

-----------------------------------------------------------------------------
(* The clients *)

Connect(c) ==
    /\ peer[c] = "new"
    /\ peer' = [peer EXCEPT ![c] = "open"]
    /\ backlog' = Append(backlog, c)
    /\ UNCHANGED <<sent, out, net, owner, infos, pinfo, slot, thread>>

\* One send of writen, which accepts some of the bytes that are left; the
\* first of a frame is sendMsg's.
Send(c) ==
    /\ peer[c] = "open"
    /\ sent[c] < Len(Text[c])
    /\ LET left == IF out[c] = <<>> THEN Frame(Text[c][sent[c] + 1]) ELSE out[c]
       IN  \E n \in 1..Len(left) :
              /\ net' = [net EXCEPT ![c] = @ \o Take(left, n)]
              /\ out' = [out EXCEPT ![c] = Drop(left, n)]
              /\ sent' = [sent EXCEPT ![c] = IF n = Len(left) THEN @ + 1 ELSE @]
    /\ UNCHANGED <<peer, table, thread>>

\* The client closes its socket, or ends earlier than it should have.
Close(c) ==
    /\ peer[c] = "open"
    /\ peer' = [peer EXCEPT ![c] =
                   IF sent[c] = Len(Text[c]) THEN "done" ELSE "gone"]
    /\ UNCHANGED <<sent, out, net, table, thread>>

\* The connection breaks: what has not been received is lost.
Reset(c) ==
    /\ peer[c] \in {"open", "done"}
    /\ peer' = [peer EXCEPT ![c] = "reset"]
    /\ net' = [net EXCEPT ![c] = <<>>]
    /\ UNCHANGED <<sent, out, table, thread>>

-----------------------------------------------------------------------------
(* main of the server *)

\* Fault: the loop stops one slot early.
FreeSlots_ButLast == {s \in 1..(MaxClients - 1) : infos[s] = -1}
FreeSlots == {s \in Slots : infos[s] = -1}

\* Fault: the thread cannot be created, and main goes on.
Accept_NoThread ==
    /\ backlog # <<>>
    /\ backlog' = Tail(backlog)
    /\ UNCHANGED <<client, net, owner, infos, pinfo, slot, thread>>
\* With every slot taken, pinfo is the slot of the round before.
Accept ==
    /\ backlog # <<>>
    /\ LET c == Head(backlog)
           d == Min({i \in Descriptors : owner[i] = NoClient})
           s == IF FreeSlots = {} THEN pinfo ELSE Min(FreeSlots)
       IN  /\ owner' = [owner EXCEPT ![d] = c]
           /\ infos' = [infos EXCEPT ![s] = d]
           /\ pinfo' = s
           /\ slot' = [slot EXCEPT ![c] = s]
           /\ phase' = [phase EXCEPT ![c] = "call"]
    /\ backlog' = Tail(backlog)
    /\ UNCHANGED <<client, net, fd, len, buf, got>>

-----------------------------------------------------------------------------
(* The thread of a client: recvMsg in a loop *)

\* working reads the descriptor from its slot for every message.
Call(t) ==
    /\ phase[t] = "call"
    /\ phase' = [phase EXCEPT ![t] = "header"]
    /\ fd' = [fd EXCEPT ![t] = infos[slot[t]]]
    /\ buf' = [buf EXCEPT ![t] = <<>>]
    /\ UNCHANGED <<client, net, table, len, got>>

Want(t) == IF phase[t] = "header" THEN HEADER ELSE len[t]

\* Fault: readn of the body starts behind what is left of the header.
HeaderRead_KeepsBuf(t, bytes) ==
    LET n == Decode(bytes)
    IN  /\ phase' = [phase EXCEPT ![t] = IF n = 0 THEN "ended" ELSE "body"]
        /\ len' = [len EXCEPT ![t] = n]
        /\ UNCHANGED <<buf, got>>
\* recvMsg does not look at the result of reading the length: it decodes what
\* has arrived.  A length of 0 ends the thread, which leaves its descriptor.
HeaderRead(t, bytes) ==
    LET n == Decode(bytes)
    IN  /\ phase' = [phase EXCEPT ![t] = IF n = 0 THEN "ended" ELSE "body"]
        /\ len' = [len EXCEPT ![t] = n]
        /\ buf' = [buf EXCEPT ![t] = <<>>]
        /\ UNCHANGED got

BodyRead(t, bytes) ==
    /\ phase' = [phase EXCEPT ![t] = "call"]
    /\ got' = [got EXCEPT ![t] = Append(@, bytes)]
    /\ buf' = [buf EXCEPT ![t] = <<>>]
    /\ UNCHANGED len

\* Fault: readn returns what the first recv has returned.
ReadOn_OneRecv(t, bytes) ==
    IF phase[t] = "header" THEN HeaderRead(t, bytes) ELSE BodyRead(t, bytes)
\* readn goes on until it has all the bytes it was asked for.
ReadOn(t, bytes) ==
    IF Len(bytes) < Want(t)
    THEN buf' = [buf EXCEPT ![t] = bytes] /\ UNCHANGED <<phase, len, got>>
    ELSE IF phase[t] = "header" THEN HeaderRead(t, bytes) ELSE BodyRead(t, bytes)

\* recv returns some of the bytes that have arrived.
Recv(t) ==
    /\ phase[t] \in {"header", "body"}
    /\ LET c == owner[fd[t]]
       IN  /\ c # NoClient
           /\ \E n \in 1..Min({Want(t) - Len(buf[t]), Len(net[c])}) :
                 /\ ReadOn(t, buf[t] \o Take(net[c], n))
                 /\ net' = [net EXCEPT ![c] = Drop(@, n)]
    /\ UNCHANGED <<client, table, fd>>

\* recv returns 0 at the end of the stream, or -1: readn returns early.
AtEnd(d) == owner[d] # NoClient =>
               \/ peer[owner[d]] = "reset"
               \/ net[owner[d]] = <<>> /\ peer[owner[d]] \in {"done", "gone"}

\* Fault: an end of the stream is taken for a recv to try again.
RecvFails_Retries(t) ==
    /\ phase[t] \in {"header", "body"} /\ AtEnd(fd[t])
    /\ UNCHANGED vars
\* A length cut short is decoded, a body cut short is an error.
RecvFails(t) ==
    /\ phase[t] \in {"header", "body"} /\ AtEnd(fd[t])
    /\ \/ phase[t] = "header" /\ HeaderRead(t, buf[t])
       \/ /\ phase[t] = "body"
          /\ phase' = [phase EXCEPT ![t] = "close"]
          /\ UNCHANGED <<len, buf, got>>
    /\ peer' = [c \in Clients |->
                   IF c = owner[fd[t]] /\ peer[c] = "reset" THEN "gone" ELSE peer[c]]
    /\ UNCHANGED <<sent, out, net, table, fd>>

\* recvMsg closes its descriptor by number, whoever has it by now; the client
\* at the other end, if it is still there, finds its connection broken.
CloseFd(t) ==
    /\ phase[t] = "close"
    /\ phase' = [phase EXCEPT ![t] = "ended"]
    /\ owner' = [owner EXCEPT ![fd[t]] = NoClient]
    /\ UNCHANGED <<client, net, backlog, infos, pinfo, slot, fd, len, buf, got>>

Thread(t) == Call(t) \/ Recv(t) \/ RecvFails(t) \/ CloseFd(t)

-----------------------------------------------------------------------------

Client(c) == Connect(c) \/ Send(c) \/ Close(c) \/ Reset(c)

Next == Accept \/ \E c \in Clients : Client(c) \/ Thread(c)

\* main and the threads keep running; a client need not do anything.
Fairness == WF_vars(Accept) /\ \A c \in Clients : WF_vars(Thread(c))

Spec == Init /\ [][Next]_vars /\ Fairness

-----------------------------------------------------------------------------
(* Properties *)

Phases == {"none", "call", "header", "body", "close", "ended"}

\* Every variable has its type; readn never holds more than it was asked for.
TypeOK ==
    /\ peer \in [Clients -> {"new", "open", "done", "gone", "reset"}]
    /\ \A c \in Clients : sent[c] \in 0..Len(Text[c])
    /\ out \in [Clients -> Seq(Byte)] /\ net \in [Clients -> Seq(Byte)]
    /\ backlog \in Seq(Clients)
    /\ owner \in [Descriptors -> Clients \union {NoClient}]
    /\ infos \in [Slots -> Descriptors \union {-1}] /\ pinfo \in Slots
    /\ phase \in [Clients -> Phases] /\ slot \in [Clients -> Slots]
    /\ fd \in [Clients -> Descriptors \union {-1}]
    /\ len \in [Clients -> 0..(Place[HEADER] - 1)]
    /\ \A t \in Clients :
          /\ buf[t] \in Seq(Byte) /\ got[t] \in Seq(Seq(Byte))
          /\ phase[t] \in {"header", "body"} => Len(buf[t]) < Want(t)

Accepted == {c \in Clients : phase[c] # "none"}

\* No other thread has the same slot of the table.
Private(c) == \A d \in Accepted \ {c} : slot[d] # slot[c]

\* A thread with a slot of its own receives its client's messages whole, in
\* order and once, and only those written completely: however the stream is
\* cut into sends and recvs, wherever it ends, and whatever threads that
\* share another slot close.
WholeMessages ==
    \A c \in Accepted : Private(c) => IsPrefix(got[c], Take(Text[c], sent[c]))

\* Two threads get the same slot only once the table has been full.
SlotPerClient ==
    (\E c \in Accepted : ~Private(c)) => Cardinality(Accepted) > MaxClients

\* What the server has received from each client is what the framing promises:
\* a message written completely, the next one of its client, per step; two
\* threads that have the same slot have no promise, and stay without.
Sharing == {c \in Accepted : ~Private(c)}
Channels == INSTANCE MessageChannels WITH apart <- Sharing
ImplementsChannels == Channels!Spec

\* A client that has sent everything and closed has had its messages received,
\* unless the connection breaks or main hands its slot to another thread.
AllDelivered ==
    \A c \in Clients :
       (peer[c] = "done")
          ~> (got[c] = Text[c] \/ peer[c] # "done" \/ (c \in Accepted /\ ~Private(c)))

\* Once every client has left, every thread ends.
ThreadsEnd ==
    (\A c \in Clients : peer[c] \in {"done", "gone", "reset"})
       ~> (Accepted \subseteq {t \in Clients : phase[t] = "ended"} /\ backlog = <<>>)
=============================================================================
