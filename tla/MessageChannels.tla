--------------------------- MODULE MessageChannels ---------------------------
(***************************************************************************)
(* What the framing of src/SocketPackage promises to the two ends of a     *)
(* connection, whatever TCP does to the bytes: the server receives the     *)
(* messages a client has written completely, each once and in their order. *)
(* It promises nothing to a client whose slot main has given to another.   *)
(* FramedServer is shown to implement this module.                         *)
(***************************************************************************)
EXTENDS Naturals, Sequences

CONSTANTS Clients,
          Text       \* the messages each client has to send

VARIABLES sent,      \* how many messages each client has written
          got,       \* the messages the server has received from it
          apart      \* the clients whose slot another one has been given, too

vars == <<sent, got, apart>>

Init == /\ sent = [c \in Clients |-> 0]
        /\ got  = [c \in Clients |-> <<>>]
        /\ apart = {}

Write(c) == /\ sent[c] < Len(Text[c])
            /\ sent' = [sent EXCEPT ![c] = @ + 1]
            /\ UNCHANGED <<got, apart>>

Receive(c) == /\ c \notin apart
              /\ Len(got[c]) < sent[c]
              /\ got' = [got EXCEPT ![c] = Append(@, Text[c][Len(@) + 1])]
              /\ UNCHANGED <<sent, apart>>

\* Another client is given the slot of one, which is then lost for both.
Share == /\ apart \subseteq apart' /\ apart' \subseteq Clients
         /\ UNCHANGED <<sent, got>>

\* A thread that shares its slot receives a message after the other, of anyone.
Astray(c) == /\ c \in apart
             /\ Len(got'[c]) = Len(got[c]) + 1
             /\ \A d \in Clients \ {c} : got'[d] = got[d]
             /\ UNCHANGED <<sent, apart>>

Next == Share \/ \E c \in Clients : Write(c) \/ Receive(c) \/ Astray(c)

Spec == Init /\ [][Next]_vars
=============================================================================
