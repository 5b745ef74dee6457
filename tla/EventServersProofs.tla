------------------------- MODULE EventServersProofs -------------------------
(***************************************************************************)
(* What holds of the multiplexing servers for any number of clients,       *)
(* requests and handlers.                                                  *)
(***************************************************************************)
EXTENDS EventServers, FiniteSetTheorems, SequenceTheorems, WellFoundedInduction, TLAPS

\* accept gives the lowest number of those that are free.
LEMMA MinOfNaturals ==
  ASSUME NEW T \in SUBSET Nat, T # {}
  PROVE  Min(T) \in T
<1>1. PICK x \in T : \A y \in T : <<y, x>> \notin OpToRel(<, Nat)
  BY NatLessThanWellFounded, WFMin
<1>2. \A y \in T : ~ (y < x)
  BY <1>1 DEF OpToRel
<1>3. \A y \in T : x =< y
  BY <1>2
<1> QED
  BY <1>3 DEF Min

\* There are as many descriptors as clients, and none of them is lfd.
LEMMA DescriptorsFinite ==
  /\ Descriptors \subseteq Nat /\ lfd \notin Descriptors
  /\ IsFiniteSet(Descriptors) /\ Cardinality(Descriptors) = Cardinality(Clients)
<1>1. Cardinality(Clients) \in Nat
  BY EventAssumption, FS_CardinalityType
<1> QED
  BY <1>1, FS_Interval DEF Descriptors, lfd

-----------------------------------------------------------------------------
(* Types *)

HandlersType == handlers \in [Phases \X Watchable -> Nat]

TypeInv ==
    /\ program \in AllPrograms /\ alive \in BOOLEAN
    /\ peer \in [Clients -> {"new", "open", "left", "reset", "gone"}]
    /\ asked \in [Clients -> Nat] /\ unread \in [Clients -> Nat]
    /\ \A c \in Clients : asked[c] <= Requests[c] /\ unread[c] <= asked[c]
    /\ backlog \in Seq(Clients)
    /\ owner \in [Descriptors -> Clients \union {NoClient}]
    /\ watched \subseteq Watchable /\ events \subseteq Watchable /\ rdtemp \subseteq Watchable
    /\ mpc \in {"wait", "dispatch"}
    /\ HandlersType

\* A client waits for accept at most once, and has then no descriptor; nor has
\* it more than one later.
OwnerInv ==
    /\ \A i \in 1..Len(backlog) : /\ peer[backlog[i]] # "new"
                                  /\ \A d \in Descriptors : owner[d] # backlog[i]
    /\ \A i, j \in 1..Len(backlog) : backlog[i] = backlog[j] => i = j
    /\ \A d \in Descriptors : owner[d] # NoClient => peer[owner[d]] # "new"
    /\ \A d, e \in Descriptors : owner[d] # NoClient /\ owner[d] = owner[e] => d = e

\* A handler goes from one place to another.
LEMMA GoesEffect ==
  ASSUME HandlersType, NEW p \in Phases, NEW q \in Phases, NEW d \in Watchable, NEW e \in Watchable,
         <<p, d>> # <<q, e>>, At(p, d) > 0, Goes(p, d, q, e)
  PROVE  /\ HandlersType'
         /\ At(p, d)' = At(p, d) - 1
         /\ At(q, e)' = At(q, e) + 1
         /\ \A r \in Phases, f \in Watchable :
               <<r, f>> # <<p, d>> /\ <<r, f>> # <<q, e>> => At(r, f)' = At(r, f)
<1> DEFINE x == <<p, d>>
           y == <<q, e>>
           S == Phases \X Watchable
<1>1. x \in S /\ y \in S /\ x # y
  OBVIOUS
<1>2. handlers \in [S -> Nat] /\ handlers[x] > 0
  BY DEF HandlersType, At
<1>3. handlers' = [handlers EXCEPT ![x] = @ - 1, ![y] = @ + 1]
  BY DEF Goes
<1>4. \A r \in Phases, f \in Watchable : <<r, f>> \in S
  OBVIOUS
<1> HIDE DEF x, y, S
<1>5. /\ handlers' \in [S -> Nat]
      /\ handlers'[x] = handlers[x] - 1 /\ handlers'[y] = handlers[y] + 1
      /\ \A z \in S : z # x /\ z # y => handlers'[z] = handlers[z]
  BY <1>1, <1>2, <1>3
<1>6. HandlersType'
  BY <1>5 DEF HandlersType, S
<1> QED
  BY <1>4, <1>5, <1>6 DEF x, y, At

\* A handler ends.
LEMMA EndsEffect ==
  ASSUME HandlersType, NEW p \in Phases, NEW d \in Watchable, At(p, d) > 0, Ends(p, d)
  PROVE  /\ HandlersType'
         /\ At(p, d)' = At(p, d) - 1
         /\ \A r \in Phases, f \in Watchable :
               <<r, f>> # <<p, d>> => At(r, f)' = At(r, f)
<1> DEFINE x == <<p, d>>
           S == Phases \X Watchable
<1>1. x \in S
  OBVIOUS
<1>2. handlers \in [S -> Nat] /\ handlers[x] > 0
  BY DEF HandlersType, At
<1>3. handlers' = [handlers EXCEPT ![x] = @ - 1]
  BY DEF Ends
<1>4. \A r \in Phases, f \in Watchable : <<r, f>> \in S
  OBVIOUS
<1> HIDE DEF x, S
<1>5. /\ handlers' \in [S -> Nat]
      /\ handlers'[x] = handlers[x] - 1
      /\ \A z \in S : z # x => handlers'[z] = handlers[z]
  BY <1>1, <1>2, <1>3
<1>6. HandlersType'
  BY <1>5 DEF HandlersType, S
<1> QED
  BY <1>4, <1>5, <1>6 DEF x, At

\* The servers start without a client, an event or a handler.
LEMMA EventsInit == Init => TypeInv /\ OwnerInv
<1> SUFFICES ASSUME Init PROVE TypeInv /\ OwnerInv
  OBVIOUS
<1>1. backlog = <<>> /\ backlog \in Seq(Clients) /\ Len(backlog) = 0
  BY DEF Init
<1>2. Requests \in [Clients -> Nat]
  BY EventAssumption
<1>3. TypeInv
  BY <1>1, <1>2, EventAssumption DEF Init, TypeInv, HandlersType, Watchable
<1>4. OwnerInv
  BY <1>1 DEF Init, OwnerInv
<1> QED
  BY <1>3, <1>4

\* Accepting finds a free descriptor, since a client that waits has none.
LEMMA DescriptorFree ==
  ASSUME TypeInv, OwnerInv, backlog # <<>>
  PROVE  Min({e \in Descriptors : owner[e] = NoClient}) \in {e \in Descriptors : owner[e] = NoClient}
<1> DEFINE Free == {e \in Descriptors : owner[e] = NoClient}
           Others == Clients \ {Head(backlog)}
<1>1. Head(backlog) \in Clients /\ Head(backlog) = backlog[1] /\ 1 \in 1..Len(backlog)
  BY DEF TypeInv
<1>2. IsFiniteSet(Others) /\ Cardinality(Others) = Cardinality(Clients) - 1
  BY <1>1, EventAssumption, FS_RemoveElement
<1>3. Cardinality(Clients) \in Nat
  BY EventAssumption, FS_CardinalityType
<1>4. Free # {}
  <2> SUFFICES ASSUME Free = {} PROVE FALSE
    OBVIOUS
  <2>1. \A d \in Descriptors : owner[d] # NoClient /\ owner[d] \in Clients
    BY DEF TypeInv
  <2>2. \A d \in Descriptors : owner[d] # Head(backlog)
    BY <1>1 DEF OwnerInv
  <2>3. owner \in [Descriptors -> Others]
    BY <2>1, <2>2 DEF TypeInv
  <2>4. Cardinality(Others) < Cardinality(Descriptors)
    BY <1>2, <1>3, DescriptorsFinite
  <2>5. \E d, e \in Descriptors : d # e /\ owner[d] = owner[e]
    BY <1>2, <2>3, <2>4, DescriptorsFinite, FS_PigeonHole
  <2> QED
    BY <2>1, <2>5 DEF OwnerInv
<1>5. Free \in SUBSET Nat
  BY DescriptorsFinite
<1> QED
  BY <1>4, <1>5, MinOfNaturals

\* The head of the backlog gets a descriptor of its own.
LEMMA AcceptEffect ==
  ASSUME TypeInv, OwnerInv, Accept
  PROVE  \E d \in Descriptors :
            /\ owner[d] = NoClient /\ owner' = [owner EXCEPT ![d] = backlog[1]]
            /\ Goes("accept", lfd, "add", d)
            /\ backlog[1] \in Clients /\ backlog' \in Seq(Clients)
            /\ Len(backlog) \in Nat \ {0} /\ Len(backlog') = Len(backlog) - 1
            /\ \A i \in 1..Len(backlog') : backlog'[i] = backlog[i + 1] /\ i + 1 \in 2..Len(backlog)
<1>1. backlog # <<>> /\ backlog' = Tail(backlog)
  BY DEF Accept
<1>2. /\ Head(backlog) = backlog[1] /\ Head(backlog) \in Clients
      /\ backlog' \in Seq(Clients) /\ Len(backlog') = Len(backlog) - 1
      /\ \A i \in 1..Len(backlog') : backlog'[i] = backlog[i + 1]
      /\ Len(backlog) \in Nat \ {0}
  BY <1>1, HeadTailProperties, EmptySeq DEF TypeInv
<1> DEFINE lowest == Min({e \in Descriptors : owner[e] = NoClient})
<1>4. lowest \in Descriptors /\ owner[lowest] = NoClient
  BY <1>1, DescriptorFree
<1>5. owner' = [owner EXCEPT ![lowest] = backlog[1]] /\ Goes("accept", lfd, "add", lowest)
  BY <1>2 DEF Accept
<1>6. \A i \in 1..Len(backlog') : i + 1 \in 2..Len(backlog)
  BY <1>2
<1> HIDE DEF lowest
<1> QED
  BY <1>2, <1>4, <1>5, <1>6

\* The clients' steps.
LEMMA ClientKeepsTypes ==
  ASSUME TypeInv, OwnerInv, NEW c \in Clients, Connect(c) \/ Ask(c) \/ Leave(c) \/ Reset(c)
  PROVE  TypeInv' /\ OwnerInv'
<1>1. Requests \in [Clients -> Nat]
  BY EventAssumption
<1>2. EdgeOf(c) \subseteq Watchable
  BY DEF TypeInv, EdgeOf
<1>3. events' \subseteq Watchable
  BY <1>2 DEF TypeInv, Connect, Ask, Leave, Reset, RaiseEdge, Watchable
<1>4. UNCHANGED <<program, alive, owner, watched, main, handlers>>
  BY DEF Connect, Ask, Leave, Reset
<1>5. CASE Connect(c)
  <2>1. peer[c] = "new" /\ peer' = [peer EXCEPT ![c] = "open"] /\ UNCHANGED <<asked, unread>>
    BY <1>5 DEF Connect
  <2>2. /\ backlog' \in Seq(Clients) /\ Len(backlog') = Len(backlog) + 1 /\ Len(backlog) \in Nat
        /\ \A i \in 1..Len(backlog) : backlog'[i] = backlog[i]
        /\ backlog'[Len(backlog) + 1] = c
    BY <1>5, AppendProperties DEF TypeInv, Connect
  <2>3. \A i \in 1..Len(backlog') : i \in 1..Len(backlog) \/ i = Len(backlog) + 1
    BY <2>2
  <2>4. \A i \in 1..Len(backlog) : backlog[i] # c /\ backlog[i] \in Clients
    BY <2>1, ElementOfSeq DEF TypeInv, OwnerInv
  <2>5. \A d \in Descriptors : owner[d] # c
    BY <2>1, EventAssumption DEF TypeInv, OwnerInv
  <2>6. TypeInv'
    BY <1>1, <1>3, <1>4, <2>1, <2>2 DEF TypeInv, HandlersType, main
  <2>7. \A i \in 1..Len(backlog') : /\ peer'[backlog'[i]] # "new"
                                    /\ \A d \in Descriptors : owner'[d] # backlog'[i]
    <3>1. \A i \in 1..Len(backlog) : /\ peer'[backlog[i]] # "new"
                                     /\ \A d \in Descriptors : owner'[d] # backlog[i]
      BY <1>4, <2>1, <2>4 DEF TypeInv, OwnerInv
    <3>2. peer'[c] # "new" /\ \A d \in Descriptors : owner'[d] # c
      BY <1>4, <2>1, <2>5 DEF TypeInv
    <3> QED
      BY <2>2, <2>3, <3>1, <3>2
  <2>8. \A i, j \in 1..Len(backlog') : backlog'[i] = backlog'[j] => i = j
    BY <2>2, <2>3, <2>4 DEF OwnerInv
  <2>9. \A d \in Descriptors : owner'[d] # NoClient => peer'[owner'[d]] # "new"
    BY <1>4, <2>1, <2>5 DEF TypeInv, OwnerInv
  <2> QED
    BY <1>4, <2>6, <2>7, <2>8, <2>9 DEF OwnerInv
<1>6. CASE Ask(c) \/ Leave(c) \/ Reset(c)
  <2>1. backlog' = backlog
    BY <1>6 DEF Ask, Leave, Reset
  <2>2. /\ peer' \in [Clients -> {"new", "open", "left", "reset", "gone"}]
        /\ \A b \in Clients : peer'[b] = "new" <=> peer[b] = "new"
    BY <1>6 DEF TypeInv, Ask, Leave, Reset
  <2>3. /\ asked' \in [Clients -> Nat] /\ unread' \in [Clients -> Nat]
        /\ \A b \in Clients : asked'[b] <= Requests[b] /\ unread'[b] <= asked'[b]
    <3>1. CASE Ask(c)
      <4>1. /\ asked[c] < Requests[c]
            /\ asked' = [asked EXCEPT ![c] = @ + 1] /\ unread' = [unread EXCEPT ![c] = @ + 1]
        BY <3>1 DEF Ask
      <4> QED
        BY <1>1, <4>1 DEF TypeInv
    <3>2. CASE Leave(c)
      BY <3>2 DEF TypeInv, Leave
    <3>3. CASE Reset(c)
      BY <3>3 DEF TypeInv, Reset
    <3> QED
      BY <1>6, <3>1, <3>2, <3>3
  <2>4. TypeInv'
    BY <1>3, <1>4, <2>1, <2>2, <2>3 DEF TypeInv, HandlersType, main
  <2>5. OwnerInv'
    BY <1>4, <2>1, <2>2, ElementOfSeq DEF TypeInv, OwnerInv
  <2> QED
    BY <2>4, <2>5
<1> QED
  BY <1>5, <1>6

\* The steps of main.
LEMMA MainKeepsTypes ==
  ASSUME TypeInv, OwnerInv, Main
  PROVE  TypeInv' /\ OwnerInv'
<1>1. UNCHANGED <<program, alive, clients, unread, backlog, owner, watched>>
  BY DEF Main, Select, EpollWait, Copy, Dispatch
<1>2. mpc' \in {"wait", "dispatch"} /\ rdtemp' \subseteq Watchable /\ events' \subseteq Watchable
  BY DEF TypeInv, Main, Select, EpollWait, Copy, Dispatch
<1>3. HandlersType'
  <2>1. CASE \E d \in Watchable : Dispatch(d)
    <3>1. PICK d \in Watchable : Dispatch(d)
      BY <2>1
    <3> DEFINE h == <<IF d = lfd THEN "accept" ELSE "recv", d>>
    <3>2. h \in Phases \X Watchable
      BY DEF Phases
    <3>3. handlers' = handlers \/ handlers' = [handlers EXCEPT ![h] = @ + 1]
      BY <3>1 DEF Dispatch
    <3> HIDE DEF h
    <3> QED
      BY <3>2, <3>3 DEF TypeInv, HandlersType
  <2> QED
    BY <2>1 DEF TypeInv, HandlersType, Main, Select, EpollWait, Copy
<1> QED
  BY <1>1, <1>2, <1>3 DEF TypeInv, OwnerInv, clients

\* An accept.
LEMMA AcceptKeepsTypes ==
  ASSUME TypeInv, OwnerInv, Accept
  PROVE  TypeInv' /\ OwnerInv'
<1>1. PICK d \in Descriptors :
         /\ owner[d] = NoClient /\ owner' = [owner EXCEPT ![d] = backlog[1]]
         /\ Goes("accept", lfd, "add", d)
         /\ backlog[1] \in Clients /\ backlog' \in Seq(Clients)
         /\ Len(backlog) \in Nat \ {0} /\ Len(backlog') = Len(backlog) - 1
         /\ \A i \in 1..Len(backlog') : backlog'[i] = backlog[i + 1] /\ i + 1 \in 2..Len(backlog)
  BY AcceptEffect
<1>2. UNCHANGED <<program, alive, clients, unread, watched, events, main>>
  BY DEF Accept
<1>3. HandlersType'
  BY <1>1, GoesEffect DEF Accept, TypeInv, Phases, Watchable
<1>4. TypeInv'
  BY <1>1, <1>2, <1>3 DEF TypeInv, main, clients
<1>5. \A i \in 1..Len(backlog') : backlog'[i] # backlog[1] /\ i + 1 \in 1..Len(backlog)
  BY <1>1 DEF OwnerInv
<1>6. peer[backlog[1]] # "new" /\ \A e \in Descriptors : owner[e] # backlog[1]
  BY <1>1 DEF OwnerInv
<1>7. OwnerInv'
  <2>1. \A e \in Descriptors : owner'[e] = IF e = d THEN backlog[1] ELSE owner[e]
    BY <1>1 DEF TypeInv
  <2>2. \A i \in 1..Len(backlog') : /\ peer'[backlog'[i]] # "new"
                                   /\ \A e \in Descriptors : owner'[e] # backlog'[i]
    <3>1. \A i \in 1..Len(backlog') : /\ peer[backlog[i + 1]] # "new"
                                     /\ \A e \in Descriptors : owner[e] # backlog[i + 1]
      BY <1>5 DEF OwnerInv
    <3>2. \A i \in 1..Len(backlog') : backlog'[i] = backlog[i + 1]
      BY <1>1
    <3>3. peer' = peer
      BY <1>2 DEF clients
    <3> QED
      BY <1>5, <2>1, <3>1, <3>2, <3>3
  <2>3. \A i, j \in 1..Len(backlog') : backlog'[i] = backlog'[j] => i = j
    BY <1>1, <1>5 DEF OwnerInv
  <2>4. \A e \in Descriptors : owner'[e] # NoClient => peer'[owner'[e]] # "new"
    BY <1>2, <1>6, <2>1 DEF OwnerInv, clients
  <2>5. \A e, g \in Descriptors : owner'[e] # NoClient /\ owner'[e] = owner'[g] => e = g
    BY <1>6, <2>1 DEF OwnerInv
  <2> QED
    BY <2>2, <2>3, <2>4, <2>5 DEF OwnerInv
<1> QED
  BY <1>4, <1>7

\* The other steps of a handler.
LEMMA HandlerKeepsTypes ==
  ASSUME TypeInv, OwnerInv, NEW d \in Descriptors, Handler(d)
  PROVE  TypeInv' /\ OwnerInv'
<1>1. d \in Watchable /\ UNCHANGED <<program, asked, backlog>>
  BY DEF Watchable, Handler, Add, Recv, Send, Resend, Clear, Close, clients
<1>2. HandlersType'
  BY <1>1, GoesEffect, EndsEffect DEF TypeInv, Handler, Add, Recv, RecvSome, RecvEnd,
     RecvAgain, RecvError, Send, AfterSend, Resend, Clear, Close, Phases
<1>3. /\ watched' \subseteq Watchable /\ events' \subseteq Watchable
      /\ UNCHANGED main
  BY <1>1 DEF TypeInv, Handler, Add, Recv, Send, Resend, Clear, Close, RaiseEdge, Watchable
<1>4. alive' \in BOOLEAN
  BY DEF TypeInv, Handler, Add, Recv, RecvSome, RecvEnd, RecvAgain, RecvError, Send,
     Resend, Clear, Close
<1>5. /\ owner' \in [Descriptors -> Clients \union {NoClient}]
      /\ \A e \in Descriptors : owner'[e] \in {owner[e], NoClient}
  BY DEF TypeInv, Handler, Add, Recv, Send, Resend, Clear, Close
<1>6. /\ peer' \in [Clients -> {"new", "open", "left", "reset", "gone"}]
      /\ \A c \in Clients : peer'[c] = "new" <=> peer[c] = "new"
  <2>1. CASE Recv(d) /\ RecvError(d)
    BY <2>1, EventAssumption DEF TypeInv, OwnerInv, RecvError
  <2>2. CASE peer' = peer
    BY <2>2 DEF TypeInv
  <2> QED
    BY <2>1, <2>2 DEF Handler, Add, Recv, RecvSome, RecvEnd, RecvAgain, Send, Resend,
       Clear, Close, clients
<1>7. unread' \in [Clients -> Nat] /\ \A c \in Clients : unread'[c] <= unread[c]
  <2>1. CASE Recv(d) /\ RecvSome(d)
    BY <2>1 DEF TypeInv, RecvSome
  <2>2. CASE unread' = unread
    BY <2>2 DEF TypeInv
  <2> QED
    BY <2>1, <2>2 DEF Handler, Add, Recv, RecvEnd, RecvAgain, RecvError, Send, Resend,
       Clear, Close
<1>8. TypeInv'
  <2>1. \A c \in Clients : asked[c] \in Nat /\ unread[c] \in Nat /\ unread'[c] \in Nat
    BY <1>7 DEF TypeInv
  <2>2. \A c \in Clients : asked'[c] <= Requests[c] /\ unread'[c] <= asked'[c]
    BY <1>1, <1>7, <2>1 DEF TypeInv
  <2> QED
    BY <1>1, <1>2, <1>3, <1>4, <1>5, <1>6, <1>7, <2>2 DEF TypeInv, main
<1>9. OwnerInv'
  <2>1. \A i \in 1..Len(backlog) : backlog[i] \in Clients /\ backlog[i] # NoClient
    BY EventAssumption, ElementOfSeq DEF TypeInv
  <2>2. \A e \in Descriptors : owner'[e] # NoClient => owner'[e] = owner[e] /\ owner[e] \in Clients
    BY <1>5 DEF TypeInv
  <2>3. \A i \in 1..Len(backlog) : /\ peer'[backlog[i]] # "new"
                                   /\ \A e \in Descriptors : owner'[e] # backlog[i]
    BY <1>6, <2>1, <2>2 DEF OwnerInv
  <2>4. \A e \in Descriptors : owner'[e] # NoClient => peer'[owner'[e]] # "new"
    BY <1>6, <2>2 DEF OwnerInv
  <2>5. \A e, g \in Descriptors : owner'[e] # NoClient /\ owner'[e] = owner'[g] => e = g
    BY <2>2 DEF OwnerInv
  <2> QED
    BY <1>1, <2>3, <2>4, <2>5 DEF OwnerInv
<1> QED
  BY <1>8, <1>9

\* Every step keeps the types and gives no descriptor to two clients.
LEMMA TypesStep == TypeInv /\ OwnerInv /\ [Next]_vars => TypeInv' /\ OwnerInv'
<1> SUFFICES ASSUME TypeInv, OwnerInv, [Next]_vars PROVE TypeInv' /\ OwnerInv'
  OBVIOUS
<1>1. CASE UNCHANGED vars
  BY <1>1 DEF vars, clients, main, TypeInv, OwnerInv, HandlersType
<1> QED
  BY <1>1, ClientKeepsTypes, MainKeepsTypes, AcceptKeepsTypes, HandlerKeepsTypes DEF Next

\* Every variable keeps its type: among the rest, a server never receives more
\* than was sent, and a handler ends at most once.
THEOREM EventTypesCorrect == Spec => []TypeOK
<1>1. TypeInv => TypeOK
  BY EventAssumption DEF TypeInv, TypeOK, HandlersType
<1> QED
  BY <1>1, EventsInit, TypesStep, PTL DEF Spec

-----------------------------------------------------------------------------
(* A server without threads does one thing at a time *)

\* There is at most one handler.
Single ==
    \A p, q \in Phases, d, e \in Watchable :
       /\ At(p, d) <= 1
       /\ At(p, d) > 0 /\ At(q, e) > 0 => p = q /\ d = e

\* It works on a descriptor that is open and not to be dispatched again.
AtWorkInv ==
    /\ mpc = "wait" => \A p \in Phases, d \in Watchable : At(p, d) = 0
    /\ \A p \in Phases \ {"accept"}, d \in Descriptors :
          At(p, d) > 0 => owner[d] # NoClient /\ d \notin rdtemp
    /\ \A d \in Descriptors : At("clear", d) + At("close", d) > 0 => Hangup(d)

\* What is open is watched, but for the moments before Add and before Close;
\* what is to be dispatched is watched.
WatchInv ==
    /\ \A d \in Descriptors :
          d \in watched <=> owner[d] # NoClient /\ At("add", d) + At("close", d) = 0
    /\ lfd \in watched /\ rdtemp \subseteq watched /\ events \subseteq watched
    /\ Level /\ mpc = "wait" => rdtemp = watched

AloneInv == ~Threaded => Single /\ AtWorkInv /\ WatchInv

\* How many handlers are at a place is a number.
LEMMA AtType ==
  ASSUME TypeInv PROVE \A p \in Phases, d \in Watchable : At(p, d) \in Nat
  BY DEF TypeInv, HandlersType, At

\* No handler is at work exactly if there is none at any place.
LEMMA IdleMeans ==
  ASSUME TypeInv PROVE Idle <=> \A p \in Phases, d \in Watchable : At(p, d) = 0
<1>1. DOMAIN handlers = Phases \X Watchable
  BY DEF TypeInv, HandlersType
<1> QED
  BY <1>1 DEF Idle, At

\* The only handler goes from one place to another.
LEMMA OneGoes ==
  ASSUME TypeInv, Single, NEW p \in Phases, NEW q \in Phases, NEW d \in Watchable, NEW e \in Watchable,
         <<p, d>> # <<q, e>>, At(p, d) > 0, Goes(p, d, q, e)
  PROVE  \A r \in Phases, f \in Watchable : At(r, f)' = IF r = q /\ f = e THEN 1 ELSE 0
<1>1. /\ At(p, d)' = At(p, d) - 1 /\ At(q, e)' = At(q, e) + 1
      /\ \A r \in Phases, f \in Watchable :
            <<r, f>> # <<p, d>> /\ <<r, f>> # <<q, e>> => At(r, f)' = At(r, f)
  BY GoesEffect DEF TypeInv
<1>2. At(p, d) = 1 /\ \A r \in Phases, f \in Watchable : <<r, f>> # <<p, d>> => At(r, f) = 0
  BY AtType DEF Single
<1> QED
  BY <1>1, <1>2

\* The only handler ends.
LEMMA OneEnds ==
  ASSUME TypeInv, Single, NEW p \in Phases, NEW d \in Watchable, At(p, d) > 0, Ends(p, d)
  PROVE  \A r \in Phases, f \in Watchable : At(r, f)' = 0
<1>1. /\ At(p, d)' = At(p, d) - 1
      /\ \A r \in Phases, f \in Watchable : <<r, f>> # <<p, d>> => At(r, f)' = At(r, f)
  BY EndsEffect DEF TypeInv
<1>2. At(p, d) = 1 /\ \A r \in Phases, f \in Watchable : <<r, f>> # <<p, d>> => At(r, f) = 0
  BY AtType DEF Single
<1> QED
  BY <1>1, <1>2

\* At the start nothing but the listening socket is open and watched.
LEMMA AloneInit == Init => AloneInv
<1> SUFFICES ASSUME Init PROVE Single /\ AtWorkInv /\ WatchInv
  BY DEF AloneInv
<1>1. \A p \in Phases, d \in Watchable : At(p, d) = 0
  BY DEF Init, At
<1>2. \A d \in Descriptors : d \in Watchable /\ owner[d] = NoClient
  BY DEF Init, Watchable
<1>3. Single /\ AtWorkInv
  BY <1>1, <1>2 DEF Single, AtWorkInv, Phases
<1>4. WatchInv
  BY <1>1, <1>2, DescriptorsFinite DEF Init, WatchInv, Phases
<1> QED
  BY <1>3, <1>4

\* A client changes nothing but what is reported of it.
LEMMA ClientKeepsAlone ==
  ASSUME TypeInv, OwnerInv, AloneInv, ~Threaded,
         NEW c \in Clients, Connect(c) \/ Ask(c) \/ Leave(c) \/ Reset(c)
  PROVE  AloneInv'
<1>1. UNCHANGED <<program, owner, watched, mpc, rdtemp, handlers>>
  BY DEF Connect, Ask, Leave, Reset, main
<1>2. \A p \in Phases, d \in Watchable : At(p, d)' = At(p, d)
  BY <1>1 DEF At
<1>3. Single'
  BY <1>2 DEF AloneInv, Single
<1>4. events' \subseteq events \union watched
  BY DEF Connect, Ask, Leave, Reset, RaiseEdge, EdgeOf, AloneInv, WatchInv
<1>5. WatchInv'
  BY <1>1, <1>2, <1>4 DEF AloneInv, WatchInv, Level, Phases, Watchable
<1>6. \A d \in Descriptors : Hangup(d) => Hangup(d)'
  <2>1. \A b \in Clients : peer[b] \notin {"new", "open"} => peer'[b] # "open"
    BY DEF TypeInv, Connect, Ask, Leave, Reset
  <2>2. \A d \in Descriptors : owner[d] # NoClient => owner[d] \in Clients /\ peer[owner[d]] # "new"
    BY DEF TypeInv, OwnerInv
  <2> QED
    BY <1>1, <2>1, <2>2 DEF Hangup
<1>7. AtWorkInv'
  BY <1>1, <1>2, <1>6 DEF AloneInv, AtWorkInv, Phases, Watchable
<1> QED
  BY <1>3, <1>5, <1>7 DEF AloneInv

\* main waits, and then calls one handler after the other.
LEMMA MainKeepsAlone ==
  ASSUME TypeInv, OwnerInv, AloneInv, ~Threaded, Main
  PROVE  AloneInv'
<1>1. UNCHANGED <<program, peer, owner, watched>>
  BY DEF Main, Select, EpollWait, Copy, Dispatch, clients
<1>2. \A d \in Descriptors : Hangup(d)' = Hangup(d)
  BY <1>1 DEF Hangup
<1>3. events' \subseteq events
  BY DEF Main, Select, EpollWait, Copy, Dispatch
<1>4. CASE Select \/ EpollWait \/ Copy
  <2>1. \A p \in Phases, d \in Watchable : At(p, d)' = At(p, d)
    BY <1>4 DEF Select, EpollWait, Copy, At
  <2>2. \A p \in Phases, d \in Watchable : At(p, d) = 0
    BY <1>4, IdleMeans DEF Select, EpollWait, Copy, AloneInv, AtWorkInv
  <2>3. Single' /\ AtWorkInv'
    BY <2>1, <2>2 DEF Single, AtWorkInv, Phases, Watchable
  <2>4. /\ rdtemp' \subseteq watched
        /\ Level /\ mpc' = "wait" => rdtemp' = watched
    BY <1>4 DEF Select, EpollWait, Copy, AloneInv, WatchInv
  <2>5. WatchInv'
    BY <1>1, <1>3, <2>1, <2>4 DEF AloneInv, WatchInv, Level, Phases, Watchable
  <2> QED
    BY <2>3, <2>5 DEF AloneInv
<1>5. ASSUME NEW d \in Watchable, Dispatch(d) PROVE AloneInv'
  <2> DEFINE p == IF d = lfd THEN "accept" ELSE "recv"
             h == <<p, d>>
  <2>1. \A r \in Phases, f \in Watchable : At(r, f) = 0
    BY <1>5, IdleMeans DEF Dispatch
  <2>2. p \in Phases /\ h \in Phases \X Watchable
    BY DEF Phases
  <2>3. handlers' = handlers \/ handlers' = [handlers EXCEPT ![h] = @ + 1]
    BY <1>5 DEF Dispatch
  <2>4. \A r \in Phases, f \in Watchable :
           At(r, f)' = 0 \/ (r = p /\ f = d /\ At(r, f)' = 1)
    <3>1. \A r \in Phases, f \in Watchable : <<r, f>> \in Phases \X Watchable /\ handlers[<<r, f>>] = 0
      BY <2>1 DEF At
    <3> DEFINE places == Phases \X Watchable
    <3>2. handlers \in [places -> Nat] /\ h \in places /\ \A z \in places : handlers[z] = 0
      <4>1. \A z \in places : z = <<z[1], z[2]>> /\ z[1] \in Phases /\ z[2] \in Watchable
        OBVIOUS
      <4> QED
        BY <2>2, <3>1, <4>1 DEF TypeInv, HandlersType
    <3> HIDE DEF h, places
    <3>3. \A z \in places : handlers'[z] = 0 \/ (z = h /\ handlers'[z] = 1)
      BY <2>3, <3>2
    <3>4. \A r \in Phases, f \in Watchable : <<r, f>> \in places
      BY DEF places
    <3>5. \A r \in Phases, f \in Watchable : <<r, f>> = h => r = p /\ f = d
      BY DEF h
    <3> QED
      BY <3>3, <3>4, <3>5 DEF At
  <2>5. /\ mpc = "dispatch" /\ mpc' = mpc /\ d \in rdtemp /\ d \in watched
        /\ rdtemp' = rdtemp \ {d} /\ events' = events
    BY <1>5 DEF Dispatch, AloneInv, WatchInv
  <2>6. Single'
    BY <2>4 DEF Single
  <2>7. \A r \in Phases \ {"accept"}, f \in Descriptors : At(r, f)' > 0 => r = "recv" /\ f = d
    BY <2>4 DEF Watchable
  <2>8. AtWorkInv'
    <3>1. \A f \in Descriptors : At("clear", f)' = 0 /\ At("close", f)' = 0
      BY <2>4 DEF Phases, Watchable
    <3>2. d \in Descriptors => owner[d] # NoClient
      BY <2>5 DEF AloneInv, WatchInv
    <3> QED
      BY <1>1, <2>5, <2>7, <3>1, <3>2 DEF AtWorkInv
  <2>9. WatchInv'
    <3>1. \A f \in Descriptors : /\ At("add", f)' = 0 /\ At("close", f)' = 0
                                 /\ At("add", f) = 0 /\ At("close", f) = 0
      BY <2>1, <2>4 DEF Phases, Watchable
    <3> QED
      BY <1>1, <2>5, <3>1 DEF AloneInv, WatchInv
  <2> QED
    BY <2>6, <2>8, <2>9 DEF AloneInv
<1> QED
  BY <1>4, <1>5 DEF Main

\* An accepted connection has a descriptor that nothing else uses.
LEMMA AcceptKeepsAlone ==
  ASSUME TypeInv, OwnerInv, AloneInv, ~Threaded, Accept
  PROVE  AloneInv'
<1>1. PICK d \in Descriptors :
         /\ owner[d] = NoClient /\ owner' = [owner EXCEPT ![d] = backlog[1]]
         /\ Goes("accept", lfd, "add", d) /\ backlog[1] \in Clients
  BY AcceptEffect
<1>2. UNCHANGED <<program, peer, watched, events, mpc, rdtemp>> /\ At("accept", lfd) > 0
  BY DEF Accept, clients, main
<1>3. lfd \in Watchable /\ d \in Watchable /\ lfd # d
  BY DescriptorsFinite DEF Watchable
<1>4. \A r \in Phases, f \in Watchable : At(r, f)' = IF r = "add" /\ f = d THEN 1 ELSE 0
  BY <1>1, <1>2, <1>3, OneGoes DEF AloneInv, Phases
<1>5. \A r \in Phases, f \in Watchable : At(r, f) > 0 => r = "accept" /\ f = lfd
  BY <1>2, <1>3 DEF AloneInv, Single, Phases
<1>6. \A f \in Descriptors : At("add", f) = 0 /\ At("close", f) = 0
  BY <1>5, AtType DEF Phases, Watchable
<1>7. \A f \in Descriptors : owner'[f] = IF f = d THEN backlog[1] ELSE owner[f]
  BY <1>1 DEF TypeInv
<1>8. backlog[1] # NoClient
  BY <1>1, EventAssumption
<1>9. Single'
  BY <1>4 DEF Single
<1>10. AtWorkInv'
  <2>1. mpc' # "wait"
    BY <1>2, <1>3 DEF AloneInv, AtWorkInv, Phases
  <2>2. d \notin rdtemp
    BY <1>1 DEF AloneInv, WatchInv
  <2>3. \A f \in Descriptors : At("clear", f)' = 0 /\ At("close", f)' = 0
    BY <1>4 DEF Phases, Watchable
  <2>4. \A r \in Phases, f \in Descriptors : At(r, f)' > 0 => f = d
    BY <1>4 DEF Watchable
  <2> QED
    BY <1>2, <1>7, <1>8, <2>1, <2>2, <2>3, <2>4 DEF AtWorkInv
<1>11. WatchInv'
  <2>1. \A f \in Descriptors : At("close", f)' = 0 /\ At("add", f)' = IF f = d THEN 1 ELSE 0
    BY <1>4 DEF Phases, Watchable
  <2>2. \A f \in Descriptors :
          f \in watched <=> owner'[f] # NoClient /\ At("add", f)' + At("close", f)' = 0
    BY <1>1, <1>6, <1>7, <2>1 DEF AloneInv, WatchInv
  <2> QED
    BY <1>2, <2>2 DEF AloneInv, WatchInv, Level
<1> QED
  BY <1>9, <1>10, <1>11 DEF AloneInv

\* A handler that neither adds nor removes its descriptor goes on.
LEMMA WorkKeepsAlone ==
  ASSUME TypeInv, OwnerInv, AloneInv, ~Threaded, NEW d \in Descriptors,
         NEW p \in {"recv", "send", "resend"}, At(p, d) > 0,
         NEW q \in {"recv", "send", "resend", "clear"},
         Ends(p, d) \/ (p # q /\ Goes(p, d, q, d)),
         q = "clear" => Hangup(d)',
         UNCHANGED <<program, owner, watched, events, main>>
  PROVE  AloneInv'
<1>1. d \in Watchable /\ p \in Phases \ {"accept"} /\ q \in Phases \ {"accept"}
  BY DEF Watchable, Phases
<1>2. owner[d] # NoClient /\ d \notin rdtemp /\ mpc # "wait"
  BY <1>1 DEF AloneInv, AtWorkInv
<1>3. /\ Single'
      /\ \A r \in Phases, f \in Watchable : At(r, f)' > 0 => r = q /\ f = d
      /\ \A r \in Phases, f \in Watchable : At(r, f)' \in {0, 1}
  <2>1. CASE Ends(p, d)
    BY <1>1, <2>1, OneEnds DEF AloneInv, Single
  <2>2. CASE p # q /\ Goes(p, d, q, d)
    BY <1>1, <2>2, OneGoes DEF AloneInv, Single
  <2> QED
    BY <2>1, <2>2
<1>4. \A f \in Descriptors : f \in Watchable /\ At("add", f) = 0 /\ At("close", f) = 0
  <2>1. \A f \in Descriptors : f \in Watchable /\ ~(At("add", f) > 0) /\ ~(At("close", f) > 0)
    BY <1>1 DEF AloneInv, Single, Phases, Watchable
  <2> QED
    BY <2>1, AtType DEF Phases
<1>5. \A f \in Descriptors : At("add", f)' = 0 /\ At("close", f)' = 0
  BY <1>3, <1>4 DEF Phases
<1>6. \A f \in Descriptors : At("clear", f)' > 0 => f = d /\ q = "clear"
  BY <1>3, <1>4 DEF Phases
<1>7. AtWorkInv'
  <2>1. \A f \in Descriptors : At("clear", f)' + At("close", f)' > 0 => Hangup(f)'
    BY <1>3, <1>4, <1>5, <1>6 DEF Phases
  <2> QED
    BY <1>2, <1>3, <1>4, <2>1 DEF AtWorkInv, main
<1>8. WatchInv'
  BY <1>4, <1>5 DEF AloneInv, WatchInv, Level, main
<1> QED
  BY <1>3, <1>7, <1>8 DEF AloneInv

\* The steps of a handler.
LEMMA HandlerKeepsAlone ==
  ASSUME TypeInv, OwnerInv, AloneInv, ~Threaded, NEW d \in Descriptors, Handler(d)
  PROVE  AloneInv'
<1> USE DEF Phases
<1>1. d \in Watchable /\ d # lfd /\ UNCHANGED <<program, main>>
  BY DescriptorsFinite DEF Watchable, Handler, Add, Recv, Send, Resend, Clear, Close
<1>2. ASSUME NEW p \in Phases \ {"accept"}, At(p, d) > 0
      PROVE  /\ owner[d] # NoClient /\ d \notin rdtemp /\ mpc # "wait"
             /\ \A r \in Phases, f \in Descriptors : <<r, f>> # <<p, d>> => At(r, f) = 0
  BY <1>1, <1>2, AtType DEF AloneInv, AtWorkInv, Single, Watchable
<1>3. CASE Add(d)
  <2>1. /\ At("add", d) > 0 /\ watched' = watched \union {d} /\ events' \subseteq events \union {d}
        /\ UNCHANGED <<peer, owner, mpc, rdtemp>>
    <3>1. At("add", d) > 0 /\ owner[d] # NoClient
      BY <1>2, <1>3 DEF Add
    <3>2. PICK added \in SUBSET {d} :
             /\ watched' = watched \union added /\ (d \notin watched => added = {d})
             /\ RaiseEdge({e \in added : Ready(e)})
      BY <1>3, <3>1 DEF Add
    <3> QED
      BY <1>3, <3>1, <3>2 DEF Add, RaiseEdge, clients, main
  <2>2. \A r \in Phases, f \in Watchable : At(r, f)' = 0
    BY <1>1, <1>3, <2>1, OneEnds DEF Add, AloneInv
  <2>3. Single' /\ AtWorkInv'
    BY <1>2, <2>1, <2>2 DEF Single, AtWorkInv, Watchable
  <2>4. \A f \in Descriptors :
           /\ At("add", f)' = 0 /\ At("close", f)' = 0
           /\ f # d => At("add", f) = 0 /\ At("close", f) = 0
    BY <1>2, <2>1, <2>2 DEF Watchable
  <2>5. owner[d] # NoClient /\ mpc # "wait"
    BY <1>2, <2>1
  <2>6. \A f \in Descriptors :
           f \in watched' <=> owner'[f] # NoClient /\ At("add", f)' + At("close", f)' = 0
    BY <2>1, <2>4, <2>5 DEF AloneInv, WatchInv
  <2>7. WatchInv'
    BY <2>1, <2>5, <2>6 DEF AloneInv, WatchInv
  <2> QED
    BY <2>3, <2>7 DEF AloneInv
<1>4. CASE Recv(d)
  <2>1. At("recv", d) > 0 /\ UNCHANGED <<owner, watched, events>>
    BY <1>4 DEF Recv
  <2>2. owner[d] # NoClient
    BY <1>2, <2>1
  <2>3. CASE RecvSome(d)
    BY <1>1, <2>1, <2>3, WorkKeepsAlone DEF RecvSome
  <2>4. CASE RecvEnd(d)
    <3>1. Hangup(d)'
      BY <2>1, <2>2, <2>4 DEF RecvEnd, Hangup
    <3> QED
      BY <1>1, <2>1, <2>4, <3>1, WorkKeepsAlone DEF RecvEnd
  <2>5. CASE RecvAgain(d)
    BY <1>1, <2>1, <2>5, WorkKeepsAlone DEF RecvAgain
  <2>6. CASE RecvError(d)
    BY <1>1, <2>1, <2>6, WorkKeepsAlone DEF RecvError
  <2> QED
    BY <1>4, <2>3, <2>4, <2>5, <2>6 DEF Recv
<1>5. CASE Send(d)
  <2>1. /\ At("send", d) > 0 /\ UNCHANGED <<owner, watched, events>>
        /\ Ends("send", d) \/ Goes("send", d, "recv", d)
    BY <1>5 DEF Send, AfterSend
  <2> QED
    BY <1>1, <2>1, WorkKeepsAlone
<1>6. CASE Resend(d)
  BY <1>1, <1>6, WorkKeepsAlone DEF Resend
<1>7. CASE Clear(d)
  <2>1. /\ At("clear", d) > 0 /\ watched' = watched \ {d} /\ events' = events \ {d}
        /\ UNCHANGED <<peer, owner, mpc, rdtemp>>
    BY <1>7 DEF Clear, clients, main
  <2>2. \A r \in Phases, f \in Watchable : At(r, f)' = IF r = "close" /\ f = d THEN 1 ELSE 0
    BY <1>1, <1>7, <2>1, OneGoes DEF Clear, AloneInv
  <2>3. owner[d] # NoClient /\ d \notin rdtemp /\ mpc # "wait"
    BY <1>2, <2>1
  <2>4. Hangup(d)' /\ Hangup(d)
    <3>1. At("clear", d) \in Nat /\ At("close", d) \in Nat
      BY <1>1, AtType
    <3> QED
      BY <2>1, <3>1 DEF AloneInv, AtWorkInv, Hangup
  <2>5. Single'
    BY <2>2 DEF Single
  <2>6. AtWorkInv'
    BY <2>1, <2>2, <2>3, <2>4 DEF AtWorkInv, Watchable
  <2>7. \A f \in Descriptors :
           /\ At("add", f)' = 0 /\ At("close", f)' = IF f = d THEN 1 ELSE 0
           /\ At("add", f) = 0 /\ At("close", f) = 0
    BY <1>2, <2>1, <2>2 DEF Watchable
  <2>8. \A f \in Descriptors :
           f \in watched' <=> owner'[f] # NoClient /\ At("add", f)' + At("close", f)' = 0
    BY <2>1, <2>7 DEF AloneInv, WatchInv
  <2>9. WatchInv'
    BY <1>1, <2>1, <2>3, <2>8 DEF AloneInv, WatchInv
  <2> QED
    BY <2>5, <2>6, <2>9 DEF AloneInv
<1>8. CASE Close(d)
  <2>1. /\ At("close", d) > 0 /\ owner' = [owner EXCEPT ![d] = NoClient]
        /\ watched' \in {watched, watched \ {d}} /\ events' = events \ {d}
        /\ UNCHANGED <<peer, mpc, rdtemp>>
    BY <1>8 DEF Close, clients, main
  <2>2. \A r \in Phases, f \in Watchable : At(r, f)' = 0
    BY <1>1, <1>8, <2>1, OneEnds DEF Close, AloneInv
  <2>3. d \notin rdtemp /\ mpc # "wait"
    BY <1>2, <2>1
  <2>4. Single' /\ AtWorkInv'
    BY <2>1, <2>2, <2>3 DEF Single, AtWorkInv, Watchable
  <2>5. \A f \in Descriptors :
           /\ At("add", f)' = 0 /\ At("close", f)' = 0
           /\ At("add", f) = 0 /\ (f # d => At("close", f) = 0)
    BY <1>2, <2>1, <2>2 DEF Watchable
  <2>6. d \notin watched
    <3>1. At("add", d) + At("close", d) > 0
      BY <1>1, <2>1, <2>5, AtType
    <3> QED
      BY <3>1 DEF AloneInv, WatchInv
  <2>7. \A f \in Descriptors : owner'[f] = IF f = d THEN NoClient ELSE owner[f]
    BY <2>1 DEF TypeInv
  <2>8. watched' = watched
    BY <2>1, <2>6
  <2>9. WatchInv'
    BY <1>1, <2>1, <2>3, <2>5, <2>6, <2>7, <2>8 DEF AloneInv, WatchInv
  <2> QED
    BY <2>4, <2>9 DEF AloneInv
<1> QED
  BY <1>3, <1>4, <1>5, <1>6, <1>7, <1>8 DEF Handler

\* A server without threads goes on doing one thing at a time.
LEMMA AloneStep == TypeInv /\ OwnerInv /\ AloneInv /\ [Next]_vars => AloneInv'
<1> SUFFICES ASSUME TypeInv, OwnerInv, AloneInv, [Next]_vars PROVE AloneInv'
  OBVIOUS
<1>1. program' = program
  BY DEF Next, vars, Main, Select, EpollWait, Copy, Dispatch, Accept, Handler, Add, Recv,
     Send, Resend, Clear, Close, Connect, Ask, Leave, Reset
<1>2. CASE Threaded
  BY <1>1, <1>2 DEF AloneInv, Threaded
<1>3. CASE UNCHANGED vars
  BY <1>3 DEF vars, clients, main, AloneInv, Threaded, Single, AtWorkInv, WatchInv, At,
     Hangup, Level
<1>4. CASE ~Threaded /\ Next
  BY <1>4, ClientKeepsAlone, MainKeepsAlone, AcceptKeepsAlone, HandlerKeepsAlone DEF Next
<1> QED
  BY <1>2, <1>3, <1>4

\* Between two events, select_server and epoll_server watch exactly the
\* connections they have open.
THEOREM WatchCorrect == Spec => []WatchExact
<1>1. TypeInv /\ AloneInv => WatchExact
  <2> SUFFICES ASSUME TypeInv, AloneInv, ~Threaded, Idle
               PROVE  watched \ {lfd} = {d \in Descriptors : owner[d] # NoClient}
    BY DEF WatchExact
  <2>1. \A d \in Descriptors : At("add", d) = 0 /\ At("close", d) = 0
    BY IdleMeans DEF Phases, Watchable
  <2>2. \A d \in Descriptors : d \in watched <=> owner[d] # NoClient
    BY <2>1 DEF AloneInv, WatchInv
  <2>3. watched \ {lfd} \subseteq Descriptors
    BY DEF TypeInv, Watchable
  <2> QED
    BY <2>2, <2>3, DescriptorsFinite
<1> QED
  BY <1>1, EventsInit, TypesStep, AloneInit, AloneStep, PTL DEF Spec

\* select_server and epoll_server close no connection whose client is still
\* there.
THEOREM ClosesCorrect == Spec => ClosesOnlyLeft
<1> DEFINE Only == ~Threaded => \A d \in Descriptors :
                      owner[d] # NoClient /\ owner'[d] = NoClient => Hangup(d)
<1>1. TypeInv /\ OwnerInv /\ AloneInv /\ [Next]_vars => [Only]_vars
  <2> SUFFICES ASSUME TypeInv, OwnerInv, AloneInv, Next, ~Threaded,
                      NEW d \in Descriptors, owner[d] # NoClient, owner'[d] = NoClient
               PROVE  Hangup(d)
    OBVIOUS
  <2>1. CASE Accept
    <3>1. PICK e \in Descriptors : /\ owner[e] = NoClient /\ owner' = [owner EXCEPT ![e] = backlog[1]]
                                  /\ backlog[1] \in Clients
      BY <2>1, AcceptEffect
    <3> QED
      BY <3>1, EventAssumption DEF TypeInv
  <2>2. ASSUME NEW e \in Descriptors, Close(e) PROVE Hangup(d)
    <3>1. At("close", e) > 0 /\ owner' = [owner EXCEPT ![e] = NoClient]
      BY <2>2 DEF Close
    <3>2. d = e
      BY <3>1 DEF TypeInv
    <3>3. At("clear", e) \in Nat /\ At("close", e) \in Nat
      BY AtType DEF Phases, Watchable
    <3> QED
      BY <3>1, <3>2, <3>3 DEF AloneInv, AtWorkInv
  <2>3. CASE owner' = owner
    BY <2>3
  <2> QED
    BY <2>1, <2>2, <2>3 DEF Next, Main, Select, EpollWait, Copy, Dispatch, Handler, Add, Recv,
       Send, Resend, Clear, Connect, Ask, Leave, Reset
<1>2. Spec => [][Only]_vars
  BY <1>1, EventsInit, TypesStep, AloneInit, AloneStep, PTL DEF Spec
<1> QED
  BY <1>2 DEF ClosesOnlyLeft

-----------------------------------------------------------------------------
(* Accepts *)

\* Each accept that was or will be started for the events reported so far has
\* a connection of its own.
AcceptInv ==
    Edge \/ ~Threaded =>
       At("accept", lfd) + (IF lfd \in events THEN 1 ELSE 0)
          + (IF mpc = "dispatch" /\ lfd \in rdtemp THEN 1 ELSE 0) <= Len(backlog)

\* select reports no edges.
LevelInv == Level => events = {}

\* At the start no accept is called for.
LEMMA AcceptInit == Init => AcceptInv /\ LevelInv
<1> SUFFICES ASSUME Init PROVE AcceptInv /\ LevelInv
  OBVIOUS
<1>1. At("accept", lfd) = 0
  BY DEF Init, At, Phases, Watchable
<1>2. Len(backlog) = 0 /\ events = {} /\ mpc = "wait"
  BY DEF Init
<1> QED
  BY <1>1, <1>2 DEF AcceptInv, LevelInv

\* No step calls for more accepts than there are connections in the backlog:
\* a new event needs a new connection, and an accept takes one.
LEMMA AcceptStep ==
  TypeInv /\ OwnerInv /\ AloneInv /\ AcceptInv /\ LevelInv /\ [Next]_vars => AcceptInv' /\ LevelInv'
<1> SUFFICES ASSUME TypeInv, OwnerInv, AloneInv, AcceptInv, LevelInv, [Next]_vars
             PROVE  AcceptInv' /\ LevelInv'
  OBVIOUS
<1>1. program' = program
  BY DEF Next, vars, Main, Select, EpollWait, Copy, Dispatch, Accept, Handler, Add, Recv,
     Send, Resend, Clear, Close, Connect, Ask, Leave, Reset
<1>2. (Level' <=> Level) /\ (Edge' <=> Edge) /\ (Threaded' <=> Threaded) /\ (Level <=> ~Edge)
  BY <1>1 DEF Level, Edge, Threaded, TypeInv, AllPrograms
<1>3. LevelInv'
  BY <1>2 DEF LevelInv, Next, vars, Main, Select, EpollWait, Copy, Dispatch, Accept, Handler,
     Add, Recv, Send, Resend, Clear, Close, Connect, Ask, Leave, Reset, RaiseEdge
<1>4. At("accept", lfd) \in Nat /\ Len(backlog) \in Nat /\ lfd \in Watchable /\ lfd \notin Descriptors
  <2>1. lfd \in Watchable /\ lfd \notin Descriptors
    BY DescriptorsFinite DEF Watchable
  <2>2. At("accept", lfd) \in Nat
    BY <2>1, AtType DEF Phases
  <2>3. Len(backlog) \in Nat
    BY DEF TypeInv
  <2> QED
    BY <2>1, <2>2, <2>3
<1>5. ASSUME Edge \/ ~Threaded PROVE AcceptInv'
  <2>1. ASSUME UNCHANGED vars PROVE AcceptInv'
    BY <1>2, <2>1 DEF vars, main, AcceptInv, At
  <2>2. ASSUME NEW c \in Clients, Connect(c) PROVE AcceptInv'
    <3>1. Len(backlog') = Len(backlog) + 1
      BY <2>2, AppendProperties DEF Connect, TypeInv
    <3> QED
      BY <1>2, <1>4, <2>2, <3>1 DEF Connect, main, AcceptInv, At
  <2>3. ASSUME NEW c \in Clients, Ask(c) \/ Leave(c) \/ Reset(c) PROVE AcceptInv'
    <3>1. lfd \in events' => lfd \in events
      BY <2>3 DEF Ask, Leave, Reset, RaiseEdge, EdgeOf
    <3>2. UNCHANGED <<backlog, mpc, rdtemp, handlers>>
      BY <2>3 DEF Ask, Leave, Reset, main
    <3> QED
      BY <1>2, <1>4, <3>1, <3>2 DEF AcceptInv, At
  <2>4. ASSUME Select PROVE AcceptInv'
    <3>1. ~Threaded /\ mpc = "wait" /\ events' = {} /\ UNCHANGED <<backlog, handlers>>
      BY <1>2, <1>3, <1>5, <2>4 DEF Select, LevelInv
    <3>2. At("accept", lfd)' = 0
      BY <1>4, <3>1 DEF AloneInv, AtWorkInv, Phases, At
    <3>3. \A d \in rdtemp \ {lfd} : owner[d] # NoClient
      BY <2>4, <3>1 DEF Select, AloneInv, WatchInv, TypeInv, Watchable
    <3>4. lfd \in rdtemp' => backlog # <<>>
      BY <2>4, <3>3 DEF Select, Ready
    <3>5. backlog # <<>> => Len(backlog) >= 1
      BY EmptySeq DEF TypeInv
    <3> QED
      BY <1>4, <3>1, <3>2, <3>4, <3>5 DEF AcceptInv
  <2>5. ASSUME EpollWait PROVE AcceptInv'
    <3>1. /\ mpc = "wait" /\ events' = {} /\ rdtemp' \subseteq events
          /\ UNCHANGED <<backlog, handlers>>
      BY <2>5 DEF EpollWait
    <3> QED
      BY <1>2, <1>4, <3>1 DEF AcceptInv, At
  <2>6. ASSUME Copy PROVE AcceptInv'
    <3>1. mpc' = "wait" /\ UNCHANGED <<events, backlog, handlers>>
      BY <2>6 DEF Copy
    <3> QED
      BY <1>2, <1>4, <3>1 DEF AcceptInv, At
  <2>7. ASSUME NEW d \in Watchable, Dispatch(d) PROVE AcceptInv'
    <3> DEFINE p == IF d = lfd THEN "accept" ELSE "recv"
               h == <<p, d>>
               places == Phases \X Watchable
    <3>1. /\ mpc = "dispatch" /\ d \in rdtemp /\ rdtemp' = rdtemp \ {d}
          /\ UNCHANGED <<events, backlog, mpc>>
          /\ handlers' = handlers \/ handlers' = [handlers EXCEPT ![h] = @ + 1]
      BY <2>7 DEF Dispatch
    <3>2. /\ handlers \in [places -> Nat] /\ h \in places /\ <<"accept", lfd>> \in places
          /\ (<<"accept", lfd>> = h <=> d = lfd)
      BY <1>4 DEF TypeInv, HandlersType, Phases
    <3> HIDE DEF h, places
    <3>3. At("accept", lfd)' <= At("accept", lfd) + (IF d = lfd THEN 1 ELSE 0) /\ At("accept", lfd)' \in Nat
      BY <3>1, <3>2 DEF At
    <3> QED
      BY <1>2, <1>4, <3>1, <3>3 DEF AcceptInv
  <2>8. ASSUME Accept PROVE AcceptInv'
    <3>1. PICK d \in Descriptors : Goes("accept", lfd, "add", d) /\ Len(backlog') = Len(backlog) - 1
      BY <2>8, AcceptEffect
    <3>2. UNCHANGED <<events, mpc, rdtemp>> /\ At("accept", lfd) > 0
      BY <2>8 DEF Accept, main
    <3>3. At("accept", lfd)' = At("accept", lfd) - 1
      BY <1>4, <3>1, <3>2, GoesEffect DEF TypeInv, Phases, Watchable
    <3> QED
      BY <1>2, <1>4, <3>1, <3>2, <3>3 DEF AcceptInv
  <2>9. ASSUME NEW d \in Descriptors, Handler(d) PROVE AcceptInv'
    <3>1. At("accept", lfd)' = At("accept", lfd)
      <4>1. d \in Watchable /\ d # lfd
        BY <1>4 DEF Watchable
      <4>2. PICK p \in Phases \ {"accept"}, q \in Phases \ {"accept"} :
               At(p, d) > 0 /\ (Ends(p, d) \/ (p # q /\ Goes(p, d, q, d)))
        <5>1. CASE Recv(d)
          BY <5>1 DEF Recv, RecvSome, RecvEnd, RecvAgain, RecvError, Phases
        <5>2. CASE Send(d)
          BY <5>2 DEF Send, AfterSend, Phases
        <5>3. CASE Clear(d)
          BY <5>3 DEF Clear, Phases
        <5>4. ASSUME NEW p \in {"add", "resend", "close"}, At(p, d) > 0, Ends(p, d)
              PROVE  \E r \in Phases \ {"accept"}, q \in Phases \ {"accept"} :
                        At(r, d) > 0 /\ (Ends(r, d) \/ (r # q /\ Goes(r, d, q, d)))
          BY <5>4 DEF Phases
        <5> QED
          BY <2>9, <5>1, <5>2, <5>3, <5>4 DEF Handler, Add, Resend, Close
      <4>3. "accept" \in Phases /\ <<"accept", lfd>> # <<p, d>> /\ <<"accept", lfd>> # <<q, d>>
        BY <4>1 DEF Phases
      <4>4. CASE Ends(p, d)
        BY <1>4, <4>1, <4>2, <4>3, <4>4, EndsEffect DEF TypeInv
      <4>5. CASE p # q /\ Goes(p, d, q, d)
        BY <1>4, <4>1, <4>2, <4>3, <4>5, GoesEffect DEF TypeInv
      <4> QED
        BY <4>2, <4>4, <4>5
    <3>2. UNCHANGED <<backlog, mpc, rdtemp>> /\ (lfd \in events' => lfd \in events)
      BY <1>4, <2>9 DEF Handler, Add, Recv, Send, Resend, Clear, Close, RaiseEdge, main
    <3> QED
      BY <1>2, <1>4, <3>1, <3>2 DEF AcceptInv
  <2> QED
    BY <2>1, <2>2, <2>3, <2>4, <2>5, <2>6, <2>7, <2>8, <2>9 DEF Next, Main
<1>6. ASSUME ~(Edge \/ ~Threaded) PROVE AcceptInv'
  BY <1>2, <1>6 DEF AcceptInv
<1> QED
  BY <1>3, <1>5, <1>6

\* Whoever calls accept in select_server, epoll_server or thread_epoll_server
\* finds a connection: neither main nor a thread is left hanging there.
THEOREM AcceptsCorrect == Spec => []AcceptNeverBlocks
<1>1. TypeInv /\ AcceptInv => AcceptNeverBlocks
  BY AtType DEF AcceptInv, AcceptNeverBlocks, TypeInv, Phases, Watchable
<1> QED
  BY <1>1, EventsInit, TypesStep, AloneInit, AloneStep, AcceptInit, AcceptStep, PTL DEF Spec

-----------------------------------------------------------------------------
(* Edges *)

\* What epoll watches is open: close takes it out, and a number closed before it
\* was added is not added.
OpenInv == Edge => \A d \in watched \ {lfd} : owner[d] # NoClient

\* main waits in epoll_wait with nothing left to dispatch.
EmptyInv == Edge /\ mpc = "wait" => rdtemp = {}

EdgeInv == NoEdgeLost /\ OpenInv /\ EmptyInv

\* At the start only the listening socket is watched.
LEMMA EdgeInit == Init => EdgeInv
  BY DEF Init, EdgeInv, NoEdgeLost, OpenInv, EmptyInv, Level, Edge

\* A program stays what it is.
LEMMA EdgeProgram ==
  ASSUME TypeInv, [Next]_vars
  PROVE  (Edge' <=> Edge) /\ (Edge => ~Level)
<1>1. program' = program
  BY DEF Next, vars, Main, Select, EpollWait, Copy, Dispatch, Accept, Handler, Add, Recv,
     Send, Resend, Clear, Close, Connect, Ask, Leave, Reset
<1> QED
  BY <1>1 DEF Edge, Level

\* A handler goes on with its descriptor, or ends.
LEMMA HandlerMoves ==
  ASSUME TypeInv, NEW d \in Descriptors, Handler(d)
  PROVE  /\ d \in Watchable /\ d # lfd
         /\ \A r \in Phases, f \in Watchable : f # d => At(r, f)' = At(r, f)
         /\ \E p \in Phases \ {"accept"} :
               /\ At(p, d) > 0
               /\ \/ \A r \in Phases \ {p} : At(r, d)' = At(r, d)
                  \/ \E q \in Phases \ {"accept", p} :
                        /\ Goes(p, d, q, d) /\ At(q, d)' > 0
                        /\ \A r \in Phases \ {p, q} : At(r, d)' = At(r, d)
<1>1. d \in Watchable /\ d # lfd
  BY DescriptorsFinite DEF Watchable
<1>2. PICK p \in Phases \ {"accept"}, q \in Phases \ {"accept"} :
         At(p, d) > 0 /\ (Ends(p, d) \/ (p # q /\ Goes(p, d, q, d)))
  <2>1. CASE Recv(d)
    BY <2>1 DEF Recv, RecvSome, RecvEnd, RecvAgain, RecvError, Phases
  <2>2. CASE Send(d)
    BY <2>2 DEF Send, AfterSend, Phases
  <2>3. CASE Clear(d)
    BY <2>3 DEF Clear, Phases
  <2>4. ASSUME NEW p \in {"add", "resend", "close"}, At(p, d) > 0, Ends(p, d)
        PROVE  \E r \in Phases \ {"accept"}, q \in Phases \ {"accept"} :
                  At(r, d) > 0 /\ (Ends(r, d) \/ (r # q /\ Goes(r, d, q, d)))
    BY <2>4 DEF Phases
  <2> QED
    BY <2>1, <2>2, <2>3, <2>4 DEF Handler, Add, Resend, Close
<1>3. CASE Ends(p, d)
  <2>1. \A r \in Phases, f \in Watchable : <<r, f>> # <<p, d>> => At(r, f)' = At(r, f)
    BY <1>1, <1>2, <1>3, EndsEffect DEF TypeInv
  <2> QED
    BY <1>1, <1>2, <2>1
<1>4. CASE p # q /\ Goes(p, d, q, d)
  <2>1. /\ At(q, d)' = At(q, d) + 1
        /\ \A r \in Phases, f \in Watchable :
              <<r, f>> # <<p, d>> /\ <<r, f>> # <<q, d>> => At(r, f)' = At(r, f)
    BY <1>1, <1>2, <1>4, GoesEffect DEF TypeInv
  <2>2. At(q, d) \in Nat
    BY <1>1, AtType
  <2> QED
    BY <1>1, <1>2, <1>4, <2>1, <2>2
<1> QED
  BY <1>2, <1>3, <1>4

\* What is watched stays open.
LEMMA OpenStep ==
  TypeInv /\ OwnerInv /\ OpenInv /\ EmptyInv /\ [Next]_vars => OpenInv' /\ EmptyInv'
<1> SUFFICES ASSUME TypeInv, OwnerInv, OpenInv, EmptyInv, [Next]_vars
             PROVE  OpenInv' /\ EmptyInv'
  OBVIOUS
<1>1. (Edge' <=> Edge) /\ (Edge => ~Level)
  BY EdgeProgram
<1>2. EmptyInv'
  <2> SUFFICES ASSUME Edge PROVE EmptyInv'
    BY <1>1 DEF EmptyInv
  <2>1. mpc' = "wait" => rdtemp' = {}
    BY <1>1 DEF EmptyInv, Next, vars, main, Main, Select, EpollWait, Copy, Dispatch, Accept,
       Handler, Add, Recv, Send, Resend, Clear, Close, Connect, Ask, Leave, Reset
  <2> QED
    BY <2>1 DEF EmptyInv
<1>3. ASSUME Edge, NEW d \in watched' \ {lfd} PROVE owner'[d] # NoClient
  <2>1. d \in Descriptors
    <3>1. TypeInv'
      BY TypesStep
    <3> QED
      BY <1>3, <3>1 DEF TypeInv, Watchable
  <2>2. d \in watched => owner[d] # NoClient
    BY <1>3 DEF OpenInv
  <2>3. CASE Accept
    <3>1. PICK e \in Descriptors :
             /\ owner[e] = NoClient /\ owner' = [owner EXCEPT ![e] = backlog[1]]
      BY <2>3, AcceptEffect
    <3>2. watched' = watched
      BY <2>3 DEF Accept
    <3> QED
      BY <1>3, <2>1, <2>2, <3>1, <3>2 DEF TypeInv
  <2>4. ASSUME NEW e \in Descriptors, Add(e) PROVE owner'[d] # NoClient
    BY <1>3, <2>2, <2>4 DEF Add
  <2>5. ASSUME NEW e \in Descriptors, Close(e) PROVE owner'[d] # NoClient
    <3>1. d \in watched /\ d # e
      BY <1>3, <2>5 DEF Close
    <3> QED
      BY <2>1, <2>2, <2>5, <3>1 DEF Close, TypeInv
  <2>6. ASSUME NEW e \in Descriptors, Recv(e) \/ Send(e) \/ Resend(e) \/ Clear(e)
        PROVE  owner'[d] # NoClient
    BY <1>3, <2>2, <2>6 DEF Recv, Send, Resend, Clear
  <2>7. CASE Main \/ UNCHANGED vars
    BY <1>3, <2>2, <2>7 DEF Main, Select, EpollWait, Copy, Dispatch, vars
  <2>8. CASE \E c \in Clients : Connect(c) \/ Ask(c) \/ Leave(c) \/ Reset(c)
    BY <1>3, <2>2, <2>8 DEF Connect, Ask, Leave, Reset
  <2> QED
    BY <2>3, <2>4, <2>5, <2>6, <2>7, <2>8 DEF Next, Handler
<1> QED
  BY <1>1, <1>2, <1>3 DEF OpenInv

\* What waits on a descriptor of a connection.
LEMMA AwaitsMeans ==
  \A d \in Descriptors :
     Awaits(d) <=> /\ owner[d] # NoClient /\ peer[owner[d]] # "gone"
                   /\ unread[owner[d]] > 0 \/ peer[owner[d]] # "open"
  BY DescriptorsFinite DEF Awaits, Ready, Hangup

\* A handler leaves no other descriptor unattended, nor its own before recv has
\* told it that nothing is left.
LEMMA HandlerMinds ==
  ASSUME TypeInv, OwnerInv, EdgeInv, Edge, ~Level, alive, NEW e \in Descriptors, Handler(e),
         NEW d \in Descriptors, d \in watched', Awaits(d)'
  PROVE  Minded(d)'
<1> USE DEF Phases
<1>1. e \in Watchable /\ d # lfd /\ e # lfd /\ HandlersType
  BY DescriptorsFinite DEF TypeInv, Watchable
<1>2. /\ owner'[d] # NoClient /\ peer'[owner'[d]] # "gone"
      /\ unread'[owner'[d]] > 0 \/ peer'[owner'[d]] # "open"
  <2>1. \A f \in Descriptors : Awaits(f)' =>
           /\ owner'[f] # NoClient /\ peer'[owner'[f]] # "gone"
           /\ unread'[owner'[f]] > 0 \/ peer'[owner'[f]] # "open"
    BY DescriptorsFinite DEF Awaits, Ready, Hangup
  <2> QED
    BY <2>1
<1>3. ASSUME NEW p \in Phases, NEW q \in Phases, p # q, At(p, e) > 0, Goes(p, e, q, e)
      PROVE  At(q, e)' > 0
  <2>1. At(q, e)' = At(q, e) + 1
    BY <1>1, <1>3, GoesEffect
  <2>2. At(q, e) \in Nat
    BY <1>1, AtType
  <2> QED
    BY <2>1, <2>2
<1>4. ASSUME d \in watched, Awaits(d) PROVE Minded(d)
  BY <1>1, <1>4 DEF EdgeInv, NoEdgeLost
<1>5. CASE d # e
  <2>1. owner'[d] = owner[d] /\ d \in watched /\ rdtemp' = rdtemp
        /\ (d \in events => d \in events')
    <3>1. CASE Add(e)
      BY <1>5, <3>1 DEF Add, RaiseEdge, main
    <3>2. CASE Recv(e) \/ Send(e) \/ Resend(e) \/ Clear(e)
      BY <1>5, <3>2 DEF Recv, Send, Resend, Clear, main
    <3>3. CASE Close(e)
      BY <1>1, <1>5, <3>3 DEF Close, main, TypeInv
    <3> QED
      BY <3>1, <3>2, <3>3 DEF Handler
  <2>2. Awaits(d)
    <3>1. owner[d] \in Clients /\ owner[d] # owner[e]
      BY <1>2, <1>5, <2>1 DEF TypeInv, OwnerInv
    <3>2. unread'[owner[d]] = unread[owner[d]] /\ peer'[owner[d]] = peer[owner[d]]
      <4>1. CASE Recv(e)
        BY <3>1, <4>1 DEF Recv, RecvSome, RecvEnd, RecvAgain, RecvError, TypeInv
      <4>2. CASE Add(e) \/ Send(e) \/ Resend(e) \/ Clear(e) \/ Close(e)
        BY <4>2 DEF Add, Send, Resend, Clear, Close, clients
      <4> QED
        BY <4>1, <4>2 DEF Handler
    <3> QED
      BY <1>2, <2>1, <3>2, AwaitsMeans
  <2>3. \A r \in Phases : At(r, d)' = At(r, d)
    BY <1>5, HandlerMoves DEF Watchable
  <2> QED
    BY <1>4, <2>1, <2>2, <2>3 DEF Minded
<1>6. ASSUME NEW p \in {"add", "resend"}, At(p, e) > 0, Ends(p, e), d = e, d \in watched,
             UNCHANGED <<owner, unread, peer, rdtemp>>, events \subseteq events'
      PROVE  Minded(d)'
  <2>1. \A r \in Phases \ {p} : At(r, e)' = At(r, e)
    BY <1>1, <1>6, EndsEffect
  <2>2. Minded(e)
    BY <1>2, <1>4, <1>6, AwaitsMeans
  <2> QED
    BY <1>6, <2>1, <2>2 DEF Minded
<1>7. CASE d = e /\ Add(e)
  <2>1. /\ UNCHANGED <<owner, unread, peer, rdtemp>>
        /\ At("add", e) > 0 /\ Ends("add", e) /\ events \subseteq events'
    BY <1>7 DEF Add, RaiseEdge, clients, main
  <2>2. CASE d \in watched
    BY <1>6, <1>7, <2>1, <2>2
  <2>3. CASE d \notin watched
    <3>1. Ready(e)
      BY <1>2, <1>7, <2>1, AwaitsMeans DEF Awaits
    <3>2. events' = events \union {f \in {e} : Ready(f)}
      BY <1>2, <1>7, <2>1, <2>3 DEF Add, RaiseEdge
    <3> QED
      BY <1>7, <3>1, <3>2 DEF Minded
  <2> QED
    BY <2>2, <2>3
<1>8. CASE d = e /\ Recv(e)
  <2>1. At("recv", e) > 0 /\ owner' = owner
    BY <1>8 DEF Recv
  <2>2. CASE RecvSome(e)
    BY <1>3, <1>8, <2>1, <2>2 DEF RecvSome, Minded
  <2>3. CASE RecvEnd(e)
    BY <1>3, <1>8, <2>1, <2>3 DEF RecvEnd, Minded
  <2>4. CASE RecvAgain(e)
    BY <1>2, <1>8, <2>1, <2>4 DEF RecvAgain
  <2>5. CASE RecvError(e)
    BY <1>2, <1>8, <2>1, <2>5 DEF RecvError, TypeInv
  <2> QED
    BY <1>8, <2>2, <2>3, <2>4, <2>5 DEF Recv
<1>9. CASE d = e /\ Send(e)
  BY <1>3, <1>9 DEF Send, AfterSend, Minded
<1>10. CASE d = e /\ Resend(e)
  BY <1>6, <1>10 DEF Resend, clients, main
<1>11. CASE d = e /\ (Clear(e) \/ Close(e))
  BY <1>2, <1>11 DEF Clear, Close, TypeInv
<1> QED
  BY <1>5, <1>7, <1>8, <1>9, <1>10, <1>11 DEF Handler

\* No step loses an edge: what raises one adds it to those not yet reported,
\* epoll_wait hands all of them to main, and main to handlers that go on until
\* nothing is left.
LEMMA EdgeStep ==
  TypeInv /\ OwnerInv /\ EdgeInv /\ [Next]_vars => EdgeInv'
<1> SUFFICES ASSUME TypeInv, OwnerInv, EdgeInv, [Next]_vars PROVE EdgeInv'
  OBVIOUS
<1>1. (Edge' <=> Edge) /\ (Edge => ~Level)
  BY EdgeProgram
<1>2. OpenInv' /\ EmptyInv'
  BY OpenStep DEF EdgeInv
<1>3. TypeInv'
  BY TypesStep
<1>4. ASSUME Edge, alive', NEW d \in watched' \ {lfd}, Awaits(d)'
      PROVE  Minded(d)'
  <2>1. alive /\ ~Level
    BY <1>1, <1>4 DEF Next, vars
  <2>2. d \in Descriptors /\ Descriptors \subseteq Watchable /\ lfd \in Watchable /\ lfd \notin Descriptors
    BY <1>3, DescriptorsFinite DEF TypeInv, Watchable
  <2>3. /\ \A f \in watched \ {lfd} : Awaits(f) => Minded(f)
        /\ mpc = "wait" => rdtemp = {}
    BY <1>4, <2>1 DEF EdgeInv, NoEdgeLost, EmptyInv
  <2>4. \A f \in Descriptors : f \in watched => owner[f] # NoClient
    BY <1>4, <2>2 DEF EdgeInv, OpenInv
  <2>5. /\ owner'[d] # NoClient /\ peer'[owner'[d]] # "gone"
        /\ unread'[owner'[d]] > 0 \/ peer'[owner'[d]] # "open"
    BY <1>4, <2>2 DEF Awaits, Ready, Hangup
  <2>6. ASSUME UNCHANGED <<owner, unread, peer, watched>> PROVE Awaits(d) /\ Minded(d)
    <3>1. Awaits(d)
      BY <2>2, <2>5, <2>6, AwaitsMeans
    <3> QED
      BY <1>4, <2>3, <2>6, <3>1
  <2>7. CASE UNCHANGED vars
    <3>1. UNCHANGED <<owner, unread, peer, watched, events, rdtemp, handlers>>
      BY <2>7 DEF vars, clients, main
    <3> QED
      BY <2>6, <3>1 DEF Minded, At
  <2>8. ASSUME NEW c \in Clients, Connect(c) \/ Ask(c) \/ Leave(c) \/ Reset(c) PROVE Minded(d)'
    <3>1. /\ UNCHANGED <<owner, watched, rdtemp, handlers>> /\ events \subseteq events'
          /\ d \in watched \ {lfd} /\ owner[d] \in Clients /\ peer[owner[d]] # "new"
      BY <1>4, <2>2, <2>5, <2>8 DEF Connect, Ask, Leave, Reset, RaiseEdge, main, TypeInv, OwnerInv
    <3>2. CASE owner[d] = c
      <4>1. ~ Connect(c)
        BY <3>1, <3>2 DEF Connect
      <4>2. EdgeOf(c) \subseteq events'
        BY <1>4, <2>8, <4>1 DEF Ask, Leave, Reset, RaiseEdge
      <4>3. d \in EdgeOf(c)
        BY <3>1, <3>2 DEF EdgeOf
      <4> QED
        BY <4>2, <4>3 DEF Minded
    <3>3. CASE owner[d] # c
      <4>1. unread'[owner[d]] = unread[owner[d]] /\ peer'[owner[d]] = peer[owner[d]]
        BY <2>8, <3>1, <3>3 DEF Connect, Ask, Leave, Reset, TypeInv
      <4>2. Awaits(d)
        BY <2>2, <2>5, <3>1, <4>1, AwaitsMeans
      <4>3. Minded(d)
        BY <2>3, <3>1, <4>2
      <4> QED
        BY <3>1, <4>3 DEF Minded, At
    <3> QED
      BY <3>2, <3>3
  <2>9. CASE EpollWait
    <3>1. /\ mpc = "wait" /\ rdtemp' = {f \in events : Ready(f)}
          /\ UNCHANGED <<owner, unread, peer, watched, handlers>>
      BY <2>9 DEF EpollWait, clients
    <3> QED
      BY <2>3, <2>6, <3>1 DEF Minded, At, Awaits
  <2>10. CASE Copy
    <3>1. rdtemp = {} /\ UNCHANGED <<owner, unread, peer, watched, events, handlers>>
      BY <2>10 DEF Copy, clients
    <3> QED
      BY <2>6, <3>1 DEF Minded, At
  <2>11. ASSUME NEW e \in Watchable, Dispatch(e) PROVE Minded(d)'
    <3> DEFINE x == <<IF e = lfd THEN "accept" ELSE "recv", e>>
               places == Phases \X Watchable
    <3>1. UNCHANGED <<owner, unread, peer, watched, events>> /\ rdtemp' = rdtemp \ {e}
      BY <2>11 DEF Dispatch, clients
    <3>2. handlers' = handlers \/ handlers' = [handlers EXCEPT ![x] = @ + 1]
      BY <2>11 DEF Dispatch
    <3>3. Minded(d)
      BY <2>6, <3>1
    <3>4. \A r \in {"recv", "send", "clear", "close"} : At(r, d) > 0 => At(r, d)' > 0
      <4>1. /\ handlers \in [places -> Nat]
            /\ \A r \in {"recv", "send", "clear", "close"} : <<r, d>> \in places
        BY <2>2 DEF TypeInv, HandlersType, Phases
      <4> HIDE DEF x, places
      <4>2. \A y \in places : handlers[y] > 0 => handlers'[y] > 0
        BY <3>2, <4>1
      <4> QED
        BY <4>1, <4>2 DEF At
    <3>5. CASE e # d
      BY <3>1, <3>3, <3>4, <3>5 DEF Minded
    <3>6. CASE e = d
      <4>1. d # lfd
        BY <2>2
      <4>2. CASE AtWork(d) >= MaxHandlers[program.trigger]
        <5>1. MaxHandlers[program.trigger] \in Nat \ {0}
          BY EventAssumption DEF TypeInv, AllPrograms
        <5>2. \A r \in {"recv", "send", "clear", "close"} : At(r, d) \in Nat
          BY <2>2, AtType DEF Phases
        <5>3. \E r \in {"recv", "send", "clear", "close"} : At(r, d) > 0
          BY <4>2, <5>1, <5>2 DEF AtWork
        <5> QED
          BY <3>4, <5>3 DEF Minded
      <4>3. CASE ~ (AtWork(d) >= MaxHandlers[program.trigger])
        <5>1. handlers' = [handlers EXCEPT ![<<"recv", d>>] = @ + 1]
          BY <2>11, <3>6, <4>1, <4>3 DEF Dispatch
        <5>2. <<"recv", d>> \in Phases \X Watchable
          BY <2>2 DEF Phases
        <5>3. At("recv", d)' > 0
          BY <5>1, <5>2 DEF At, TypeInv, HandlersType
        <5> QED
          BY <5>3 DEF Minded
      <4> QED
        BY <4>2, <4>3
    <3> QED
      BY <3>5, <3>6
  <2>12. CASE Accept
    <3>1. PICK e \in Descriptors :
             /\ owner[e] = NoClient /\ owner' = [owner EXCEPT ![e] = backlog[1]]
             /\ Goes("accept", lfd, "add", e)
      BY <2>12, AcceptEffect
    <3>2. /\ At("accept", lfd) > 0 /\ UNCHANGED <<unread, peer, watched, events, rdtemp>>
      BY <2>12 DEF Accept, clients, main
    <3>3. d # e /\ owner'[d] = owner[d]
      BY <1>4, <2>2, <2>4, <3>1, <3>2 DEF TypeInv
    <3>4. \A r \in {"recv", "send", "clear", "close"} : At(r, d)' = At(r, d)
      BY <2>2, <3>1, <3>2, <3>3, GoesEffect DEF TypeInv, Phases
    <3>5. Awaits(d)
      BY <2>2, <2>5, <3>2, <3>3, AwaitsMeans
    <3> QED
      BY <1>4, <2>3, <3>2, <3>4, <3>5 DEF Minded
  <2>13. ASSUME NEW e \in Descriptors, Handler(e) PROVE Minded(d)'
    BY <1>4, <2>1, <2>2, <2>13, HandlerMinds
  <2> QED
    BY <2>1, <2>7, <2>8, <2>9, <2>10, <2>11, <2>12, <2>13 DEF Next, Main, Select
<1>5. NoEdgeLost'
  BY <1>1, <1>4 DEF NoEdgeLost
<1> QED
  BY <1>2, <1>5 DEF EdgeInv

\* In both servers on epoll, and whoever has left by then, whatever waits on a
\* watched connection has an edge not yet reported, is still to be dispatched, or
\* has a handler that will look at it or close it, for any number of clients,
\* requests and threads.  Excepted are connections that a handler knows are broken.
THEOREM EdgesCorrect == Spec => []NoEdgeLost
<1>1. EdgeInv => NoEdgeLost
  BY DEF EdgeInv
<1> QED
  BY <1>1, EventsInit, TypesStep, EdgeInit, EdgeStep, PTL DEF Spec
=============================================================================
