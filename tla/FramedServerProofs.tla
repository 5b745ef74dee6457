------------------------- MODULE FramedServerProofs -------------------------
(***************************************************************************)
(* The framing server, for any number of clients, any length of the table, *)
(* any messages and any width of the length in front of them:              *)
(*   - ntohl undoes htonl (DecodeEncode);                                  *)
(*   - each client has a slot of the table until it is full                *)
(*     (SlotsCorrect);                                                     *)
(*   - the variables keep their types (FramedTypesCorrect);                *)
(*   - a thread with a slot of its own receives its client's messages      *)
(*     whole, in order and once (MessagesCorrect);                         *)
(*   - it implements channels of whole messages (ServerImplementsChannels).*)
(*                                                                         *)
(* The table needs nothing of the streams, for whatever a thread receives  *)
(* changes nothing in it.  The streams need the table: a thread that is    *)
(* alone in its slot reads and closes the descriptor of its own client     *)
(* (DescriptorInv), hence nobody else takes bytes from that stream.        *)
(***************************************************************************)
EXTENDS FramedServer, FiniteSetTheorems, SequenceTheorems, WellFoundedInduction, TLAPS

-----------------------------------------------------------------------------
(* Numbers *)

\* What accept and the scan of the slots choose exists.
LEMMA MinOfNaturals ==
  ASSUME NEW T \in SUBSET Nat, T # {}
  PROVE  Min(T) \in T /\ \A y \in T : Min(T) =< y
<1>1. PICK x \in T : \A y \in T : <<y, x>> \notin OpToRel(<, Nat)
  BY NatLessThanWellFounded, WFMin
<1>2. \A y \in T : ~ (y < x)
  BY <1>1 DEF OpToRel
<1>3. \A y \in T : x =< y
  BY <1>2
<1> QED
  BY <1>3 DEF Min


\* Induction over an interval, for the set of the numbers a fact holds of.
LEMMA IntervalInduction ==
  ASSUME NEW n \in Nat, NEW T, 0 \in T, \A k \in 1..n : k - 1 \in T => k \in T
  PROVE  \A k \in 0..n : k \in T
<1> DEFINE Without == {k \in 0..n : k \notin T}
<1> SUFFICES ASSUME Without # {} PROVE FALSE
  OBVIOUS
<1>1. Min(Without) \in Without /\ \A y \in Without : Min(Without) =< y
  <2>1. Without \in SUBSET Nat
    OBVIOUS
  <2> QED
    BY <2>1, MinOfNaturals
<1>2. PICK m \in Without : \A y \in Without : m =< y
  BY <1>1
<1>3. m \in 1..n
  BY <1>2
<1>4. m - 1 \notin Without /\ m - 1 \in 0..n
  BY <1>2, <1>3
<1> QED
  BY <1>2, <1>3, <1>4

\* A recursive definition over an interval has a value.
LEMMA Recursion ==
  ASSUME NEW n \in Nat, NEW S, NEW a \in S, NEW step \in [1..n -> [S -> S]]
  PROVE  \E f \in [0..n -> S] : f[0] = a /\ \A k \in 1..n : f[k] = step[k][f[k - 1]]
<1> DEFINE Upto(m) == \E f \in [0..m -> S] : f[0] = a /\ \A k \in 1..m : f[k] = step[k][f[k - 1]]
           T == {m \in 0..n : Upto(m)}
<1>1. Upto(0)
  <2>1. [k \in 0..0 |-> a] \in [0..0 -> S] /\ [k \in 0..0 |-> a][0] = a
    OBVIOUS
  <2>2. 1..0 = {}
    OBVIOUS
  <2> QED
    BY <2>1, <2>2
<1>2. ASSUME NEW m \in 1..n, Upto(m - 1) PROVE Upto(m)
  <2>1. PICK f \in [0..(m - 1) -> S] :
           f[0] = a /\ \A k \in 1..(m - 1) : f[k] = step[k][f[k - 1]]
    BY <1>2
  <2> DEFINE g == [k \in 0..m |-> IF k = m THEN step[m][f[m - 1]] ELSE f[k]]
  <2>2. f[m - 1] \in S /\ step[m][f[m - 1]] \in S
    BY <2>1
  <2>3. g \in [0..m -> S]
    BY <2>1, <2>2
  <2>4. g[0] = a
    BY <2>1
  <2>5. g[m] = step[m][f[m - 1]] /\ \A k \in 0..(m - 1) : g[k] = f[k]
    OBVIOUS
  <2> HIDE DEF g
  <2>6. ASSUME NEW k \in 1..m PROVE g[k] = step[k][g[k - 1]]
    <3>1. g[k - 1] = f[k - 1]
      BY <2>5
    <3>2. CASE k = m
      BY <2>5, <3>1, <3>2
    <3>3. CASE k # m
      <4>1. k \in 1..(m - 1) /\ k \in 0..(m - 1)
        BY <3>3
      <4> QED
        BY <2>1, <2>5, <3>1, <4>1
    <3> QED
      BY <3>2, <3>3
  <2> QED
    BY <2>3, <2>4, <2>6
<1> HIDE DEF Upto
<1>3. 0 \in T /\ \A k \in 1..n : k - 1 \in T => k \in T
  BY <1>1, <1>2
<1>4. \A k \in 0..n : k \in T
  <2> HIDE DEF T
  <2> QED
    BY <1>3, IntervalInduction
<1>5. Upto(n)
  BY <1>4
<1> QED
  BY <1>5 DEF Upto

\* The same with numbers as values.
LEMMA NumberRecursion ==
  ASSUME NEW n \in Nat, NEW a \in Nat, NEW step \in [1..n -> [Nat -> Nat]]
  PROVE  \E f \in [0..n -> Nat] : f[0] = a /\ \A k \in 1..n : f[k] = step[k][f[k - 1]]
<1> DEFINE Exists(S, b, s) ==
             \E f \in [0..n -> S] : f[0] = b /\ \A k \in 1..n : f[k] = s[k][f[k - 1]]
<1>1. \A S : \A b \in S : \A s \in [1..n -> [S -> S]] : Exists(S, b, s)
  BY Recursion
<1>2. Exists(Nat, a, step)
  <2> HIDE DEF Exists
  <2> QED
    BY <1>1
<1> QED
  BY <1>2

\* What a byte weighs is a positive number.
LEMMA PlaceFacts ==
  /\ Place[0] = 1
  /\ \A i \in 1..HEADER : Place[i] = Radix * Place[i - 1]
  /\ \A i \in 0..HEADER : Place[i] \in Nat \ {0}
<1> DEFINE Def(f) == f = [i \in 0..HEADER |-> IF i = 0 THEN 1 ELSE Radix * f[i - 1]]
           Exists(n, a) == \E f \in [0..n -> Nat] : f[0] = a /\ \A k \in 1..n : f[k] = Radix * f[k - 1]
<1>1. ASSUME NEW n \in Nat, NEW a \in Nat PROVE Exists(n, a)
  <2> DEFINE step == [k \in 1..n |-> [x \in Nat |-> Radix * x]]
  <2>1. step \in [1..n -> [Nat -> Nat]]
    BY FramedAssumption
  <2>2. PICK f \in [0..n -> Nat] : f[0] = a /\ \A k \in 1..n : f[k] = step[k][f[k - 1]]
    <3> HIDE DEF step
    <3> QED
      BY <2>1, NumberRecursion
  <2>3. \A k \in 1..n : f[k] = Radix * f[k - 1]
    <3> TAKE k \in 1..n
    <3>1. f[k - 1] \in Nat
      BY <2>2
    <3> QED
      BY <2>2, <3>1
  <2> QED
    BY <2>2, <2>3
<1>2. HEADER \in Nat
  BY FramedAssumption
<1>3. PICK f \in [0..HEADER -> Nat] : f[0] = 1 /\ \A k \in 1..HEADER : f[k] = Radix * f[k - 1]
  <2>1. Exists(HEADER, 1)
    <3> HIDE DEF Exists
    <3> QED
      BY <1>1, <1>2
  <2> QED
    BY <2>1
<1>4. Def(f)
  BY <1>3, <1>2
<1>5. Def(Place)
  <2> HIDE DEF Def
  <2>1. Place = CHOOSE g : Def(g)
    BY DEF Place, Def
  <2> QED
  BY <1>4, <2>1
<1>6. Place[0] = 1 /\ \A i \in 1..HEADER : Place[i] = Radix * Place[i - 1]
  BY <1>5, FramedAssumption
<1>7. \A i \in 0..HEADER : Place[i] \in Nat \ {0}
  <2> DEFINE T == {i \in 0..HEADER : Place[i] \in Nat \ {0}}
  <2>1. 0 \in T
    BY <1>2, <1>6
  <2>2. ASSUME NEW k \in 1..HEADER, k - 1 \in T PROVE k \in T
    <3>1. Place[k - 1] \in Nat \ {0} /\ Place[k] = Radix * Place[k - 1]
      BY <1>6, <2>2
    <3> QED
      BY <3>1, FramedAssumption
  <2>3. \A k \in 0..HEADER : k \in T
    <3> HIDE DEF T
    <3> QED
      BY <1>2, <2>1, <2>2, IntervalInduction
  <2> QED
    BY <2>3
<1> QED
  BY <1>6, <1>7

\* The worth of the first bytes of a length, one byte after the other, is less
\* than what the byte before them would weigh.
LEMMA WorthFacts ==
  ASSUME NEW bytes \in Seq(Byte)
  PROVE  /\ Worth(bytes)[0] = 0
         /\ \A k \in 1..HEADER :
               Worth(bytes)[k] = Radix * Worth(bytes)[k - 1]
                                    + (IF k =< Len(bytes) THEN bytes[k] ELSE 0)
         /\ \A k \in 0..HEADER : Worth(bytes)[k] \in 0..(Place[k] - 1)
<1> DEFINE digit(k) == IF k =< Len(bytes) THEN bytes[k] ELSE 0
           Def(f) == f = [k \in 0..HEADER |-> IF k = 0 THEN 0 ELSE Radix * f[k - 1] + digit(k)]
           Exists(n) == \E f \in [0..n -> Nat] :
                           f[0] = 0 /\ \A k \in 1..n : f[k] = Radix * f[k - 1] + digit(k)
<1>1. \A k \in Nat \ {0} : digit(k) \in Byte /\ digit(k) \in Nat /\ digit(k) < Radix
  BY FramedAssumption, ElementOfSeq DEF Byte
<1> HIDE DEF digit
<1>2. HEADER \in Nat /\ Radix \in Nat
  BY FramedAssumption
<1>3. ASSUME NEW n \in Nat PROVE Exists(n)
  <2> DEFINE step == [k \in 1..n |-> [x \in Nat |-> Radix * x + digit(k)]]
  <2>1. \A k \in 1..n : \A x \in Nat : Radix * x + digit(k) \in Nat
    <3> TAKE k \in 1..n
    <3>1. digit(k) \in Nat
      BY <1>1
    <3> QED
      BY <1>2, <3>1
  <2>2. step \in [1..n -> [Nat -> Nat]]
    BY <2>1
  <2>3. PICK f \in [0..n -> Nat] : f[0] = 0 /\ \A k \in 1..n : f[k] = step[k][f[k - 1]]
    <3> DEFINE Some(a) == \E f \in [0..n -> Nat] : f[0] = a /\ \A k \in 1..n : f[k] = step[k][f[k - 1]]
    <3> HIDE DEF step
    <3>1. \A a \in Nat : Some(a)
      BY <2>2, NumberRecursion
    <3>2. Some(0)
      <4> HIDE DEF Some
      <4> QED
        BY <3>1
    <3> QED
      BY <3>2
  <2>4. \A k \in 1..n : f[k] = Radix * f[k - 1] + digit(k)
    <3> TAKE k \in 1..n
    <3>1. f[k - 1] \in Nat
      BY <2>3
    <3> QED
      BY <2>3, <3>1
  <2> QED
    BY <2>3, <2>4
<1>4. PICK f \in [0..HEADER -> Nat] :
         f[0] = 0 /\ \A k \in 1..HEADER : f[k] = Radix * f[k - 1] + digit(k)
  <2>1. Exists(HEADER)
    <3> HIDE DEF Exists
    <3> QED
      BY <1>2, <1>3
  <2> QED
    BY <2>1
<1>5. Def(f)
  BY <1>2, <1>4
<1>6. Def(Worth(bytes))
  <2>1. Worth(bytes) = CHOOSE g : Def(g)
    BY DEF Worth, Def, digit
  <2> HIDE DEF Def
  <2> QED
    BY <1>5, <2>1
<1> DEFINE w == Worth(bytes)
<1>7. w[0] = 0 /\ \A k \in 1..HEADER : w[k] = Radix * w[k - 1] + digit(k)
  <2> HIDE DEF w
  <2>1. Def(w)
    BY <1>6 DEF w
  <2> QED
    BY <1>2, <2>1
<1>8. \A k \in 0..HEADER : w[k] \in 0..(Place[k] - 1)
  <2> DEFINE T == {k \in 0..HEADER : w[k] \in 0..(Place[k] - 1)}
  <2> HIDE DEF w
  <2>1. 0 \in T
    BY <1>2, <1>7, PlaceFacts
  <2>2. ASSUME NEW k \in 1..HEADER, k - 1 \in T PROVE k \in T
    <3>1. /\ w[k - 1] \in Nat /\ Place[k - 1] \in Nat /\ w[k - 1] =< Place[k - 1] - 1
          /\ w[k] = Radix * w[k - 1] + digit(k) /\ Place[k] = Radix * Place[k - 1]
      BY <1>2, <1>7, <2>2, PlaceFacts
    <3>2. digit(k) \in Nat /\ digit(k) < Radix
      BY <1>1
    <3>3. \A x, p, r, i \in Nat :
             x =< p - 1 /\ i < r => r * x + i \in Nat /\ r * x + i =< r * p - 1
      <4> TAKE x, p, r, i \in Nat
      <4>1. x =< p - 1 => r * x =< r * (p - 1)
        OBVIOUS
      <4>2. r * (p - 1) = r * p - r /\ r * x \in Nat /\ r * p \in Nat
        OBVIOUS
      <4> QED
        BY <4>1, <4>2
    <3>4. /\ Radix * w[k - 1] + digit(k) \in Nat
          /\ Radix * w[k - 1] + digit(k) =< Radix * Place[k - 1] - 1
      BY <1>2, <3>1, <3>2, <3>3, Zenon
    <3> QED
      BY <3>1, <3>4
  <2>3. \A k \in 0..HEADER : k \in T
    <3> HIDE DEF T
    <3> QED
      BY <1>2, <2>1, <2>2, IntervalInduction
  <2> QED
    BY <2>3
<1> QED
  BY <1>7, <1>8 DEF digit

\* A length of the type of recvMsg's: the bytes that are missing are 0.
LEMMA DecodeType ==
  ASSUME NEW bytes \in Seq(Byte) PROVE Decode(bytes) \in 0..(Place[HEADER] - 1)
BY WorthFacts, FramedAssumption DEF Decode

\* Encoding puts a number of bytes in the frame that does not depend on n.
LEMMA EncodeType ==
  ASSUME NEW n \in Nat
  PROVE  Encode(n) \in Seq(Byte) /\ Len(Encode(n)) = HEADER
<1>1. \A i \in 1..HEADER : (n \div Place[HEADER - i]) % Radix \in Byte
  <2> TAKE i \in 1..HEADER
  <2>1. Place[HEADER - i] \in Nat \ {0}
    BY PlaceFacts, FramedAssumption
  <2>2. n \div Place[HEADER - i] \in Nat
    BY <2>1
  <2> QED
    BY <2>2, FramedAssumption DEF Byte
<1>2. Encode(n) \in [1..HEADER -> Byte]
  BY <1>1 DEF Encode
<1> QED
  BY <1>2, FramedAssumption

\* Dividing twice is dividing by the product.
LEMMA DivDiv ==
  ASSUME NEW n \in Nat, NEW p \in Nat \ {0}, NEW r \in Nat \ {0}
  PROVE  n \div (r * p) = (n \div p) \div r
<1> DEFINE m == n \div p
           q == m \div r
<1>1. m \in Nat /\ p * m =< n /\ n < p * m + p
  OBVIOUS
<1>2. q \in Nat /\ r * q =< m /\ m =< r * q + r - 1
  BY <1>1
<1> HIDE DEF m, q
<1>3. p * (r * q) =< p * m /\ p * m + p =< p * (r * q) + p * r
  BY <1>1, <1>2
<1>4. (r * p) * q =< n /\ n < (r * p) * q + r * p
  BY <1>1, <1>2, <1>3
<1>5. r * p \in Nat \ {0}
  OBVIOUS
<1>6. \A d \in Nat \ {0} : d * q =< n /\ n < d * q + d => n \div d = q
  BY <1>2
<1> QED
  BY <1>4, <1>5, <1>6 DEF m, q

\* The length recvMsg decodes with ntohl is the one sendMsg has encoded with
\* htonl, for every length that fits the header.
THEOREM DecodeEncode ==
  ASSUME NEW n \in 0..(Place[HEADER] - 1)
  PROVE  Decode(Encode(n)) = n
<1> DEFINE bytes == Encode(n)
           w == Worth(bytes)
           T == {k \in 0..HEADER : w[k] = n \div Place[HEADER - k]}
<1>1. HEADER \in Nat \ {0} /\ Radix \in Nat \ {0} /\ n \in Nat
  BY PlaceFacts, FramedAssumption
<1>2. bytes \in Seq(Byte) /\ Len(bytes) = HEADER
  BY <1>1, EncodeType
<1>3. \A k \in 1..HEADER : bytes[k] = (n \div Place[HEADER - k]) % Radix
  BY DEF Encode
<1> HIDE DEF bytes
<1>4. w[0] = 0 /\ \A k \in 1..HEADER : w[k] = Radix * w[k - 1] + bytes[k]
  <2>1. w[0] = 0 /\ \A k \in 1..HEADER :
                       w[k] = Radix * w[k - 1] + (IF k =< Len(bytes) THEN bytes[k] ELSE 0)
    BY <1>2, WorthFacts
  <2> HIDE DEF w
  <2> QED
    BY <1>1, <1>2, <2>1
<1> HIDE DEF w
<1>5. 0 \in T
  <2>1. Place[HEADER] \in Nat \ {0} /\ n < Place[HEADER]
    BY <1>1, PlaceFacts
  <2>2. n \div Place[HEADER] = 0
    BY <1>1, <2>1
  <2> QED
    BY <1>1, <1>4, <2>2
<1>6. ASSUME NEW k \in 1..HEADER, k - 1 \in T PROVE k \in T
  <2> DEFINE p == Place[HEADER - k]
             m == n \div p
  <2>1. p \in Nat \ {0} /\ Place[HEADER - (k - 1)] = Radix * p
    <3>1. HEADER - k \in 0..HEADER /\ HEADER - k + 1 \in 1..HEADER
          /\ HEADER - (k - 1) = HEADER - k + 1 /\ HEADER - k + 1 - 1 = HEADER - k
      BY <1>1
    <3> QED
      BY <3>1, PlaceFacts
  <2> HIDE DEF p
  <2>2. m \in Nat
    BY <1>1, <2>1
  <2>3. w[k - 1] = m \div Radix
    <3>1. w[k - 1] = n \div Place[HEADER - (k - 1)]
      BY <1>6
    <3>2. n \div (Radix * p) = (n \div p) \div Radix
      BY <1>1, <2>1, DivDiv, Zenon
    <3> QED
      BY <2>1, <3>1, <3>2
  <2> HIDE DEF m
  <2>4. bytes[k] = m % Radix
    BY <1>3 DEF m, p
  <2>5. w[k] = m
    <3>1. \A a \in Nat : \A r \in Nat \ {0} : r * (a \div r) + (a % r) = a
      OBVIOUS
    <3>2. Radix * (m \div Radix) + (m % Radix) = m
      BY <1>1, <2>2, <3>1
    <3> QED
      BY <1>4, <2>3, <2>4, <3>2
  <2> QED
    BY <2>5 DEF m, p
<1>7. \A k \in 0..HEADER : k \in T
  <2> HIDE DEF T
  <2> QED
    BY <1>1, <1>5, <1>6, IntervalInduction
<1>8. w[HEADER] = n
  <2>1. w[HEADER] = n \div Place[HEADER - HEADER]
    BY <1>1, <1>7
  <2> QED
    BY <1>1, <2>1, PlaceFacts
<1> QED
  BY <1>8 DEF Decode, w, bytes

-----------------------------------------------------------------------------
(* The bytes on the wire *)

\* The bytes of the first k messages of a client, in the frames sendMsg puts
\* them in.
Wires(c) ==
    LET wire[k \in 0..Len(Text[c])] ==
          IF k = 0 THEN <<>> ELSE wire[k - 1] \o Frame(Text[c][k])
    IN  wire
Wire(c, k) == Wires(c)[k]

\* A sequence is what is taken from its front and what is left.
LEMMA TakeDrop ==
  ASSUME NEW S, NEW s \in Seq(S), NEW n \in 0..Len(s)
  PROVE  /\ Take(s, n) \in Seq(S) /\ Len(Take(s, n)) = n
         /\ \A i \in 1..n : Take(s, n)[i] = s[i]
         /\ Drop(s, n) \in Seq(S) /\ Len(Drop(s, n)) = Len(s) - n
         /\ Take(s, n) \o Drop(s, n) = s
<1>1. Len(s) \in Nat /\ \A i \in 1..Len(s) : s[i] \in S
  BY ElementOfSeq, LenProperties
<1>2. Take(s, n) \in Seq(S) /\ Len(Take(s, n)) = n /\ \A i \in 1..n : Take(s, n)[i] = s[i]
  BY <1>1, SubSeqProperties DEF Take
<1>3. /\ Drop(s, n) \in Seq(S) /\ Len(Drop(s, n)) = Len(s) - n
      /\ \A i \in 1..(Len(s) - n) : Drop(s, n)[i] = s[n + i]
  BY <1>1, SubSeqProperties DEF Drop
<1>4. Take(s, n) \o Drop(s, n) = s
  <2>1. 1 \in 1..Len(s) + 1 /\ n \in (1 - 1)..Len(s) /\ Len(s) \in n..Len(s)
    BY <1>1
  <2>2. SubSeq(s, 1, n) \o SubSeq(s, n + 1, Len(s)) = SubSeq(s, 1, Len(s))
    BY <2>1, ConcatAdjacentSubSeq, Zenon
  <2> QED
    BY <2>2, SubSeqFull DEF Take, Drop
<1> QED
  BY <1>2, <1>3, <1>4

\* The algebra of streams of bytes.
LEMMA Streams ==
  /\ <<>> \in Seq(Byte)
  /\ \A s \in Seq(Byte) : s \o <<>> = s /\ <<>> \o s = s
  /\ \A s, t \in Seq(Byte) :
        /\ s \o t \in Seq(Byte) /\ Len(s \o t) = Len(s) + Len(t)
        /\ s \o t = s => t = <<>>
        /\ s \o t = <<>> => t = <<>>
<1>1. \A s \in Seq(Byte) : s \o <<>> = s /\ <<>> \o s = s
  BY ConcatEmptySeq
<1>2. \A s, t \in Seq(Byte) :
         /\ s \o t \in Seq(Byte) /\ Len(s \o t) = Len(s) + Len(t)
         /\ s \o t = s => t = <<>>
         /\ s \o t = <<>> => t = <<>>
  BY ConcatProperties, ConcatEqualIffEmpty
<1> QED
  BY <1>1, <1>2, EmptySeq

\* Where the brackets stand does not matter.  The provers do better with a name
\* for the operator.
Cat(s, t) == s \o t

LEMMA Regroup == \A s, t, u \in Seq(Byte) : Cat(Cat(s, t), u) = Cat(s, Cat(t, u))
BY ConcatAssociative DEF Cat

\* Two streams that go on alike after the same bytes.
LEMMA Cancel == \A s, t, u \in Seq(Byte) : s \o t = s \o u => t = u
BY ConcatSimplifications, Zenon

\* Two ways to cut a sequence at the same place give the same parts.
LEMMA SameCut ==
  ASSUME NEW S, NEW s \in Seq(S), NEW t \in Seq(S), NEW u \in Seq(S), NEW v \in Seq(S),
         s \o t = u \o v, Len(s) = Len(u)
  PROVE  s = u /\ t = v
<1>1. \A i \in 1..Len(s) : (s \o t)[i] = s[i] /\ (u \o v)[i] = u[i]
  BY ConcatProperties, LenProperties
<1>2. s = u
  BY <1>1, SeqEqual
<1> QED
  <2>1. s \o t = s \o v
    BY <1>2
  <2> QED
    BY <1>2, <2>1, ConcatSimplifications, Zenon

\* A message and its frame.
LEMMA FrameFacts ==
  ASSUME NEW c \in Clients, NEW k \in 1..Len(Text[c])
  PROVE  /\ Text[c][k] \in Seq(Byte) /\ Len(Text[c][k]) \in 1..(Place[HEADER] - 1)
         /\ Encode(Len(Text[c][k])) \in Seq(Byte) /\ Len(Encode(Len(Text[c][k]))) = HEADER
         /\ Frame(Text[c][k]) = Encode(Len(Text[c][k])) \o Text[c][k]
         /\ Frame(Text[c][k]) \in Seq(Byte) /\ Frame(Text[c][k]) # <<>>
<1>1. Text[c] \in Seq(Seq(Byte))
  BY FramedAssumption
<1>2. Text[c][k] \in Seq(Byte) /\ Len(Text[c][k]) \in 1..(Place[HEADER] - 1)
  BY <1>1, ElementOfSeq, FramedAssumption
<1>3. Encode(Len(Text[c][k])) \in Seq(Byte) /\ Len(Encode(Len(Text[c][k]))) = HEADER
  BY <1>2, EncodeType
<1>4. Frame(Text[c][k]) \in Seq(Byte) /\ Len(Frame(Text[c][k])) = HEADER + Len(Text[c][k])
  BY <1>2, <1>3, ConcatProperties DEF Frame
<1>5. Frame(Text[c][k]) # <<>>
  BY <1>2, <1>4, FramedAssumption
<1> QED
  BY <1>2, <1>3, <1>4, <1>5 DEF Frame

\* The bytes of the first k messages of a client, in the frames sendMsg puts
\* them in.
LEMMA WireFacts ==
  ASSUME NEW c \in Clients
  PROVE  /\ Wire(c, 0) = <<>>
         /\ \A k \in 1..Len(Text[c]) : Wire(c, k) = Wire(c, k - 1) \o Frame(Text[c][k])
         /\ \A k \in 0..Len(Text[c]) : Wire(c, k) \in Seq(Byte)
<1> DEFINE frame(k) == Frame(Text[c][k])
           Def(f) == f = [k \in 0..Len(Text[c]) |-> IF k = 0 THEN <<>> ELSE f[k - 1] \o frame(k)]
           Exists(n) == \E f \in [0..n -> Seq(Byte)] :
                           f[0] = <<>> /\ \A k \in 1..n : f[k] = f[k - 1] \o frame(k)
<1>1. Len(Text[c]) \in Nat
  BY FramedAssumption
<1>2. \A k \in 1..Len(Text[c]) : frame(k) \in Seq(Byte)
  BY FrameFacts
<1> HIDE DEF frame
<1>3. ASSUME NEW n \in Nat, n =< Len(Text[c]) PROVE Exists(n)
  <2> DEFINE step == [k \in 1..n |-> [x \in Seq(Byte) |-> x \o frame(k)]]
  <2>1. \A k \in 1..n : \A x \in Seq(Byte) : x \o frame(k) \in Seq(Byte)
    <3> TAKE k \in 1..n
    <3>1. frame(k) \in Seq(Byte)
      BY <1>1, <1>2, <1>3
    <3> QED
      BY <3>1, ConcatProperties
  <2>2. step \in [1..n -> [Seq(Byte) -> Seq(Byte)]]
    BY <2>1
  <2>3. PICK f \in [0..n -> Seq(Byte)] : f[0] = <<>> /\ \A k \in 1..n : f[k] = step[k][f[k - 1]]
    <3> DEFINE Some(S, a, s) ==
                 \E f \in [0..n -> S] : f[0] = a /\ \A k \in 1..n : f[k] = s[k][f[k - 1]]
    <3>1. \A S : \A a \in S : \A s \in [1..n -> [S -> S]] : Some(S, a, s)
      BY Recursion
    <3>2. <<>> \in Seq(Byte)
      OBVIOUS
    <3>3. Some(Seq(Byte), <<>>, step)
      <4> HIDE DEF Some, step
      <4> QED
        BY <2>2, <3>1, <3>2
    <3> QED
      BY <3>3
  <2>4. \A k \in 1..n : f[k] = f[k - 1] \o frame(k)
    <3> TAKE k \in 1..n
    <3>1. f[k - 1] \in Seq(Byte)
      BY <2>3
    <3> QED
      BY <2>3, <3>1
  <2> QED
    BY <2>3, <2>4
<1>4. PICK f \in [0..Len(Text[c]) -> Seq(Byte)] :
         f[0] = <<>> /\ \A k \in 1..Len(Text[c]) : f[k] = f[k - 1] \o frame(k)
  <2>1. Exists(Len(Text[c]))
    <3> HIDE DEF Exists
    <3> QED
      BY <1>1, <1>3
  <2> QED
    BY <2>1
<1>5. Def(f)
  BY <1>1, <1>4
<1>6. Def(Wires(c))
  <2>1. Wires(c) = CHOOSE g : Def(g)
    BY DEF Wires, Def, frame
  <2> HIDE DEF Def
  <2> QED
    BY <1>5, <2>1
<1> DEFINE w == Wires(c)
<1>7. w[0] = <<>> /\ \A k \in 1..Len(Text[c]) : w[k] = w[k - 1] \o frame(k)
  <2> HIDE DEF w
  <2>1. Def(w)
    BY <1>6 DEF w
  <2> QED
    <3>1. w[0] = <<>>
      BY <1>1, <2>1
    <3>2. ASSUME NEW k \in 1..Len(Text[c]) PROVE w[k] = w[k - 1] \o frame(k)
      <4>1. k \in 0..Len(Text[c]) /\ k # 0
        BY <1>1
      <4> QED
        BY <2>1, <4>1
    <3> QED
      BY <3>1, <3>2
<1>8. \A k \in 0..Len(Text[c]) : w[k] \in Seq(Byte)
  <2> DEFINE T == {k \in 0..Len(Text[c]) : w[k] \in Seq(Byte)}
  <2> HIDE DEF w
  <2>1. 0 \in T
    BY <1>1, <1>7
  <2>2. ASSUME NEW k \in 1..Len(Text[c]), k - 1 \in T PROVE k \in T
    <3>1. w[k - 1] \in Seq(Byte) /\ w[k] = w[k - 1] \o frame(k) /\ frame(k) \in Seq(Byte)
      BY <1>2, <1>7, <2>2
    <3>2. w[k] \in Seq(Byte)
      BY <3>1, ConcatProperties
    <3> QED
      BY <1>1, <3>2
  <2>3. \A k \in 0..Len(Text[c]) : k \in T
    <3> HIDE DEF T
    <3> QED
      BY <1>1, <2>1, <2>2, IntervalInduction
  <2> QED
    BY <2>3
<1> QED
  BY <1>7, <1>8 DEF frame, Wire

\* What comes later on the wire comes behind what comes earlier.
LEMMA WirePrefix ==
  ASSUME NEW c \in Clients, NEW k \in 0..Len(Text[c]), NEW j \in k..Len(Text[c])
  PROVE  \E s \in Seq(Byte) : Wire(c, j) = Wire(c, k) \o s
<1> DEFINE w(i) == Wire(c, i)
           T == {i \in 0..Len(Text[c]) : k =< i => \E s \in Seq(Byte) : w(i) = w(k) \o s}
<1>1. Len(Text[c]) \in Nat
  BY FramedAssumption
<1>2. /\ \A i \in 1..Len(Text[c]) : w(i) = w(i - 1) \o Frame(Text[c][i])
      /\ \A i \in 0..Len(Text[c]) : w(i) \in Seq(Byte)
  BY WireFacts
<1> HIDE DEF w
<1>3. \E s \in Seq(Byte) : w(k) = w(k) \o s
  <2>1. w(k) = w(k) \o <<>> /\ <<>> \in Seq(Byte)
    BY <1>2, ConcatEmptySeq
  <2> QED
    BY <2>1
<1>4. 0 \in T
  BY <1>1, <1>3
<1>5. ASSUME NEW i \in 1..Len(Text[c]), i - 1 \in T PROVE i \in T
  <2>1. CASE k =< i - 1
    <3>1. PICK s \in Seq(Byte) : w(i - 1) = w(k) \o s
      BY <1>5, <2>1
    <3>2. w(i) = (w(k) \o s) \o Frame(Text[c][i])
      BY <1>2, <3>1
    <3>3. Frame(Text[c][i]) \in Seq(Byte)
      BY FrameFacts
    <3>4. s \o Frame(Text[c][i]) \in Seq(Byte)
      BY <3>3, ConcatProperties
    <3>5. w(i) = w(k) \o (s \o Frame(Text[c][i]))
      <4>1. w(k) \in Seq(Byte)
        BY <1>2
      <4> QED
        <5>1. (w(k) \o s) \o Frame(Text[c][i]) = w(k) \o (s \o Frame(Text[c][i]))
          <6>1. Cat(Cat(w(k), s), Frame(Text[c][i])) = Cat(w(k), Cat(s, Frame(Text[c][i])))
            BY <3>3, <4>1, Regroup
          <6> QED
            BY <6>1 DEF Cat
        <5> QED
          BY <3>2, <5>1
    <3>6. \E r \in Seq(Byte) : w(i) = w(k) \o r
      BY <3>4, <3>5
    <3>7. i \in 0..Len(Text[c])
      BY <1>1
    <3> QED
      BY <3>6, <3>7
  <2>2. CASE k = i
    BY <1>3, <2>2
  <2>3. CASE k > i
    BY <2>3
  <2> QED
    BY <1>1, <2>1, <2>2, <2>3
<1>6. \A i \in 0..Len(Text[c]) : i \in T
  <2> HIDE DEF T
  <2> QED
    BY <1>1, <1>4, <1>5, IntervalInduction
<1> QED
  <2>1. j \in 0..Len(Text[c]) /\ k =< j
    BY <1>1
  <2>2. j \in T
    BY <1>6, <2>1
  <2> QED
    BY <2>1, <2>2 DEF w

\* What has been read after the first k messages is the length of the next one
\* once all of its bytes are there, and that message once that many bytes have
\* followed, behind which the rest of the stream begins.
NextOn(c, k, j, read, rest) ==
    /\ k < j
    /\ Len(read) = HEADER => read = Encode(Len(Text[c][k + 1]))
    /\ \A n \in 1..(Place[HEADER] - 1) : \A b \in Seq(Byte) :
          read = Encode(n) \o b /\ Len(b) = n =>
             /\ b = Text[c][k + 1]
             /\ Wire(c, j) = Wire(c, k + 1) \o rest
             /\ k + 1 = j => rest = <<>>

\* The wire of j messages can be read one message after the other.
LEMMA Reading ==
  ASSUME NEW c \in Clients, NEW k \in 0..Len(Text[c]), NEW j \in k..Len(Text[c]),
         NEW read \in Seq(Byte), NEW rest \in Seq(Byte), Len(read) >= HEADER,
         Wire(c, j) = Wire(c, k) \o (read \o rest)
  PROVE  NextOn(c, k, j, read, rest)
<1>1. Len(Text[c]) \in Nat /\ HEADER \in Nat \ {0}
  BY FramedAssumption
<1>2. read \o rest \in Seq(Byte) /\ Len(read \o rest) = Len(read) + Len(rest)
      /\ Len(read) \in Nat /\ Len(rest) \in Nat
  BY ConcatProperties, LenProperties
<1>3. read \o rest # <<>>
  BY <1>1, <1>2
<1>4. Wire(c, k) \in Seq(Byte) /\ k \in Nat /\ j \in Nat /\ k =< j /\ j =< Len(Text[c])
  <2>1. Wire(c, k) \in Seq(Byte)
    BY WireFacts
  <2> QED
    BY <1>1, <2>1
<1>5. k # j
  <2> SUFFICES ASSUME k = j PROVE FALSE
    OBVIOUS
  <2>1. Wire(c, k) \o (read \o rest) = Wire(c, k)
    OBVIOUS
  <2> QED
    BY <1>2, <1>3, <1>4, <2>1, Streams
<1>6. PICK m \in 1..Len(Text[c]) : m = k + 1 /\ m - 1 = k /\ j \in m..Len(Text[c])
  BY <1>1, <1>4, <1>5
<1> DEFINE msg == Text[c][m]
           code == Encode(Len(msg))
<1>7. /\ msg \in Seq(Byte) /\ Len(msg) \in 1..(Place[HEADER] - 1)
      /\ code \in Seq(Byte) /\ Len(code) = HEADER /\ Frame(msg) = code \o msg
      /\ Frame(msg) \in Seq(Byte)
  BY FrameFacts
<1>8. Wire(c, m) = Wire(c, k) \o Frame(msg) /\ Wire(c, m) \in Seq(Byte)
  <2>1. m \in 0..Len(Text[c])
    BY <1>1
  <2> QED
    BY <1>6, <2>1, WireFacts
<1>9. PICK q \in Seq(Byte) : Wire(c, j) = Wire(c, m) \o q
  <2>1. m \in 0..Len(Text[c])
    BY <1>1
  <2> QED
    BY <1>6, <2>1, WirePrefix
<1> HIDE DEF msg, code
<1>10. /\ Frame(msg) \o q \in Seq(Byte) /\ msg \o q \in Seq(Byte)
       /\ (Wire(c, k) \o Frame(msg)) \o q = Wire(c, k) \o (Frame(msg) \o q)
       /\ (code \o msg) \o q = code \o (msg \o q)
  <2>1. Frame(msg) \o q \in Seq(Byte) /\ msg \o q \in Seq(Byte)
    BY <1>7, Streams
  <2>2. (Wire(c, k) \o Frame(msg)) \o q = Wire(c, k) \o (Frame(msg) \o q)
    <3> DEFINE w == Wire(c, k)
               f == Frame(msg)
    <3>1. w \in Seq(Byte) /\ f \in Seq(Byte)
      BY <1>4, <1>7
    <3> HIDE DEF w, f
    <3>2. Cat(Cat(w, f), q) = Cat(w, Cat(f, q))
      BY <3>1, Regroup
    <3> QED
      BY <3>2 DEF Cat, w, f
  <2>3. (code \o msg) \o q = code \o (msg \o q)
    <3>1. Cat(Cat(code, msg), q) = Cat(code, Cat(msg, q))
      BY <1>7, Regroup
    <3> QED
      BY <3>1 DEF Cat
  <2> QED
    BY <2>1, <2>2, <2>3
<1>11. read \o rest = code \o (msg \o q)
  <2>1. Wire(c, k) \o (read \o rest) = Wire(c, k) \o (Frame(msg) \o q)
    BY <1>8, <1>9, <1>10
  <2>2. read \o rest = Frame(msg) \o q
    BY <1>2, <1>4, <1>10, <2>1, Cancel
  <2> QED
    BY <1>7, <1>10, <2>2
<1>12. Len(read) = HEADER => read = code
  BY <1>7, <1>10, <1>11, SameCut
<1>13. ASSUME NEW n \in 1..(Place[HEADER] - 1), NEW b \in Seq(Byte),
              read = Encode(n) \o b, Len(b) = n
       PROVE  b = msg /\ Wire(c, j) = Wire(c, m) \o rest /\ (m = j => rest = <<>>)
  <2>1. Encode(n) \in Seq(Byte) /\ Len(Encode(n)) = HEADER
    BY EncodeType
  <2>2. Encode(n) \o (b \o rest) = code \o (msg \o q) /\ b \o rest \in Seq(Byte)
    <3>1. (Encode(n) \o b) \o rest = Encode(n) \o (b \o rest)
      <4>1. Cat(Cat(Encode(n), b), rest) = Cat(Encode(n), Cat(b, rest))
        BY <2>1, Regroup
      <4> QED
        BY <4>1 DEF Cat
    <3>2. b \o rest \in Seq(Byte)
      BY Streams
    <3> QED
      BY <1>11, <1>13, <3>1, <3>2
  <2>3. Encode(n) = code /\ b \o rest = msg \o q
    <3> DEFINE e == Encode(n)
               f == b \o rest
               g == msg \o q
    <3>1. /\ e \in Seq(Byte) /\ f \in Seq(Byte) /\ g \in Seq(Byte)
          /\ e \o f = code \o g /\ Len(e) = Len(code)
      BY <1>7, <1>10, <2>1, <2>2
    <3> HIDE DEF e, f, g
    <3>2. e = code /\ f = g
      BY <1>7, <3>1, SameCut
    <3> QED
      BY <3>2 DEF e, f, g
  <2>4. n = Len(msg)
    <3>1. Decode(Encode(n)) = n
      BY DecodeEncode
    <3>2. Decode(code) = Len(msg)
      BY <1>7, DecodeEncode DEF code
    <3> QED
      BY <2>3, <3>1, <3>2
  <2>5. b = msg /\ rest = q
    BY <1>7, <1>13, <2>3, <2>4, SameCut
  <2>6. m = j => rest = <<>>
    <3> SUFFICES ASSUME m = j PROVE rest = <<>>
      OBVIOUS
    <3>1. Wire(c, m) \o q = Wire(c, m)
      BY <1>9
    <3> QED
      BY <1>8, <2>5, <3>1, Streams
  <2> QED
    BY <1>9, <2>5, <2>6
<1>14. k < j
  BY <1>4, <1>5
<1> QED
  BY <1>6, <1>12, <1>13, <1>14 DEF msg, code, NextOn

-----------------------------------------------------------------------------
(* The table *)

\* There are as many descriptors as clients, and MaxClients slots.
LEMMA DescriptorsFinite ==
  /\ Cardinality(Clients) \in Nat
  /\ IsFiniteSet(Descriptors) /\ Cardinality(Descriptors) = Cardinality(Clients)
  /\ IsFiniteSet(Slots) /\ Cardinality(Slots) = MaxClients
<1>1. Cardinality(Clients) \in Nat
  BY FramedAssumption, FS_CardinalityType
<1>2. IsFiniteSet(Descriptors) /\ Cardinality(Descriptors) = Cardinality(Clients)
  BY <1>1, FS_Interval DEF Descriptors
<1>3. IsFiniteSet(Slots) /\ Cardinality(Slots) = MaxClients
  BY FramedAssumption, FS_Interval DEF Slots
<1> QED
  BY <1>1, <1>2, <1>3

TableType ==
    /\ owner \in [Descriptors -> Clients \union {NoClient}]
    /\ infos \in [Slots -> Descriptors \union {-1}] /\ pinfo \in Slots
    /\ phase \in [Clients -> Phases] /\ slot \in [Clients -> Slots]
    /\ peer \in [Clients -> {"new", "open", "done", "gone", "reset"}]
    /\ backlog \in Seq(Clients)

\* A client waits for accept at most once, and has no thread yet.
BacklogInv ==
    /\ \A c \in Clients : peer[c] = "new" => phase[c] = "none"
    /\ \A i \in 1..Len(backlog) : peer[backlog[i]] # "new" /\ phase[backlog[i]] = "none"
    /\ \A i, j \in 1..Len(backlog) : backlog[i] = backlog[j] => i = j

\* An open descriptor belongs to a client that was accepted, which has no other.
OwnerInv ==
    /\ \A d \in Descriptors : owner[d] # NoClient => phase[owner[d]] # "none"
    /\ \A d, e \in Descriptors : owner[d] # NoClient /\ owner[d] = owner[e] => d = e

\* The slots in use are those of the accepted clients, and two of them share
\* one only if none is free.
SlotInv ==
    /\ \A c \in Accepted : infos[slot[c]] # -1
    /\ \A s \in Slots : infos[s] # -1 => \E c \in Accepted : slot[c] = s
    /\ (\E c \in Accepted : ~Private(c)) =>
          FreeSlots = {} /\ Cardinality(Accepted) > MaxClients

TableInv == TableType /\ BacklogInv /\ OwnerInv /\ SlotInv

-----------------------------------------------------------------------------
(* What the actions do to the table *)

\* Accepting finds a free descriptor, since a client that waits has none.
LEMMA DescriptorFree ==
  ASSUME TableType, BacklogInv, OwnerInv, backlog # <<>>
  PROVE  Min({i \in Descriptors : owner[i] = NoClient})
            \in {i \in Descriptors : owner[i] = NoClient}
<1> DEFINE Free == {i \in Descriptors : owner[i] = NoClient}
           Others == Clients \ {Head(backlog)}
<1>1. Head(backlog) \in Clients /\ Head(backlog) = backlog[1] /\ 1 \in 1..Len(backlog)
  BY DEF TableType
<1>2. IsFiniteSet(Others) /\ Cardinality(Others) = Cardinality(Clients) - 1
  BY <1>1, FramedAssumption, FS_RemoveElement
<1>3. Free # {}
  <2> SUFFICES ASSUME Free = {} PROVE FALSE
    OBVIOUS
  <2>1. \A d \in Descriptors : owner[d] # NoClient /\ owner[d] \in Clients
    BY DEF TableType
  <2>2. \A d \in Descriptors : owner[d] # Head(backlog)
    BY <1>1, <2>1 DEF BacklogInv, OwnerInv
  <2>3. owner \in [Descriptors -> Others]
    BY <2>1, <2>2 DEF TableType
  <2>4. \E d, e \in Descriptors : d # e /\ owner[d] = owner[e]
    BY <1>2, <2>3, DescriptorsFinite, FS_PigeonHole
  <2> QED
    BY <2>1, <2>4 DEF OwnerInv
<1>4. Free \in SUBSET Nat
  BY FramedAssumption, FS_CardinalityType DEF Descriptors
<1> QED
  BY <1>3, <1>4, MinOfNaturals

\* With no slot free there are as many accepted clients as slots.
LEMMA FullTable ==
  ASSUME TableType, SlotInv, FreeSlots = {}
  PROVE  IsFiniteSet(Accepted) /\ Cardinality(Accepted) >= MaxClients
<1>1. IsFiniteSet(Accepted)
  BY FramedAssumption, FS_Subset DEF Accepted
<1> DEFINE slotOf == [c \in Accepted |-> slot[c]]
<1>2. slotOf \in Surjection(Accepted, Slots)
  <2>1. slotOf \in [Accepted -> Slots]
    BY DEF TableType, Accepted
  <2>2. \A s \in Slots : \E c \in Accepted : slotOf[c] = s
    BY DEF SlotInv, FreeSlots
  <2> QED
    BY <2>1, <2>2 DEF Surjection
<1> QED
  BY <1>1, <1>2, FS_Surjection, DescriptorsFinite, FS_CardinalityType, FramedAssumption

\* main sets every slot to -1 before it accepts.
LEMMA TableInit == Init => TableInv
  BY FramedAssumption DEF Init, TableInv, TableType, BacklogInv, OwnerInv, SlotInv,
     Accepted, Phases, Slots

\* The client that was waiting longest gets a free descriptor, and a free slot
\* or the one of the client before it.
LEMMA AcceptEffect ==
  ASSUME TableType, BacklogInv, OwnerInv, Accept
  PROVE  \E c \in Clients, d \in Descriptors, s \in Slots :
            /\ c = backlog[1] /\ phase[c] = "none" /\ owner[d] = NoClient
            /\ IF FreeSlots = {} THEN s = pinfo ELSE s \in FreeSlots
            /\ owner' = [owner EXCEPT ![d] = c]
            /\ infos' = [infos EXCEPT ![s] = d] /\ pinfo' = s
            /\ slot' = [slot EXCEPT ![c] = s]
            /\ phase' = [phase EXCEPT ![c] = "call"]
            /\ backlog # <<>> /\ backlog' = Tail(backlog)
            /\ UNCHANGED <<client, net, fd, len, buf, got>>
<1> DEFINE c == Head(backlog)
           d == Min({i \in Descriptors : owner[i] = NoClient})
           s == IF FreeSlots = {} THEN pinfo ELSE Min(FreeSlots)
<1>1. d \in Descriptors /\ owner[d] = NoClient
  BY DescriptorFree DEF Accept
<1>2. FreeSlots # {} => s \in FreeSlots
  BY MinOfNaturals DEF FreeSlots, Slots
<1>3. s \in Slots
  BY <1>2 DEF FreeSlots, TableType
<1>4. c \in Clients /\ c = backlog[1] /\ 1 \in 1..Len(backlog)
  BY DEF TableType, Accept
<1>5. phase[c] = "none"
  BY <1>4 DEF BacklogInv
<1>6. /\ owner' = [owner EXCEPT ![d] = c]
      /\ infos' = [infos EXCEPT ![s] = d] /\ pinfo' = s
      /\ slot' = [slot EXCEPT ![c] = s]
      /\ phase' = [phase EXCEPT ![c] = "call"]
      /\ backlog # <<>> /\ backlog' = Tail(backlog)
      /\ UNCHANGED <<client, net, fd, len, buf, got>>
  BY DEF Accept
<1>7. IF FreeSlots = {} THEN s = pinfo ELSE s \in FreeSlots
  BY <1>2
<1> HIDE DEF c, d, s
<1> QED
  BY <1>1, <1>3, <1>4, <1>5, <1>6, <1>7

\* main gives the new client a free slot, or one more client shares them.
LEMMA AcceptStep == TableInv /\ Accept => TableInv'
<1> SUFFICES ASSUME TableInv, Accept PROVE TableInv'
  OBVIOUS
<1>1. PICK c \in Clients, d \in Descriptors, s \in Slots :
         /\ c = backlog[1] /\ phase[c] = "none" /\ owner[d] = NoClient
         /\ IF FreeSlots = {} THEN s = pinfo ELSE s \in FreeSlots
         /\ owner' = [owner EXCEPT ![d] = c]
         /\ infos' = [infos EXCEPT ![s] = d] /\ pinfo' = s
         /\ slot' = [slot EXCEPT ![c] = s]
         /\ phase' = [phase EXCEPT ![c] = "call"]
         /\ backlog # <<>> /\ backlog' = Tail(backlog)
         /\ UNCHANGED <<client, net, fd, len, buf, got>>
  BY AcceptEffect DEF TableInv
<1>2. FreeSlots # {} => s \in FreeSlots
  BY <1>1
<1>3. s \in Slots
  OBVIOUS
<1>4. /\ c \in Clients /\ c = backlog[1] /\ 1 \in 1..Len(backlog)
      /\ Tail(backlog) \in Seq(Clients) /\ Len(Tail(backlog)) = Len(backlog) - 1
      /\ \A i \in 1..Len(Tail(backlog)) : Tail(backlog)[i] = backlog[i + 1] /\ i + 1 \in 1..Len(backlog)
  BY <1>1, HeadTailProperties DEF TableInv, TableType
<1>5. phase[c] = "none" /\ c \notin Accepted
  BY <1>1 DEF Accepted
<1>6. /\ owner' = [owner EXCEPT ![d] = c]
      /\ infos' = [infos EXCEPT ![s] = d] /\ pinfo' = s
      /\ slot' = [slot EXCEPT ![c] = s]
      /\ phase' = [phase EXCEPT ![c] = "call"]
      /\ backlog' = Tail(backlog) /\ peer' = peer
  BY <1>1 DEF client
<1>7. TableType'
  BY <1>1, <1>3, <1>4, <1>6 DEF TableInv, TableType, Phases
<1>8. BacklogInv'
  <2>1. \A i \in 1..Len(Tail(backlog)) : Tail(backlog)[i] # c
    BY <1>4 DEF TableInv, BacklogInv
  <2>2. peer[c] # "new"
    BY <1>4 DEF TableInv, BacklogInv
  <2>3. \A b \in Clients : peer'[b] = "new" => phase'[b] = "none"
    BY <1>6, <2>2 DEF TableInv, TableType, BacklogInv
  <2>4. \A i \in 1..Len(Tail(backlog)) : Tail(backlog)[i] \in Clients
    BY <1>4, ElementOfSeq
  <2>5. \A i \in 1..Len(backlog') : peer'[backlog'[i]] # "new" /\ phase'[backlog'[i]] = "none"
    BY <1>4, <1>6, <2>1, <2>4 DEF TableInv, TableType, BacklogInv
  <2>6. \A i, j \in 1..Len(backlog') : backlog'[i] = backlog'[j] => i = j
    BY <1>4, <1>6 DEF TableInv, BacklogInv
  <2> QED
    BY <2>3, <2>5, <2>6 DEF BacklogInv
<1>9. OwnerInv'
  BY <1>1, <1>4, <1>5, <1>6 DEF TableInv, TableType, OwnerInv
<1>10. Accepted' = Accepted \union {c}
  BY <1>4, <1>6 DEF TableInv, TableType, Accepted
<1>11. \A b \in Accepted : slot'[b] = slot[b]
  BY <1>5, <1>6 DEF TableInv, TableType, Accepted
<1>12. slot'[c] = s /\ infos'[s] = d /\ d # -1
  BY <1>1, <1>3, <1>4, <1>6, DescriptorsFinite DEF TableInv, TableType, Descriptors
<1>13. \A b \in Accepted' : infos'[slot'[b]] # -1
  BY <1>3, <1>6, <1>10, <1>11, <1>12 DEF TableInv, TableType, SlotInv, Accepted
<1>14. \A r \in Slots : infos'[r] # -1 => \E b \in Accepted' : slot'[b] = r
  BY <1>3, <1>6, <1>10, <1>11, <1>12 DEF TableInv, TableType, SlotInv
<1>15. (\E b \in Accepted' : ~Private(b)') => FreeSlots' = {} /\ Cardinality(Accepted') > MaxClients
  <2>1. CASE FreeSlots # {}
    <3>1. \A b \in Accepted : slot[b] # s
      BY <1>2, <2>1 DEF TableInv, SlotInv, FreeSlots
    <3>2. \A b \in Accepted : Private(b)
      BY <2>1 DEF TableInv, SlotInv
    <3>3. \A b \in Accepted' : Private(b)'
      BY <1>10, <1>11, <1>12, <3>1, <3>2 DEF Private
    <3> QED
      BY <3>3
  <2>2. CASE FreeSlots = {}
    <3>1. IsFiniteSet(Accepted) /\ Cardinality(Accepted) >= MaxClients
      BY <2>2, FullTable DEF TableInv
    <3>2. Cardinality(Accepted') = Cardinality(Accepted) + 1
      BY <1>5, <1>10, <3>1, FS_AddElement
    <3>3. FreeSlots' = {}
      BY <1>3, <1>6, <1>12, <2>2 DEF FreeSlots, TableInv, TableType
    <3> QED
      BY <3>1, <3>2, <3>3, FramedAssumption, FS_CardinalityType
  <2> QED
    BY <2>1, <2>2
<1>16. SlotInv'
  BY <1>13, <1>14, <1>15 DEF SlotInv
<1> QED
  BY <1>7, <1>8, <1>9, <1>16 DEF TableInv

\* A thread stays accepted, and closes no more than a descriptor.
LEMMA ThreadStep == ASSUME NEW t \in Clients PROVE TableInv /\ Thread(t) => TableInv'
<1> SUFFICES ASSUME TableInv, Thread(t) PROVE TableInv'
  OBVIOUS
<1>1. /\ phase[t] # "none" /\ phase' \in [Clients -> Phases]
      /\ \A b \in Clients : phase'[b] = "none" <=> phase[b] = "none"
  BY DEF TableInv, TableType, Phases, Thread, Call, Recv, RecvFails, CloseFd, ReadOn,
     HeaderRead, BodyRead
<1>2. /\ owner' \in [Descriptors -> Clients \union {NoClient}]
      /\ \A e \in Descriptors : owner'[e] \in {owner[e], NoClient}
  BY DEF TableInv, TableType, Thread, Call, Recv, RecvFails, CloseFd, table
<1>3. UNCHANGED <<backlog, infos, pinfo, slot>>
  BY DEF Thread, Call, Recv, RecvFails, CloseFd, table
<1>4. /\ peer' \in [Clients -> {"new", "open", "done", "gone", "reset"}]
      /\ \A b \in Clients : peer'[b] = "new" <=> peer[b] = "new"
  BY DEF TableInv, TableType, Thread, Call, Recv, RecvFails, CloseFd, client
<1>5. TableType'
  BY <1>1, <1>2, <1>3, <1>4 DEF TableInv, TableType
<1>6. BacklogInv'
  BY <1>1, <1>3, <1>4, ElementOfSeq DEF TableInv, TableType, BacklogInv
<1>7. OwnerInv'
  BY <1>1, <1>2 DEF TableInv, TableType, OwnerInv
<1>8. Accepted' = Accepted
  BY <1>1 DEF Accepted
<1>9. SlotInv'
  BY <1>3, <1>8 DEF TableInv, SlotInv, Private, FreeSlots
<1> QED
  BY <1>5, <1>6, <1>7, <1>9 DEF TableInv

\* A client enters the backlog once.
LEMMA ClientStep == ASSUME NEW c \in Clients PROVE TableInv /\ Client(c) => TableInv'
<1> SUFFICES ASSUME TableInv, Client(c) PROVE TableInv'
  OBVIOUS
<1>1. UNCHANGED <<owner, infos, pinfo, slot, phase>>
  BY DEF Client, Connect, Send, Close, Reset, table, thread
<1>2. Accepted' = Accepted
  BY <1>1 DEF Accepted
<1>3. OwnerInv' /\ SlotInv'
  BY <1>1, <1>2 DEF TableInv, OwnerInv, SlotInv, Private, FreeSlots
<1>4. CASE Connect(c)
  <2>1. /\ backlog' = Append(backlog, c) /\ peer' = [peer EXCEPT ![c] = "open"]
        /\ peer[c] = "new"
    BY <1>4 DEF Connect
  <2>2. /\ backlog' \in Seq(Clients) /\ Len(backlog') = Len(backlog) + 1
        /\ \A i \in 1..Len(backlog) : backlog'[i] = backlog[i]
        /\ backlog'[Len(backlog) + 1] = c /\ Len(backlog) \in Nat
    BY <2>1, AppendProperties DEF TableInv, TableType
  <2>3. \A i \in 1..Len(backlog) : backlog[i] # c /\ backlog[i] \in Clients
    BY <2>1, ElementOfSeq DEF TableInv, TableType, BacklogInv
  <2>4. \A i \in 1..Len(backlog') : i \in 1..Len(backlog) \/ i = Len(backlog) + 1
    BY <2>2
  <2>5. \A b \in Clients : peer'[b] = "new" => phase'[b] = "none"
    BY <1>1, <2>1 DEF TableInv, TableType, BacklogInv
  <2>6. \A i \in 1..Len(backlog') : peer'[backlog'[i]] # "new" /\ phase'[backlog'[i]] = "none"
    BY <1>1, <2>1, <2>2, <2>3, <2>4 DEF TableInv, TableType, BacklogInv
  <2>7. \A i, j \in 1..Len(backlog') : backlog'[i] = backlog'[j] => i = j
    BY <2>2, <2>3, <2>4 DEF TableInv, BacklogInv
  <2>8. TableType'
    BY <1>1, <2>1, <2>2 DEF TableInv, TableType
  <2> QED
    BY <1>3, <2>5, <2>6, <2>7, <2>8 DEF TableInv, BacklogInv
<1>5. CASE Send(c) \/ Close(c) \/ Reset(c)
  <2>1. backlog' = backlog
    BY <1>5 DEF Send, Close, Reset, table
  <2>2. /\ peer' \in [Clients -> {"new", "open", "done", "gone", "reset"}]
        /\ \A b \in Clients : peer'[b] = "new" <=> peer[b] = "new"
    BY <1>5 DEF TableInv, TableType, Send, Close, Reset
  <2>3. TableType' /\ BacklogInv'
    BY <1>1, <2>1, <2>2, ElementOfSeq DEF TableInv, TableType, BacklogInv
  <2> QED
    BY <1>3, <2>3 DEF TableInv
<1> QED
  BY <1>4, <1>5 DEF Client

\* Every step keeps the table of slots in order.
LEMMA TableStep == TableInv /\ [Next]_vars => TableInv'
<1> SUFFICES ASSUME TableInv, [Next]_vars PROVE TableInv'
  OBVIOUS
<1>1. CASE UNCHANGED vars
  BY <1>1 DEF vars, client, table, thread, TableInv, TableType, BacklogInv, OwnerInv,
     SlotInv, Private, Accepted, FreeSlots
<1> QED
  BY <1>1, AcceptStep, ThreadStep, ClientStep DEF Next

-----------------------------------------------------------------------------
(* The descriptors *)

\* A thread with a slot of its own uses the descriptor of its client, and no
\* other thread uses that one or finds it in its own slot: until the table is
\* full every thread has its own slot, and from then on no client gets one.
DescriptorInv ==
    /\ \A t \in Clients : phase[t] \in {"header", "body", "close"} => fd[t] \in Descriptors
    /\ \A c \in Accepted : Private(c) =>
          /\ phase[c] # "ended" => owner[infos[slot[c]]] = c
          /\ phase[c] \in {"header", "body", "close"} => fd[c] = infos[slot[c]]
          /\ \A u \in Accepted \ {c} :
                /\ phase[u] \in {"header", "body", "close"} => owner[fd[u]] # c
                /\ phase[u] \in {"call", "header", "body"} => owner[infos[slot[u]]] # c

\* The thread accept has started finds the new descriptor in its slot.
LEMMA DescriptorAccept ==
  TableInv /\ DescriptorInv /\ fd \in [Clients -> Descriptors \union {-1}] /\ Accept
     => DescriptorInv'
<1> SUFFICES ASSUME TableInv, DescriptorInv, fd \in [Clients -> Descriptors \union {-1}], Accept
             PROVE  DescriptorInv'
  OBVIOUS
<1>1. PICK c \in Clients, d \in Descriptors, s \in Slots :
         /\ c = backlog[1] /\ phase[c] = "none" /\ owner[d] = NoClient
         /\ IF FreeSlots = {} THEN s = pinfo ELSE s \in FreeSlots
         /\ owner' = [owner EXCEPT ![d] = c]
         /\ infos' = [infos EXCEPT ![s] = d] /\ pinfo' = s
         /\ slot' = [slot EXCEPT ![c] = s]
         /\ phase' = [phase EXCEPT ![c] = "call"]
         /\ backlog # <<>> /\ backlog' = Tail(backlog)
         /\ UNCHANGED <<client, net, fd, len, buf, got>>
  BY AcceptEffect DEF TableInv
<1>2. /\ Accepted' = Accepted \union {c} /\ c \notin Accepted /\ Accepted \subseteq Clients
      /\ slot'[c] = s /\ phase'[c] = "call" /\ fd' = fd
      /\ \A b \in Accepted : slot'[b] = slot[b] /\ phase'[b] = phase[b] /\ slot[b] \in Slots
  BY <1>1 DEF TableInv, TableType, Accepted
<1>3. /\ owner'[d] = c /\ \A e \in Descriptors \ {d} : owner'[e] = owner[e]
      /\ infos'[s] = d /\ \A r \in Slots \ {s} : infos'[r] = infos[r]
      /\ \A b \in Clients : b # NoClient
  BY <1>1, FramedAssumption DEF TableInv, TableType
<1>4. \A b \in Accepted : infos[slot[b]] \in Descriptors
  BY <1>2 DEF TableInv, TableType, SlotInv
<1>5. ASSUME NEW t \in Clients, phase'[t] \in {"header", "body", "close"}
      PROVE  fd'[t] \in Descriptors
  BY <1>1, <1>2, <1>5 DEF DescriptorInv, TableInv, TableType
<1>6. ASSUME NEW x \in Accepted, Private(x)'
      PROVE  /\ slot[x] # s /\ Private(x)
             /\ phase'[x] # "ended" => owner'[infos'[slot'[x]]] = x
             /\ phase'[x] \in {"header", "body", "close"} => fd'[x] = infos'[slot'[x]]
             /\ \A u \in Accepted' \ {x} :
                   /\ phase'[u] \in {"header", "body", "close"} => owner'[fd'[u]] # x
                   /\ phase'[u] \in {"call", "header", "body"} => owner'[infos'[slot'[u]]] # x
  <2>1. slot[x] # s /\ Private(x)
    BY <1>2, <1>6 DEF Private
  <2>2. infos'[slot'[x]] = infos[slot[x]]
    BY <1>2, <1>3, <2>1
  <2>3. phase'[x] # "ended" => owner'[infos'[slot'[x]]] = x
    BY <1>1, <1>2, <1>3, <1>4, <2>1, <2>2 DEF DescriptorInv
  <2>4. phase'[x] \in {"header", "body", "close"} => fd'[x] = infos'[slot'[x]]
    BY <1>2, <2>1, <2>2 DEF DescriptorInv
  <2>5. ASSUME NEW u \in Accepted \ {x}
        PROVE  /\ phase'[u] \in {"header", "body", "close"} => owner'[fd'[u]] # x
               /\ phase'[u] \in {"call", "header", "body"} => owner'[infos'[slot'[u]]] # x
    <3>1. x # c
      BY <1>2
    <3>2. phase[u] \in {"header", "body", "close"} => fd[u] \in Descriptors /\ owner[fd[u]] # x
      BY <1>2, <2>1 DEF DescriptorInv
    <3>3. phase[u] \in {"call", "header", "body"} => owner[infos[slot[u]]] # x
      BY <2>1 DEF DescriptorInv
    <3>4. phase'[u] \in {"header", "body", "close"} => owner'[fd'[u]] # x
      BY <1>2, <1>3, <3>1, <3>2
    <3>5. phase'[u] \in {"call", "header", "body"} => owner'[infos'[slot'[u]]] # x
      BY <1>2, <1>3, <1>4, <3>1, <3>3
    <3> QED
      BY <3>4, <3>5
  <2>6. owner'[infos'[slot'[c]]] # x
    BY <1>2, <1>3
  <2> QED
    BY <1>2, <2>1, <2>3, <2>4, <2>5, <2>6
<1>7. ASSUME Private(c)'
      PROVE  /\ owner'[infos'[slot'[c]]] = c
             /\ \A u \in Accepted' \ {c} :
                   /\ phase'[u] \in {"header", "body", "close"} => owner'[fd'[u]] # c
                   /\ phase'[u] \in {"call", "header", "body"} => owner'[infos'[slot'[u]]] # c
  <2>1. \A b \in Accepted : slot[b] # s
    BY <1>2, <1>7 DEF Private
  <2>2. FreeSlots # {}
    BY <1>1, <2>1 DEF TableInv, TableType, SlotInv, FreeSlots
  <2>3. \A b \in Accepted : Private(b)
    BY <2>2 DEF TableInv, SlotInv
  <2>4. ASSUME NEW u \in Accepted
        PROVE  /\ phase[u] \in {"header", "body", "close"} => owner[fd[u]] = u /\ fd[u] \in Descriptors
               /\ phase[u] \in {"call", "header", "body"} => owner[infos[slot[u]]] = u
    BY <1>2, <2>3 DEF DescriptorInv
  <2>5. ASSUME NEW u \in Accepted
        PROVE  /\ phase'[u] \in {"header", "body", "close"} => owner'[fd'[u]] # c
               /\ phase'[u] \in {"call", "header", "body"} => owner'[infos'[slot'[u]]] # c
    <3>1. u # c /\ u # NoClient
      BY <1>2, <1>3
    <3>2. phase'[u] \in {"header", "body", "close"} => owner'[fd'[u]] # c
      BY <1>1, <1>2, <1>3, <2>4, <3>1
    <3>3. phase'[u] \in {"call", "header", "body"} => owner'[infos'[slot'[u]]] # c
      BY <1>1, <1>2, <1>3, <1>4, <2>1, <2>4, <3>1
    <3> QED
      BY <3>2, <3>3
  <2> QED
    BY <1>2, <1>3, <2>5
<1> QED
  BY <1>2, <1>5, <1>6, <1>7 DEF DescriptorInv

\* A thread closes no descriptor but its client's, if any other thread's is its
\* client's.
LEMMA DescriptorThread ==
  ASSUME NEW t \in Clients, TableInv, DescriptorInv,
         fd \in [Clients -> Descriptors \union {-1}], Thread(t)
  PROVE  DescriptorInv'
<1>1. /\ phase[t] # "none" /\ phase' \in [Clients -> Phases]
      /\ \A b \in Clients : phase'[b] = "none" <=> phase[b] = "none"
      /\ \A b \in Clients \ {t} : phase'[b] = phase[b]
  BY DEF TableInv, TableType, Phases, Thread, Call, Recv, RecvFails, CloseFd, ReadOn,
     HeaderRead, BodyRead
<1>2. UNCHANGED <<infos, slot>>
  BY DEF Thread, Call, Recv, RecvFails, CloseFd, table
<1>3. Accepted' = Accepted /\ t \in Accepted /\ Accepted \subseteq Clients
      /\ \A b \in Accepted : Private(b)' <=> Private(b)
  BY <1>1, <1>2 DEF Accepted, Private
<1>4. \A b \in Accepted : infos[slot[b]] \in Descriptors
  BY <1>3 DEF TableInv, TableType, SlotInv
<1>5. CASE Call(t)
  <2>1. /\ phase[t] = "call" /\ phase'[t] = "header" /\ owner' = owner
        /\ fd'[t] = infos[slot[t]] /\ \A b \in Clients \ {t} : fd'[b] = fd[b]
    BY <1>5 DEF Call, table, TableInv, TableType
  <2> QED
    BY <1>1, <1>2, <1>3, <1>4, <2>1 DEF DescriptorInv
<1>6. CASE Recv(t) \/ RecvFails(t)
  <2>1. /\ phase[t] \in {"header", "body"} /\ owner' = owner /\ fd' = fd
        /\ phase'[t] # "none"
    BY <1>1, <1>6 DEF Recv, RecvFails, table
  <2> QED
    BY <1>1, <1>2, <1>3, <2>1 DEF DescriptorInv
<1>7. CASE CloseFd(t)
  <2>1. /\ phase[t] = "close" /\ phase'[t] = "ended" /\ fd' = fd
        /\ owner' = [owner EXCEPT ![fd[t]] = NoClient]
    BY <1>7 DEF CloseFd, TableInv, TableType
  <2>2. \A e \in Descriptors : owner'[e] \in {owner[e], NoClient} /\ (e # fd[t] => owner'[e] = owner[e])
    BY <2>1 DEF TableInv, TableType
  <2>3. \A b \in Clients : b # NoClient
    BY FramedAssumption
  <2>4. ASSUME NEW x \in Accepted, Private(x), phase'[x] # "ended"
        PROVE  owner'[infos[slot[x]]] = x
    <3>1. x # t /\ phase[x] # "ended"
      BY <1>1, <1>3, <2>1, <2>4
    <3>2. owner[infos[slot[x]]] = x /\ owner[fd[t]] # x
      BY <1>3, <2>1, <2>4, <3>1 DEF DescriptorInv
    <3> QED
      BY <1>4, <2>2, <3>2
  <2>5. ASSUME NEW x \in Accepted, Private(x), NEW u \in Accepted \ {x}
        PROVE  /\ phase'[u] \in {"header", "body", "close"} => owner'[fd[u]] # x
               /\ phase'[u] \in {"call", "header", "body"} => owner'[infos[slot[u]]] # x
    <3>1. phase'[u] # "ended" => phase'[u] = phase[u]
      BY <1>1, <1>3, <2>1
    <3>2. x # NoClient
      BY <1>3, <2>3
    <3>3. phase[u] \in {"header", "body", "close"} => fd[u] \in Descriptors /\ owner[fd[u]] # x
      BY <1>3, <2>5 DEF DescriptorInv
    <3>4. phase[u] \in {"call", "header", "body"} => owner[infos[slot[u]]] # x
      BY <2>5 DEF DescriptorInv
    <3> QED
      BY <1>4, <2>2, <3>1, <3>2, <3>3, <3>4
  <2>6. \A b \in Clients : phase'[b] \in {"header", "body", "close"} => fd'[b] \in Descriptors
    BY <1>1, <2>1 DEF DescriptorInv
  <2>7. \A x \in Accepted : Private(x) /\ phase'[x] \in {"header", "body", "close"} => fd'[x] = infos'[slot'[x]]
    BY <1>1, <1>2, <1>3, <2>1 DEF DescriptorInv
  <2> QED
    BY <1>2, <1>3, <2>1, <2>4, <2>5, <2>6, <2>7 DEF DescriptorInv
<1> QED
  BY <1>5, <1>6, <1>7 DEF Thread

-----------------------------------------------------------------------------
(* The types of the streams *)

\* What writen still has to write belongs to a message of the client, and a
\* broken connection holds nothing.
StreamType ==
    /\ sent \in [Clients -> Nat] /\ \A c \in Clients : sent[c] =< Len(Text[c])
    /\ out \in [Clients -> Seq(Byte)] /\ net \in [Clients -> Seq(Byte)]
    /\ fd \in [Clients -> Descriptors \union {-1}]
    /\ len \in [Clients -> 0..(Place[HEADER] - 1)]
    /\ buf \in [Clients -> Seq(Byte)] /\ got \in [Clients -> Seq(Seq(Byte))]
    /\ \A t \in Clients : phase[t] \in {"header", "body"} => Len(buf[t]) < Want(t)
    /\ \A c \in Clients : out[c] # <<>> => sent[c] < Len(Text[c])
    /\ \A c \in Clients : peer[c] = "reset" => net[c] = <<>>

\* One send moves bytes of the frame from the client to the network, and the
\* message counts as written with the last of them.
LEMMA SendEffect ==
  ASSUME StreamType, NEW c \in Clients, Send(c)
  PROVE  /\ peer[c] = "open" /\ sent[c] < Len(Text[c])
         /\ UNCHANGED <<peer, table, thread>>
         /\ \E given, more \in Seq(Byte) :
               /\ given \o more = IF out[c] = <<>> THEN Frame(Text[c][sent[c] + 1]) ELSE out[c]
               /\ net' = [net EXCEPT ![c] = @ \o given]
               /\ out' = [out EXCEPT ![c] = more]
               /\ sent' = [sent EXCEPT ![c] = IF more = <<>> THEN @ + 1 ELSE @]
<1> DEFINE left == IF out[c] = <<>> THEN Frame(Text[c][sent[c] + 1]) ELSE out[c]
<1>1. sent[c] \in Nat /\ sent[c] < Len(Text[c]) /\ Len(Text[c]) \in Nat
  BY FramedAssumption DEF Send, StreamType
<1>2. left \in Seq(Byte)
  <2>1. sent[c] + 1 \in 1..Len(Text[c])
    BY <1>1
  <2>2. Frame(Text[c][sent[c] + 1]) \in Seq(Byte)
    BY <2>1, FrameFacts
  <2> QED
    BY <2>2 DEF StreamType
<1>3. PICK n \in 1..Len(left) :
         /\ net' = [net EXCEPT ![c] = @ \o Take(left, n)]
         /\ out' = [out EXCEPT ![c] = Drop(left, n)]
         /\ sent' = [sent EXCEPT ![c] = IF n = Len(left) THEN @ + 1 ELSE @]
  BY DEF Send
<1> HIDE DEF left
<1>4. Len(left) \in Nat
  BY <1>2, LenProperties
<1>5. /\ Take(left, n) \in Seq(Byte) /\ Drop(left, n) \in Seq(Byte)
      /\ Take(left, n) \o Drop(left, n) = left /\ Len(Drop(left, n)) = Len(left) - n
  <2>1. n \in 0..Len(left)
    BY <1>4
  <2> QED
    BY <1>2, <2>1, TakeDrop
<1>6. n = Len(left) <=> Drop(left, n) = <<>>
  BY <1>4, <1>5, EmptySeq
<1>7. sent' = [sent EXCEPT ![c] = IF Drop(left, n) = <<>> THEN @ + 1 ELSE @]
  BY <1>3, <1>6
<1>8. peer[c] = "open" /\ UNCHANGED <<peer, table, thread>>
  BY DEF Send
<1> QED
  BY <1>1, <1>3, <1>5, <1>7, <1>8 DEF left

\* One recv moves bytes of the client the descriptor belongs to to the thread,
\* never more than readn was asked for.
LEMMA RecvEffect ==
  ASSUME TableType, StreamType, NEW t \in Clients, fd[t] \in Descriptors, Recv(t)
  PROVE  /\ phase[t] \in {"header", "body"} /\ UNCHANGED <<client, table, fd>>
         /\ owner[fd[t]] \in Clients
         /\ \E bytes, more \in Seq(Byte) :
               /\ net[owner[fd[t]]] = bytes \o more /\ bytes # <<>>
               /\ net' = [net EXCEPT ![owner[fd[t]]] = more]
               /\ Len(buf[t]) < Len(buf[t] \o bytes) /\ Len(buf[t] \o bytes) =< Want(t)
               /\ ReadOn(t, buf[t] \o bytes)
<1> DEFINE c == owner[fd[t]]
           all == net[c]
           room == Want(t) - Len(buf[t])
<1>1. c \in Clients
  BY DEF Recv, TableType
<1>2. PICK n \in 1..Min({room, Len(all)}) :
         ReadOn(t, buf[t] \o Take(all, n)) /\ net' = [net EXCEPT ![c] = Drop(@, n)]
  BY DEF Recv
<1>3. phase[t] \in {"header", "body"} /\ UNCHANGED <<client, table, fd>>
  BY DEF Recv
<1>4. all \in Seq(Byte) /\ buf[t] \in Seq(Byte)
  BY <1>1 DEF StreamType
<1>5. Want(t) \in Nat /\ Len(buf[t]) \in Nat /\ room \in Nat /\ Len(all) \in Nat
  <2>1. Want(t) \in Nat
    BY PlaceFacts, FramedAssumption DEF Want, StreamType
  <2>2. Len(buf[t]) < Want(t)
    BY <1>3 DEF StreamType
  <2> QED
    BY <1>4, <2>1, <2>2, LenProperties
<1>6. net' = [net EXCEPT ![c] = Drop(all, n)]
  BY <1>2
<1> HIDE DEF c, all
<1>7. n \in Nat /\ 1 =< n /\ n =< room /\ n =< Len(all)
  <2>1. {room, Len(all)} \in SUBSET Nat /\ {room, Len(all)} # {}
    BY <1>5
  <2>2. Min({room, Len(all)}) \in Nat /\ Min({room, Len(all)}) =< room
        /\ Min({room, Len(all)}) =< Len(all)
    BY <2>1, MinOfNaturals
  <2> HIDE DEF room
  <2> QED
    BY <1>5, <2>2
<1>8. /\ Take(all, n) \in Seq(Byte) /\ Drop(all, n) \in Seq(Byte) /\ Len(Take(all, n)) = n
      /\ Take(all, n) \o Drop(all, n) = all
  BY <1>4, <1>5, <1>7, TakeDrop
<1>9. Take(all, n) # <<>>
  BY <1>7, <1>8
<1>10. Len(buf[t] \o Take(all, n)) = Len(buf[t]) + n
  <2> DEFINE b == buf[t]
             s == Take(all, n)
  <2>1. b \in Seq(Byte) /\ s \in Seq(Byte) /\ Len(s) = n
    BY <1>4, <1>8
  <2> HIDE DEF b, s
  <2>2. Len(b \o s) = Len(b) + n
    BY <2>1, Streams
  <2> QED
    BY <2>2 DEF b, s
<1>11. Len(buf[t]) < Len(buf[t] \o Take(all, n)) /\ Len(buf[t] \o Take(all, n)) =< Want(t)
  BY <1>5, <1>7, <1>10
<1> DEFINE given == Take(all, n)
           more == Drop(all, n)
<1>12. /\ given \in Seq(Byte) /\ more \in Seq(Byte) /\ all = given \o more /\ given # <<>>
       /\ net' = [net EXCEPT ![c] = more]
       /\ Len(buf[t]) < Len(buf[t] \o given) /\ Len(buf[t] \o given) =< Want(t)
       /\ ReadOn(t, buf[t] \o given)
  BY <1>2, <1>6, <1>8, <1>9, <1>11
<1> HIDE DEF given, more
<1>13. \E bytes, rest \in Seq(Byte) :
          /\ all = bytes \o rest /\ bytes # <<>>
          /\ net' = [net EXCEPT ![c] = rest]
          /\ Len(buf[t]) < Len(buf[t] \o bytes) /\ Len(buf[t] \o bytes) =< Want(t)
          /\ ReadOn(t, buf[t] \o bytes)
  BY <1>12, Zenon
<1> QED
  BY <1>1, <1>3, <1>13 DEF c, all

\* The part of the types that recvMsg works on.
ReadType ==
    /\ len \in [Clients -> 0..(Place[HEADER] - 1)]
    /\ buf \in [Clients -> Seq(Byte)] /\ got \in [Clients -> Seq(Seq(Byte))]
    /\ \A t \in Clients : phase[t] \in {"header", "body"} => Len(buf[t]) < Want(t)

\* A length that has been read is one of a body to read, or ends the thread.
LEMMA HeaderReadType ==
  ASSUME TableType, ReadType, NEW t \in Clients, NEW bytes \in Seq(Byte), HeaderRead(t, bytes)
  PROVE  ReadType'
<1>1. Decode(bytes) \in 0..(Place[HEADER] - 1)
  BY DecodeType
<1>2. /\ phase' = [phase EXCEPT ![t] = IF Decode(bytes) = 0 THEN "ended" ELSE "body"]
      /\ len' = [len EXCEPT ![t] = Decode(bytes)]
      /\ buf' = [buf EXCEPT ![t] = <<>>] /\ got' = got
  BY DEF HeaderRead
<1> DEFINE n == Decode(bytes)
<1> HIDE DEF n
<1>3. len' \in [Clients -> 0..(Place[HEADER] - 1)]
  BY <1>1, <1>2 DEF ReadType
<1>4. buf' \in [Clients -> Seq(Byte)]
  BY <1>2, Streams DEF ReadType
<1>5. phase'[t] = "body" => Len(buf'[t]) < len'[t]
  <2>1. phase'[t] = "body" => n # 0
    BY <1>2 DEF TableType, n
  <2>2. Len(buf'[t]) = 0 /\ len'[t] = n
    BY <1>2, EmptySeq DEF ReadType, n
  <2>3. n \in Nat
    BY <1>1 DEF n
  <2> QED
    BY <2>1, <2>2, <2>3
<1>6. ASSUME NEW u \in Clients, phase'[u] \in {"header", "body"} PROVE Len(buf'[u]) < Want(u)'
  BY <1>2, <1>5, <1>6 DEF ReadType, TableType, Want
<1> QED
  BY <1>2, <1>3, <1>4, <1>6 DEF ReadType

\* What readn has read stays shorter than what it was asked for.
LEMMA ReadOnType ==
  ASSUME TableType, ReadType, NEW t \in Clients, NEW bytes \in Seq(Byte), ReadOn(t, bytes),
         phase[t] \in {"header", "body"}, Len(bytes) =< Want(t)
  PROVE  ReadType'
<1>1. CASE Len(bytes) < Want(t)
  <2>1. buf' = [buf EXCEPT ![t] = bytes] /\ UNCHANGED <<phase, len, got>>
    BY <1>1 DEF ReadOn
  <2> QED
    BY <1>1, <2>1 DEF ReadType, Want
<1>2. CASE ~ (Len(bytes) < Want(t)) /\ phase[t] = "header"
  BY <1>2, HeaderReadType DEF ReadOn
<1>3. CASE ~ (Len(bytes) < Want(t)) /\ phase[t] = "body"
  <2>1. /\ phase' = [phase EXCEPT ![t] = "call"]
        /\ got' = [got EXCEPT ![t] = Append(@, bytes)]
        /\ buf' = [buf EXCEPT ![t] = <<>>] /\ len' = len
    BY <1>3 DEF ReadOn, BodyRead
  <2>2. got' \in [Clients -> Seq(Seq(Byte))]
    <3>1. got[t] \in Seq(Seq(Byte))
      BY DEF ReadType
    <3>2. Append(got[t], bytes) \in Seq(Seq(Byte))
      BY <3>1, AppendProperties
    <3> QED
      BY <2>1, <3>2 DEF ReadType
  <2>3. buf' \in [Clients -> Seq(Byte)]
    BY <2>1, Streams DEF ReadType
  <2>4. ASSUME NEW u \in Clients, phase'[u] \in {"header", "body"} PROVE Len(buf'[u]) < Want(u)'
    BY <2>1, <2>4 DEF ReadType, TableType, Want
  <2> QED
    BY <2>1, <2>2, <2>3, <2>4 DEF ReadType
<1> QED
  BY <1>1, <1>2, <1>3

\* A thread keeps the types, whatever it reads and however early it ends.
LEMMA StreamTypeThread ==
  ASSUME TableInv, DescriptorInv, StreamType, NEW t \in Clients, Thread(t)
  PROVE  StreamType'
<1>1. TableType /\ ReadType
  BY DEF TableInv, StreamType, ReadType
<1>2. UNCHANGED <<sent, out>>
  BY DEF Thread, Call, Recv, RecvFails, CloseFd, client
<1>3. CASE Call(t)
  <2>1. /\ phase' = [phase EXCEPT ![t] = "header"] /\ buf' = [buf EXCEPT ![t] = <<>>]
        /\ fd' = [fd EXCEPT ![t] = infos[slot[t]]]
        /\ UNCHANGED <<peer, net, len, got>>
    BY <1>3 DEF Call, client
  <2>2. buf' \in [Clients -> Seq(Byte)] /\ fd' \in [Clients -> Descriptors \union {-1}]
    BY <1>1, <2>1, Streams DEF StreamType, TableType
  <2>3. Len(buf'[t]) = 0 /\ Want(t)' = HEADER
    BY <1>1, <2>1, EmptySeq DEF StreamType, TableType, Want
  <2>4. ASSUME NEW u \in Clients, phase'[u] \in {"header", "body"} PROVE Len(buf'[u]) < Want(u)'
    <3>1. CASE u = t
      BY <2>3, <3>1, FramedAssumption
    <3>2. CASE u # t
      BY <1>1, <2>1, <2>4, <3>2 DEF StreamType, TableType, Want
    <3> QED
      BY <3>1, <3>2
  <2> QED
    BY <1>2, <2>1, <2>2, <2>4 DEF StreamType
<1>4. CASE Recv(t)
  <2>1. phase[t] \in {"header", "body"}
    BY <1>4 DEF Recv
  <2>2. fd[t] \in Descriptors
    BY <2>1 DEF DescriptorInv
  <2>3. PICK bytes, more \in Seq(Byte) :
           /\ net[owner[fd[t]]] = bytes \o more /\ bytes # <<>>
           /\ net' = [net EXCEPT ![owner[fd[t]]] = more]
           /\ Len(buf[t] \o bytes) =< Want(t)
           /\ ReadOn(t, buf[t] \o bytes)
    BY <1>1, <1>4, <2>2, RecvEffect
  <2>4. owner[fd[t]] \in Clients /\ UNCHANGED <<peer, fd>>
    BY <1>1, <1>4, <2>2, RecvEffect DEF client
  <2>5. ReadType'
    <3>1. buf[t] \o bytes \in Seq(Byte)
      <4> DEFINE b == buf[t]
      <4>1. b \in Seq(Byte)
        BY DEF StreamType
      <4> HIDE DEF b
      <4>2. b \o bytes \in Seq(Byte)
        BY <4>1, Streams
      <4> QED
        BY <4>2 DEF b
    <3> DEFINE s == buf[t] \o bytes
    <3>2. s \in Seq(Byte) /\ Len(s) =< Want(t) /\ ReadOn(t, s)
      BY <2>3, <3>1
    <3> HIDE DEF s
    <3> QED
      BY <1>1, <2>1, <3>2, ReadOnType
  <2>6. net[owner[fd[t]]] # <<>>
    BY <2>3, Streams, ConcatEqualIffEmpty
  <2>7. net' \in [Clients -> Seq(Byte)] /\ \A c \in Clients : peer'[c] = "reset" => net'[c] = <<>>
    BY <2>3, <2>4, <2>6 DEF StreamType
  <2> QED
    BY <1>2, <2>4, <2>5, <2>7 DEF StreamType, ReadType, TableType
<1>5. CASE RecvFails(t)
  <2>1. /\ phase[t] \in {"header", "body"} /\ UNCHANGED <<net, fd>>
        /\ peer' = [c \in Clients |->
                      IF c = owner[fd[t]] /\ peer[c] = "reset" THEN "gone" ELSE peer[c]]
    BY <1>5 DEF RecvFails
  <2>2. ReadType'
    <3>1. CASE phase[t] = "header"
      <4> DEFINE s == buf[t]
      <4>1. s \in Seq(Byte) /\ HeaderRead(t, s)
        BY <1>5, <3>1 DEF RecvFails, StreamType
      <4> HIDE DEF s
      <4> QED
        BY <1>1, <4>1, HeaderReadType
    <3>2. CASE phase[t] = "body"
      <4>1. phase' = [phase EXCEPT ![t] = "close"] /\ UNCHANGED <<len, buf, got>>
        BY <1>5, <3>2 DEF RecvFails
      <4> QED
        BY <1>1, <4>1 DEF ReadType, TableType, Want
    <3> QED
      BY <2>1, <3>1, <3>2
  <2> QED
    BY <1>2, <2>1, <2>2 DEF StreamType, ReadType
<1>6. CASE CloseFd(t)
  <2>1. phase' = [phase EXCEPT ![t] = "ended"] /\ UNCHANGED <<peer, net, fd, len, buf, got>>
    BY <1>6 DEF CloseFd, client
  <2> QED
    BY <1>1, <1>2, <2>1 DEF StreamType, TableType, Want
<1> QED
  BY <1>3, <1>4, <1>5, <1>6 DEF Thread

\* A client keeps the types, wherever its frames are cut.
LEMMA StreamTypeClient ==
  ASSUME TableInv, StreamType, NEW c \in Clients, Client(c)
  PROVE  StreamType'
<1>1. UNCHANGED <<phase, fd, len, buf, got>>
  BY DEF Client, Connect, Send, Close, Reset, thread
<1>2. CASE Send(c)
  <2>1. peer[c] = "open" /\ sent[c] < Len(Text[c]) /\ peer' = peer
    BY <1>2, SendEffect
  <2>2. PICK given, more \in Seq(Byte) :
           /\ given \o more = IF out[c] = <<>> THEN Frame(Text[c][sent[c] + 1]) ELSE out[c]
           /\ net' = [net EXCEPT ![c] = @ \o given]
           /\ out' = [out EXCEPT ![c] = more]
           /\ sent' = [sent EXCEPT ![c] = IF more = <<>> THEN @ + 1 ELSE @]
    BY <1>2, SendEffect
  <2>3. net' \in [Clients -> Seq(Byte)]
    <3> DEFINE n == net[c]
    <3>1. n \in Seq(Byte)
      BY DEF StreamType
    <3> HIDE DEF n
    <3>2. n \o given \in Seq(Byte)
      BY <3>1, Streams
    <3> QED
      BY <2>2, <3>2 DEF StreamType, n
  <2>4. sent' \in [Clients -> Nat] /\ \A b \in Clients : sent'[b] =< Len(Text[b])
    <3>a. /\ sent' = [sent EXCEPT ![c] = IF more = <<>> THEN @ + 1 ELSE @]
          /\ sent \in [Clients -> Nat]
      BY <2>2 DEF StreamType
    <3>1. \A b \in Clients : Len(Text[b]) \in Nat /\ sent[b] \in Nat /\ sent[b] =< Len(Text[b])
      BY FramedAssumption, LenProperties DEF StreamType
    <3>2. sent'[c] \in {sent[c], sent[c] + 1} /\ \A b \in Clients \ {c} : sent'[b] = sent[b]
      BY <3>a
    <3>3. sent' \in [Clients -> Nat]
      BY <3>a
    <3> QED
      BY <2>1, <3>1, <3>2, <3>3
  <2>5. out' \in [Clients -> Seq(Byte)] /\ \A b \in Clients : out'[b] # <<>> => sent'[b] < Len(Text[b])
    BY <2>1, <2>2 DEF StreamType
  <2>6. \A b \in Clients : peer'[b] = "reset" => net'[b] = <<>>
    BY <2>1, <2>2 DEF StreamType
  <2> QED
    BY <1>1, <2>3, <2>4, <2>5, <2>6 DEF StreamType, Want
<1>3. CASE Connect(c) \/ Close(c)
  <2>1. UNCHANGED <<sent, out, net>> /\ \A b \in Clients : peer'[b] = "reset" => peer[b] = "reset"
    BY <1>3 DEF Connect, Close, TableInv, TableType
  <2> QED
    BY <1>1, <2>1 DEF StreamType, Want
<1>4. CASE Reset(c)
  <2>1. UNCHANGED <<sent, out>> /\ net' = [net EXCEPT ![c] = <<>>]
        /\ peer' = [peer EXCEPT ![c] = "reset"]
    BY <1>4 DEF Reset
  <2>2. net' \in [Clients -> Seq(Byte)] /\ \A b \in Clients : peer'[b] = "reset" => net'[b] = <<>>
    BY <2>1, Streams DEF StreamType, TableInv, TableType
  <2> QED
    BY <1>1, <2>1, <2>2 DEF StreamType, Want
<1> QED
  BY <1>2, <1>3, <1>4 DEF Client

\* accept touches no stream.
LEMMA StreamTypeAccept == TableInv /\ StreamType /\ Accept => StreamType'
<1> SUFFICES ASSUME TableInv, StreamType, Accept PROVE StreamType'
  OBVIOUS
<1>1. /\ UNCHANGED <<peer, sent, out, net, fd, len, buf, got>>
      /\ \A t \in Clients : phase'[t] \in {"header", "body"} => phase'[t] = phase[t]
  <2>1. PICK c \in Clients : phase' = [phase EXCEPT ![c] = "call"]
    BY AcceptEffect DEF TableInv
  <2>2. UNCHANGED <<peer, sent, out, net, fd, len, buf, got>>
    BY DEF Accept, client
  <2> QED
    BY <2>1, <2>2 DEF TableInv, TableType
<1> QED
  BY <1>1 DEF StreamType, Want

-----------------------------------------------------------------------------
(* The streams *)

\* How many messages writen has written, the one it is writing included.
Writing(c) == IF out[c] = <<>> THEN sent[c] ELSE sent[c] + 1

\* What a thread has read of the message after those it has received.
Taken(c) ==
    IF phase[c] = "header" THEN buf[c]
    ELSE IF phase[c] = "body" THEN Encode(len[c]) \o buf[c] ELSE <<>>

\* What has been received, read, is on its way and is still to be written makes
\* up the frames of the first messages, without a gap.
InStep(c) ==
    /\ Len(got[c]) =< Writing(c)
    /\ Wire(c, Writing(c)) = Wire(c, Len(got[c])) \o (Taken(c) \o (net[c] \o out[c]))

\* Nothing will come any more.
Over(c) == net[c] = <<>> /\ peer[c] \in {"done", "gone", "reset"}

StreamOf(c) ==
    /\ got[c] = Take(Text[c], Len(got[c])) /\ Len(got[c]) =< sent[c]
    /\ phase[c] \in {"none", "call", "header", "body"} => Over(c) \/ InStep(c)

\* A client that waits, or whose thread has a slot of its own.
Alone(c) == c \in Accepted => Private(c)

StreamInv == \A c \in Clients : Alone(c) => StreamOf(c)

\* A step of others: a client that has left stays away, and it may be given its
\* thread.
Untouched(c) ==
    /\ net'[c] = net[c] /\ out'[c] = out[c] /\ sent'[c] = sent[c] /\ got'[c] = got[c]
    /\ len'[c] = len[c] /\ buf'[c] = buf[c]
    /\ peer[c] \in {"done", "gone", "reset"} => peer'[c] \in {"done", "gone", "reset"}
    /\ phase'[c] = phase[c] \/ (phase[c] = "none" /\ phase'[c] = "call")

\* The stream of a client stays in step while others move.
LEMMA StreamUntouched ==
  ASSUME NEW c \in Clients, StreamOf(c), Untouched(c)
  PROVE  StreamOf(c)'
<1>1. Taken(c)' = Taken(c)
  BY DEF Taken, Untouched
<1>2. Writing(c)' = Writing(c)
  BY DEF Writing, Untouched
<1>3. InStep(c) => InStep(c)'
  BY <1>1, <1>2 DEF InStep, Untouched
<1>4. Over(c) => Over(c)'
  BY DEF Over, Untouched
<1> QED
  BY <1>3, <1>4 DEF StreamOf, Untouched

\* A send puts the next bytes of the wire behind those that are on their way.
LEMMA SendInStep ==
  ASSUME StreamType, NEW c \in Clients, Send(c), StreamOf(c)
  PROVE  StreamOf(c)'
<1>1. /\ peer[c] = "open" /\ sent[c] < Len(Text[c])
      /\ UNCHANGED <<peer, phase, len, buf, got>>
  BY SendEffect DEF thread
<1>2. PICK given, more \in Seq(Byte) :
         /\ given \o more = IF out[c] = <<>> THEN Frame(Text[c][sent[c] + 1]) ELSE out[c]
         /\ net' = [net EXCEPT ![c] = @ \o given]
         /\ out' = [out EXCEPT ![c] = more]
         /\ sent' = [sent EXCEPT ![c] = IF more = <<>> THEN @ + 1 ELSE @]
  BY SendEffect
<1> DEFINE n == net[c]
           o == out[c]
           j == sent[c]
           k == Len(got[c])
           next == Frame(Text[c][j + 1])
<1>3. n \in Seq(Byte) /\ o \in Seq(Byte) /\ j \in Nat /\ j + 1 \in 1..Len(Text[c]) /\ k \in Nat
  BY <1>1, FramedAssumption, LenProperties DEF StreamType
<1>4. /\ net'[c] = n \o given /\ out'[c] = more
      /\ sent'[c] = IF more = <<>> THEN j + 1 ELSE j
      /\ given \o more = IF o = <<>> THEN next ELSE o
  BY <1>2 DEF StreamType
<1>5. Taken(c)' = Taken(c) /\ Taken(c) \in Seq(Byte)
  <2>1. Taken(c)' = Taken(c)
    BY <1>1 DEF Taken
  <2> DEFINE e == Encode(len[c])
             b == buf[c]
  <2>2. e \in Seq(Byte) /\ b \in Seq(Byte)
    BY EncodeType DEF StreamType
  <2> HIDE DEF e, b
  <2>3. e \o b \in Seq(Byte)
    BY <2>2, Streams
  <2> QED
    BY <2>1, <2>2, <2>3, Streams DEF Taken, e, b
<1>6. next \in Seq(Byte) /\ Wire(c, j + 1) = Wire(c, j) \o next /\ Wire(c, j) \in Seq(Byte)
      /\ next # <<>>
  <2>1. PICK m \in 1..Len(Text[c]) : m = j + 1
    BY <1>3
  <2>2. m - 1 = j /\ j \in 0..Len(Text[c])
    BY <1>3, <2>1
  <2>3. Wire(c, m) = Wire(c, m - 1) \o Frame(Text[c][m]) /\ Wire(c, j) \in Seq(Byte)
    BY <2>2, WireFacts
  <2>4. Frame(Text[c][m]) \in Seq(Byte) /\ Frame(Text[c][m]) # <<>>
    BY FrameFacts
  <2> HIDE DEF j
  <2> QED
    BY <2>1, <2>2, <2>3, <2>4
<1>7. Writing(c)' = IF o = <<>> THEN j + 1 ELSE Writing(c)
  <2>1. CASE o = <<>>
    BY <1>4, <2>1 DEF Writing
  <2>2. CASE o # <<>>
    BY <1>4, <2>2 DEF Writing
  <2> QED
    BY <2>1, <2>2
<1>8. ASSUME InStep(c) PROVE InStep(c)'
  <2> DEFINE r == Taken(c)
             w == Wire(c, k)
  <2>1. r \in Seq(Byte)
    BY <1>5
  <2>2. k \in 0..Len(Text[c])
    BY <1>1, <1>3 DEF StreamOf
  <2>3. w \in Seq(Byte)
    BY <2>2, WireFacts
  <2>4. Wire(c, Writing(c)) = w \o (r \o (n \o o)) /\ k =< Writing(c)
    BY <1>8 DEF InStep
  <2> HIDE DEF n, o, r, w, next, k, j
  <2>5. (n \o given) \o more = n \o (given \o more) /\ n \o given \in Seq(Byte)
    <3>1. n \in Seq(Byte)
      BY <1>3
    <3>2. (n \o given) \o more = n \o (given \o more)
      <4>1. Cat(Cat(n, given), more) = Cat(n, Cat(given, more))
        BY <3>1, Regroup
      <4> QED
        BY <4>1 DEF Cat
    <3> QED
      BY <3>1, <3>2, Streams
  <2>6. CASE o # <<>>
    BY <1>1, <1>4, <1>5, <1>7, <2>4, <2>5, <2>6 DEF InStep, k, r, w
  <2>7. CASE o = <<>>
    <3>1. Writing(c) = j
      BY <2>7 DEF Writing, o, j
    <3>2. Wire(c, j) = w \o (r \o n)
      BY <1>3, <2>4, <2>7, <3>1, Streams
    <3>3. Wire(c, j + 1) = (w \o (r \o n)) \o (given \o more)
      BY <1>4, <1>6, <2>7, <3>2
    <3>4. given \o more \in Seq(Byte) /\ r \o n \in Seq(Byte)
      BY <1>3, <2>1, Streams
    <3>5. (w \o (r \o n)) \o (given \o more) = w \o ((r \o n) \o (given \o more))
      <4> DEFINE x == r \o n
                 y == given \o more
      <4>1. x \in Seq(Byte) /\ y \in Seq(Byte)
        BY <3>4
      <4> HIDE DEF x, y
      <4>2. (w \o x) \o y = w \o (x \o y)
        <5>1. Cat(Cat(w, x), y) = Cat(w, Cat(x, y))
          BY <2>3, <4>1, Regroup
        <5> QED
          BY <5>1 DEF Cat
      <4> QED
        BY <4>2 DEF x, y
    <3>6. (r \o n) \o (given \o more) = r \o (n \o (given \o more))
      <4> DEFINE y == given \o more
      <4>1. y \in Seq(Byte)
        BY <3>4
      <4> HIDE DEF y
      <4>2. (r \o n) \o y = r \o (n \o y)
        <5>1. Cat(Cat(r, n), y) = Cat(r, Cat(n, y))
          BY <1>3, <2>1, <4>1, Regroup
        <5> QED
          BY <5>1 DEF Cat
      <4> QED
        BY <4>2 DEF y
    <3>7. Wire(c, j + 1) = w \o (r \o ((n \o given) \o more))
      BY <2>5, <3>3, <3>5, <3>6
    <3>8. k =< j + 1
      BY <1>3, <2>4, <3>1
    <3> QED
      BY <1>1, <1>4, <1>5, <1>7, <2>7, <3>7, <3>8 DEF InStep, k, r, w
  <2> QED
    BY <2>6, <2>7
<1>9. ~ Over(c)
  BY <1>1 DEF Over
<1>10. got'[c] = Take(Text[c], Len(got'[c])) /\ Len(got'[c]) =< sent'[c]
  BY <1>1, <1>3, <1>4 DEF StreamOf
<1> QED
  BY <1>1, <1>8, <1>9, <1>10 DEF StreamOf

\* One more message is the next one of the text.
LEMMA NextMessage ==
  ASSUME NEW s \in Seq(Seq(Byte)), NEW k \in 0..(Len(s) - 1), NEW r,
         r = Take(s, k)
  PROVE  Append(r, s[k + 1]) = Take(s, k + 1) /\ Len(Append(r, s[k + 1])) = k + 1
<1>1. Len(s) \in Nat /\ k \in 0..Len(s) /\ k + 1 \in 0..Len(s) /\ k + 1 \in 1..Len(s)
  BY LenProperties
<1>2. Take(s, k) \in Seq(Seq(Byte)) /\ Len(Take(s, k)) = k /\ \A i \in 1..k : Take(s, k)[i] = s[i]
  BY <1>1, TakeDrop
<1>3. /\ Take(s, k + 1) \in Seq(Seq(Byte)) /\ Len(Take(s, k + 1)) = k + 1
      /\ \A i \in 1..(k + 1) : Take(s, k + 1)[i] = s[i]
  <2> DEFINE m == k + 1
  <2>1. m \in 0..Len(s)
    BY <1>1
  <2> HIDE DEF m
  <2>2. /\ Take(s, m) \in Seq(Seq(Byte)) /\ Len(Take(s, m)) = m
        /\ \A i \in 1..m : Take(s, m)[i] = s[i]
    BY <2>1, TakeDrop
  <2> QED
    BY <2>2 DEF m
<1>4. s[k + 1] \in Seq(Byte)
  BY <1>1, ElementOfSeq
<1> DEFINE x == s[k + 1]
           t == Take(s, k + 1)
           q == Append(r, x)
<1>5. /\ q \in Seq(Seq(Byte)) /\ Len(q) = k + 1 /\ q[k + 1] = x
      /\ \A i \in 1..k : q[i] = s[i]
  <2>1. r \in Seq(Seq(Byte)) /\ Len(r) = k /\ x \in Seq(Byte)
    BY <1>2, <1>4
  <2> HIDE DEF x
  <2> QED
    <3>1. /\ Append(r, x) \in Seq(Seq(Byte)) /\ Len(Append(r, x)) = Len(r) + 1
          /\ \A i \in 1..Len(r) : Append(r, x)[i] = r[i]
          /\ Append(r, x)[Len(r) + 1] = x
      BY <2>1, AppendProperties
    <3>2. Len(r) = k /\ \A i \in 1..k : r[i] = s[i]
      BY <1>2
    <3> QED
      BY <3>1, <3>2
<1>6. \A i \in 1..(k + 1) : q[i] = t[i]
  BY <1>1, <1>3, <1>5
<1> HIDE DEF q, t
<1>7. q = t
  <2>1. q \in Seq(Seq(Byte)) /\ t \in Seq(Seq(Byte)) /\ Len(q) = Len(t)
    BY <1>3, <1>5 DEF t
  <2>2. \A i \in 1..Len(q) : q[i] = t[i]
    BY <1>5, <1>6
  <2> QED
    BY <2>1, <2>2, SeqEqual
<1> QED
  BY <1>5, <1>7 DEF q, t, x

\* A recv of a thread takes the next bytes of the wire: the length and the
\* bytes of each message in turn.
LEMMA RecvInStep ==
  ASSUME TableType, StreamType, NEW t \in Clients, Recv(t), fd[t] \in Descriptors,
         owner[fd[t]] = t, StreamOf(t)
  PROVE  StreamOf(t)'
<1>1. phase[t] \in {"header", "body"} /\ UNCHANGED <<peer, sent, out>>
  BY RecvEffect DEF client
<1>2. PICK bytes, more \in Seq(Byte) :
         /\ net[t] = bytes \o more /\ bytes # <<>>
         /\ net' = [net EXCEPT ![t] = more]
         /\ Len(buf[t]) < Len(buf[t] \o bytes) /\ Len(buf[t] \o bytes) =< Want(t)
         /\ ReadOn(t, buf[t] \o bytes)
  BY RecvEffect
<1> DEFINE b == buf[t]
           o == out[t]
           e == Encode(len[t])
           k == Len(got[t])
           j == Writing(t)
           w == Wire(t, k)
           x == b \o bytes
           rest == more \o o
<1>3. /\ b \in Seq(Byte) /\ o \in Seq(Byte) /\ e \in Seq(Byte) /\ Len(e) = HEADER
      /\ len[t] \in 0..(Place[HEADER] - 1) /\ k \in Nat /\ Text[t] \in Seq(Seq(Byte))
      /\ HEADER \in Nat \ {0} /\ Len(Text[t]) \in Nat
  BY EncodeType, FramedAssumption, LenProperties DEF StreamType
<1>4. k =< sent[t] /\ sent[t] =< Len(Text[t]) /\ sent[t] \in Nat
      /\ got[t] = Take(Text[t], k)
  BY DEF StreamOf, StreamType
<1>5. j \in 0..Len(Text[t]) /\ j \in {sent[t], sent[t] + 1}
      /\ Writing(t)' = j
  BY <1>1, <1>3, <1>4 DEF Writing, StreamType
<1>6. ~ Over(t)
  <2>1. bytes \o more # <<>>
    BY <1>2, ConcatEqualIffEmpty
  <2> QED
    BY <1>2, <2>1 DEF Over
<1>7. k =< j /\ Wire(t, j) = w \o (Taken(t) \o ((bytes \o more) \o o))
  BY <1>1, <1>2, <1>6 DEF StreamOf, InStep
<1>8. w \in Seq(Byte)
  <2>1. k \in 0..Len(Text[t])
    BY <1>3, <1>4
  <2> QED
    BY <2>1, WireFacts
<1>9. net'[t] = more /\ out'[t] = o /\ sent'[t] = sent[t]
  BY <1>1, <1>2 DEF StreamType
<1>10. Len(b) < Len(x) /\ Len(x) =< Want(t) /\ ReadOn(t, x)
  BY <1>2
<1>11. Taken(t) = IF phase[t] = "header" THEN b ELSE e \o b
  BY <1>1 DEF Taken
<1> HIDE DEF b, o, e, w, k, j
<1>12. /\ (bytes \o more) \o o = bytes \o rest /\ rest \in Seq(Byte)
       /\ x \in Seq(Byte) /\ b \o (bytes \o rest) = x \o rest
       /\ bytes \o rest \in Seq(Byte)
  <2>1. (bytes \o more) \o o = bytes \o rest
    <3>1. Cat(Cat(bytes, more), o) = Cat(bytes, Cat(more, o))
      BY <1>3, Regroup
    <3> QED
      BY <3>1 DEF Cat
  <2>2. rest \in Seq(Byte) /\ x \in Seq(Byte)
    BY <1>3, Streams
  <2> HIDE DEF rest
  <2>3. (b \o bytes) \o rest = b \o (bytes \o rest)
    <3>1. b \in Seq(Byte) /\ rest \in Seq(Byte)
      BY <1>3, <2>2
    <3>2. Cat(Cat(b, bytes), rest) = Cat(b, Cat(bytes, rest))
      BY <3>1, Regroup
    <3> QED
      BY <3>2 DEF Cat
  <2>4. bytes \o rest \in Seq(Byte)
    BY <2>2, Streams
  <2> QED
    BY <2>1, <2>2, <2>3, <2>4
<1> HIDE DEF x, rest
<1>13. CASE phase[t] = "header"
  <2>1. Want(t) = HEADER
    BY <1>13 DEF Want
  <2>2. Wire(t, j) = w \o (x \o rest)
    BY <1>7, <1>11, <1>12, <1>13
  <2>3. CASE Len(x) < HEADER
    <3>1. buf'[t] = x /\ phase' = phase /\ got' = got
      BY <1>10, <2>1, <2>3 DEF ReadOn, StreamType
    <3>2. Taken(t)' = x
      BY <1>13, <3>1 DEF Taken
    <3>3. InStep(t)'
      BY <1>5, <1>7, <1>9, <2>2, <3>1, <3>2 DEF InStep, k, w, rest
    <3> QED
      BY <1>4, <1>9, <3>1, <3>3 DEF StreamOf, k
  <2>4. CASE Len(x) = HEADER
    <3>1. HeaderRead(t, x)
      BY <1>10, <1>13, <2>1, <2>4 DEF ReadOn
    <3>2. k < j /\ x = Encode(Len(Text[t][k + 1]))
      <4>1. k \in 0..Len(Text[t]) /\ j \in k..Len(Text[t]) /\ Len(x) >= HEADER
        BY <1>3, <1>4, <1>5, <1>7, <2>4
      <4> QED
        <5>1. NextOn(t, k, j, x, rest)
          BY <1>12, <2>2, <4>1, Reading DEF w
        <5> QED
          BY <2>4, <5>1 DEF NextOn
    <3>3. k + 1 \in 1..Len(Text[t])
      BY <1>3, <1>5, <3>2
    <3> DEFINE n == Len(Text[t][k + 1])
    <3>4. n \in 1..(Place[HEADER] - 1)
      BY <3>3, FrameFacts
    <3>5. Decode(x) = n
      <4>1. n \in 0..(Place[HEADER] - 1)
        BY <3>4
      <4> HIDE DEF n
      <4> QED
        BY <3>2, <4>1, DecodeEncode DEF n
    <3> HIDE DEF n
    <3>6. n # 0
      BY <3>4
    <3>7. phase'[t] = "body" /\ len'[t] = n /\ buf'[t] = <<>> /\ got' = got
      BY <3>1, <3>5, <3>6 DEF HeaderRead, StreamType, TableType
    <3>8. Taken(t)' = x
      <4>1. x \o <<>> = x
        BY <1>12, Streams
      <4> QED
        BY <3>2, <3>7, <4>1 DEF Taken, n
    <3>9. InStep(t)'
      BY <1>5, <1>7, <1>9, <2>2, <3>7, <3>8 DEF InStep, k, w, rest
    <3> QED
      BY <1>4, <1>9, <3>7, <3>9 DEF StreamOf, k
  <2> QED
    BY <1>3, <1>10, <1>12, <2>1, <2>3, <2>4, LenProperties
<1>14. CASE phase[t] = "body"
  <2> DEFINE read == e \o x
  <2>1. Want(t) = len[t] /\ len[t] \in Nat
    BY <1>3, <1>14 DEF Want
  <2>2. Wire(t, j) = w \o (read \o rest) /\ read \in Seq(Byte) /\ Len(read) = HEADER + Len(x)
    <3> DEFINE y == bytes \o rest
    <3>1. y \in Seq(Byte) /\ b \o y = x \o rest
      BY <1>12
    <3>2. Wire(t, j) = w \o ((e \o b) \o y)
      BY <1>7, <1>11, <1>12, <1>14
    <3> HIDE DEF y
    <3>3. (e \o b) \o y = e \o (b \o y)
      <4>1. Cat(Cat(e, b), y) = Cat(e, Cat(b, y))
        BY <1>3, <3>1, Regroup
      <4> QED
        BY <4>1 DEF Cat
    <3>4. (e \o x) \o rest = e \o (x \o rest)
      <4>1. e \in Seq(Byte) /\ x \in Seq(Byte) /\ rest \in Seq(Byte)
        BY <1>3, <1>12
      <4>2. Cat(Cat(e, x), rest) = Cat(e, Cat(x, rest))
        BY <4>1, Regroup
      <4> QED
        BY <4>2 DEF Cat
    <3>5. e \o x \in Seq(Byte) /\ Len(e \o x) = Len(e) + Len(x)
      BY <1>3, <1>12, Streams
    <3> QED
      BY <1>3, <3>1, <3>2, <3>3, <3>4, <3>5
  <2> HIDE DEF read
  <2>3. CASE Len(x) < len[t]
    <3>1. buf'[t] = x /\ phase' = phase /\ got' = got /\ len' = len
      BY <1>10, <2>1, <2>3 DEF ReadOn, StreamType
    <3>2. Taken(t)' = read
      BY <1>14, <3>1 DEF Taken, read, e
    <3>3. InStep(t)'
      BY <1>5, <1>7, <1>9, <2>2, <3>1, <3>2 DEF InStep, k, w, rest
    <3> QED
      BY <1>4, <1>9, <3>1, <3>3 DEF StreamOf, k
  <2>4. CASE Len(x) = len[t]
    <3>1. BodyRead(t, x)
      BY <1>10, <1>14, <2>1, <2>4 DEF ReadOn
    <3>2. len[t] \in 1..(Place[HEADER] - 1)
      BY <1>3, <1>10, <1>12, <2>4, LenProperties
    <3>3. /\ k < j /\ x = Text[t][k + 1] /\ Wire(t, j) = Wire(t, k + 1) \o rest
          /\ k + 1 = j => rest = <<>>
      <4>1. k \in 0..Len(Text[t]) /\ j \in k..Len(Text[t]) /\ Len(read) >= HEADER
        BY <1>3, <1>4, <1>5, <1>7, <2>2, <3>2, <2>4
      <4>2. NextOn(t, k, j, read, rest)
        BY <1>12, <2>2, <4>1, Reading DEF w
      <4>3. read = Encode(len[t]) \o x
        BY DEF read, e
      <4> QED
        BY <1>12, <2>4, <3>2, <4>2, <4>3 DEF NextOn
    <3>4. phase'[t] = "call" /\ got'[t] = Append(got[t], x)
      BY <3>1 DEF BodyRead, StreamType, TableType
    <3>5. got'[t] = Take(Text[t], k + 1) /\ Len(got'[t]) = k + 1
      <4>1. k \in 0..(Len(Text[t]) - 1)
        BY <1>3, <1>5, <3>3
      <4> DEFINE s == Text[t]
                 g == got[t]
      <4>2. s \in Seq(Seq(Byte)) /\ g = Take(s, k) /\ k \in 0..(Len(s) - 1)
        BY <1>3, <1>4, <4>1
      <4> HIDE DEF s, g
      <4>3. Append(g, s[k + 1]) = Take(s, k + 1) /\ Len(Append(g, s[k + 1])) = k + 1
        BY <4>2, NextMessage
      <4> QED
        BY <3>3, <3>4, <4>3 DEF s, g
    <3>6. k + 1 =< sent[t]
      <4>1. CASE o = <<>>
        BY <1>3, <1>4, <3>3, <4>1 DEF Writing, j, o
      <4>2. CASE o # <<>>
        <5>1. j = sent[t] + 1
          BY <4>2 DEF Writing, j, o
        <5>2. rest # <<>>
          BY <1>3, <4>2, Streams DEF rest
        <5> QED
          BY <1>3, <1>4, <3>3, <5>1, <5>2
      <4> QED
        BY <4>1, <4>2
    <3>7. Taken(t)' = <<>>
      BY <3>4 DEF Taken
    <3>8. InStep(t)'
      <4>1. <<>> \o rest = rest
        BY <1>12, Streams
      <4>2. k + 1 =< j
        BY <1>3, <1>5, <3>3
      <4> QED
        BY <1>5, <1>9, <3>3, <3>5, <3>7, <4>1, <4>2 DEF InStep, rest
    <3> QED
      BY <1>9, <3>4, <3>5, <3>6, <3>8 DEF StreamOf
  <2> QED
    BY <1>10, <1>12, <2>1, <2>3, <2>4, LenProperties
<1> QED
  BY <1>1, <1>13, <1>14

\* The end of the stream is the end for the thread: it reads nothing from then on.
LEMMA FailsOver ==
  ASSUME TableType, StreamType, NEW t \in Clients, RecvFails(t), owner[fd[t]] = t, StreamOf(t)
  PROVE  StreamOf(t)'
<1>1. peer[t] = "reset" \/ (net[t] = <<>> /\ peer[t] \in {"done", "gone"})
  <2>1. t # NoClient
    BY FramedAssumption
  <2>2. AtEnd(fd[t])
    BY DEF RecvFails
  <2> QED
    BY <2>1, <2>2 DEF AtEnd
<1>2. UNCHANGED <<net, sent, got>>
  BY DEF RecvFails, HeaderRead
<1>3. peer'[t] \in {"done", "gone", "reset"}
  BY <1>1 DEF RecvFails, TableType
<1>4. Over(t)'
  BY <1>1, <1>2, <1>3 DEF Over, StreamType
<1> QED
  BY <1>2, <1>4 DEF StreamOf

\* A thread moves its own stream on, and no other that a thread reads alone.
LEMMA StreamThread ==
  ASSUME TableInv, StreamType, DescriptorInv, StreamInv, NEW t \in Clients, Thread(t)
  PROVE  StreamInv'
<1> SUFFICES ASSUME NEW c \in Clients, Alone(c)' PROVE StreamOf(c)'
  BY DEF StreamInv
<1>1. TableType /\ OwnerInv
  BY DEF TableInv
<1>2. /\ \A b \in Clients : phase'[b] = "none" <=> phase[b] = "none"
      /\ \A b \in Clients \ {t} : phase'[b] = phase[b]
      /\ phase[t] # "none" /\ slot' = slot
  BY <1>1 DEF TableType, Thread, Call, Recv, RecvFails, CloseFd, ReadOn, HeaderRead, BodyRead, table
<1>3. Accepted' = Accepted
  BY <1>2 DEF Accepted
<1>4. Alone(c) /\ t \in Accepted
  BY <1>2, <1>3 DEF Alone, Private, Accepted
<1>5. StreamOf(c)
  BY <1>4 DEF StreamInv
<1>6. phase[t] \in {"header", "body", "close"} =>
         /\ fd[t] \in Descriptors
         /\ c # t => owner[fd[t]] # c
  <2> SUFFICES ASSUME phase[t] \in {"header", "body", "close"}
               PROVE  fd[t] \in Descriptors /\ (c # t => owner[fd[t]] # c)
    OBVIOUS
  <2>1. fd[t] \in Descriptors
    BY DEF DescriptorInv
  <2>2. CASE c \in Accepted
    BY <1>4, <2>1, <2>2 DEF Alone, DescriptorInv
  <2>3. CASE c \notin Accepted
    BY <1>1, <2>1, <2>3, FramedAssumption DEF OwnerInv, Accepted
  <2> QED
    BY <2>1, <2>2, <2>3
<1>7. CASE c # t
  <2>1. /\ out'[c] = out[c] /\ sent'[c] = sent[c] /\ got'[c] = got[c]
        /\ len'[c] = len[c] /\ buf'[c] = buf[c]
    BY <1>1, <1>7 DEF StreamType, Thread, Call, Recv, RecvFails, CloseFd, ReadOn, HeaderRead,
       BodyRead, client
  <2>2. peer[c] \in {"done", "gone", "reset"} => peer'[c] \in {"done", "gone", "reset"}
    BY DEF Thread, Call, Recv, RecvFails, CloseFd, client
  <2>3. net'[c] = net[c]
    <3>1. CASE Recv(t)
      <4>1. phase[t] \in {"header", "body"}
        BY <3>1 DEF Recv
      <4>2. \E more \in Seq(Byte) : net' = [net EXCEPT ![owner[fd[t]]] = more]
        BY <1>1, <1>6, <3>1, <4>1, RecvEffect
      <4>3. owner[fd[t]] # c
        BY <1>6, <1>7, <4>1
      <4> QED
        BY <4>2, <4>3 DEF StreamType
    <3>2. CASE ~ Recv(t)
      BY <3>2 DEF Thread, Call, RecvFails, CloseFd
    <3> QED
      BY <3>1, <3>2
  <2>4. phase'[c] = phase[c]
    BY <1>2, <1>7
  <2>5. Untouched(c)
    BY <2>1, <2>2, <2>3, <2>4 DEF Untouched
  <2> QED
    BY <1>5, <2>5, StreamUntouched
<1>8. CASE c = t
  <2>1. c \in Accepted /\ Private(c)
    BY <1>4, <1>8 DEF Alone
  <2>2. phase[t] \in {"header", "body", "close"} => owner[fd[t]] = t
    BY <1>8, <2>1 DEF DescriptorInv
  <2>3. CASE Call(t)
    <3>1. /\ phase[t] = "call" /\ phase'[t] = "header" /\ buf'[t] = <<>>
          /\ UNCHANGED <<peer, sent, out, net, got>>
      BY <1>1, <2>3 DEF Call, client, TableType, StreamType
    <3>2. Taken(t)' = Taken(t)
      BY <3>1 DEF Taken
    <3>3. Writing(t)' = Writing(t)
      BY <3>1 DEF Writing
    <3> QED
      BY <1>5, <1>8, <3>1, <3>2, <3>3 DEF StreamOf, InStep, Over
  <2>4. CASE Recv(t)
    <3>1. phase[t] \in {"header", "body"}
      BY <2>4 DEF Recv
    <3> QED
      BY <1>1, <1>5, <1>6, <1>8, <2>2, <2>4, <3>1, RecvInStep
  <2>5. CASE RecvFails(t)
    <3>1. phase[t] \in {"header", "body"}
      BY <2>5 DEF RecvFails
    <3> QED
      BY <1>1, <1>5, <1>8, <2>2, <2>5, <3>1, FailsOver
  <2>6. CASE CloseFd(t)
    BY <1>1, <1>5, <1>8, <2>6 DEF CloseFd, client, StreamOf, TableType
  <2> QED
    BY <2>3, <2>4, <2>5, <2>6 DEF Thread
<1> QED
  BY <1>7, <1>8

\* A client moves its own stream on.
LEMMA StreamClient ==
  ASSUME TableInv, StreamType, StreamInv, NEW c \in Clients, Client(c)
  PROVE  StreamInv'
<1> SUFFICES ASSUME NEW b \in Clients, Alone(b)' PROVE StreamOf(b)'
  BY DEF StreamInv
<1>1. UNCHANGED <<phase, slot, len, buf, got>>
  BY DEF Client, Connect, Send, Close, Reset, table, thread
<1>2. StreamOf(b)
  BY <1>1 DEF StreamInv, Alone, Accepted, Private
<1>3. CASE Send(c) /\ b = c
  BY <1>2, <1>3, SendInStep
<1>4. CASE Send(c) /\ b # c
  <2>1. peer' = peer
    BY <1>4, SendEffect
  <2>2. PICK given, more \in Seq(Byte) :
           /\ net' = [net EXCEPT ![c] = @ \o given]
           /\ out' = [out EXCEPT ![c] = more]
           /\ sent' = [sent EXCEPT ![c] = IF more = <<>> THEN @ + 1 ELSE @]
    BY <1>4, SendEffect
  <2>3. net'[b] = net[b] /\ out'[b] = out[b] /\ sent'[b] = sent[b]
    BY <1>4, <2>2 DEF StreamType
  <2>4. Untouched(b)
    BY <1>1, <2>1, <2>3 DEF Untouched
  <2> QED
    BY <1>2, <2>4, StreamUntouched
<1>5. CASE Connect(c) \/ Close(c)
  <2>1. UNCHANGED <<sent, out, net>>
    BY <1>5 DEF Connect, Close
  <2>2. peer[b] \in {"done", "gone", "reset"} => peer'[b] \in {"done", "gone", "reset"}
    BY <1>5 DEF Connect, Close, TableInv, TableType
  <2>3. Untouched(b)
    BY <1>1, <2>1, <2>2 DEF Untouched
  <2> QED
    BY <1>2, <2>3, StreamUntouched
<1>6. CASE Reset(c) /\ b = c
  <2>1. net'[b] = <<>> /\ peer'[b] = "reset" /\ sent' = sent
    BY <1>6 DEF Reset, TableInv, TableType, StreamType
  <2> QED
    BY <1>1, <1>2, <2>1 DEF StreamOf, Over
<1>7. CASE Reset(c) /\ b # c
  <2>1. net'[b] = net[b] /\ peer'[b] = peer[b] /\ UNCHANGED <<sent, out>>
    BY <1>7 DEF Reset, TableInv, TableType, StreamType
  <2>2. Untouched(b)
    BY <1>1, <2>1 DEF Untouched
  <2> QED
    BY <1>2, <2>2, StreamUntouched
<1> QED
  BY <1>3, <1>4, <1>5, <1>6, <1>7 DEF Client

\* accept hands the stream over as it is.
LEMMA StreamAccept ==
  ASSUME TableInv, StreamType, StreamInv, Accept
  PROVE  StreamInv'
<1> SUFFICES ASSUME NEW b \in Clients, Alone(b)' PROVE StreamOf(b)'
  BY DEF StreamInv
<1>1. PICK c \in Clients, s \in Slots :
         /\ phase[c] = "none"
         /\ phase' = [phase EXCEPT ![c] = "call"] /\ slot' = [slot EXCEPT ![c] = s]
         /\ UNCHANGED <<client, net, fd, len, buf, got>>
  BY AcceptEffect DEF TableInv
<1>2. UNCHANGED <<peer, sent, out, net, len, buf, got>>
  BY <1>1 DEF client
<1>3. Accepted' = Accepted \union {c} /\ \A a \in Accepted : slot'[a] = slot[a]
  BY <1>1 DEF TableInv, TableType, Accepted
<1>4. Alone(b)
  BY <1>3 DEF Alone, Private
<1>5. StreamOf(b)
  BY <1>4 DEF StreamInv
<1>6. phase'[b] = phase[b] \/ (phase[b] = "none" /\ phase'[b] = "call")
  <2>1. phase \in [Clients -> Phases]
    BY DEF TableInv, TableType
  <2>2. CASE b = c
    BY <1>1, <2>1, <2>2
  <2>3. CASE b # c
    BY <1>1, <2>1, <2>3
  <2> QED
    BY <2>2, <2>3
<1>7. Untouched(b)
  BY <1>2, <1>6 DEF Untouched
<1> QED
  BY <1>5, <1>7, StreamUntouched

-----------------------------------------------------------------------------
(* The invariant of the framing server *)

FramedInv == TableInv /\ StreamType /\ DescriptorInv /\ StreamInv

\* At the start nothing has been written, and nothing read.
LEMMA FramedInit == Init => FramedInv
<1> SUFFICES ASSUME Init PROVE FramedInv
  OBVIOUS
<1>1. TableInv
  BY TableInit
<1>2. \A c \in Clients : Len(Text[c]) \in Nat /\ Text[c] \in Seq(Seq(Byte))
  BY FramedAssumption, LenProperties
<1>3. StreamType
  BY <1>2, PlaceFacts, FramedAssumption, Streams DEF Init, StreamType
<1>4. DescriptorInv
  BY DEF Init, DescriptorInv, Accepted
<1>5. ASSUME NEW c \in Clients PROVE StreamOf(c)
  <2>1. /\ Len(got[c]) = 0 /\ got[c] = <<>> /\ sent[c] = 0 /\ net[c] = <<>> /\ out[c] = <<>>
        /\ phase[c] = "none"
    BY EmptySeq DEF Init
  <2>2. Take(Text[c], 0) = <<>>
    BY SubSeqEmpty DEF Take
  <2>3. Taken(c) = <<>> /\ Writing(c) = 0
    BY <2>1 DEF Taken, Writing
  <2>4. <<>> = <<>> \o (<<>> \o (<<>> \o <<>>))
    BY Streams
  <2>5. Wire(c, 0) = <<>>
    BY WireFacts
  <2>6. InStep(c)
    BY <2>1, <2>3, <2>4, <2>5 DEF InStep
  <2> QED
    BY <2>1, <2>2, <2>6 DEF StreamOf
<1> QED
  BY <1>1, <1>3, <1>4, <1>5 DEF FramedInv, StreamInv

\* Every step keeps the table, the descriptors and the streams in order.
LEMMA FramedStep == FramedInv /\ [Next]_vars => FramedInv'
<1> SUFFICES ASSUME FramedInv, [Next]_vars PROVE FramedInv'
  OBVIOUS
<1>1. TableInv'
  BY TableStep DEF FramedInv
<1>2. CASE Accept
  <2>1. fd \in [Clients -> Descriptors \union {-1}]
    BY DEF FramedInv, StreamType
  <2> QED
    BY <1>1, <1>2, <2>1, DescriptorAccept, StreamTypeAccept, StreamAccept DEF FramedInv
<1>3. ASSUME NEW c \in Clients, Client(c) PROVE FramedInv'
  <2>1. UNCHANGED <<phase, owner, infos, slot, fd>>
    BY <1>3 DEF Client, Connect, Send, Close, Reset, table, thread
  <2>2. DescriptorInv'
    BY <2>1 DEF FramedInv, DescriptorInv, Accepted, Private
  <2> QED
    BY <1>1, <1>3, <2>2, StreamTypeClient, StreamClient DEF FramedInv
<1>4. ASSUME NEW t \in Clients, Thread(t) PROVE FramedInv'
  <2>1. fd \in [Clients -> Descriptors \union {-1}]
    BY DEF FramedInv, StreamType
  <2> QED
    BY <1>1, <1>4, <2>1, DescriptorThread, StreamTypeThread, StreamThread DEF FramedInv
<1>5. CASE UNCHANGED vars
  <2>1. UNCHANGED <<peer, sent, out, net, owner, infos, slot, phase, fd, len, buf, got>>
    BY <1>5 DEF vars, client, table, thread
  <2>2. StreamType'
    BY <2>1 DEF FramedInv, StreamType, Want
  <2>3. DescriptorInv'
    BY <2>1 DEF FramedInv, DescriptorInv, Accepted, Private
  <2>4. StreamInv'
    <3> SUFFICES ASSUME NEW c \in Clients, Alone(c)' PROVE StreamOf(c)'
      BY DEF StreamInv
    <3>1. StreamOf(c)
      BY <2>1 DEF FramedInv, StreamInv, Alone, Accepted, Private
    <3>2. Untouched(c)
      BY <2>1 DEF Untouched
    <3> QED
      BY <3>1, <3>2, StreamUntouched
  <2> QED
    BY <1>1, <2>2, <2>3, <2>4 DEF FramedInv
<1> QED
  BY <1>2, <1>3, <1>4, <1>5 DEF Next

-----------------------------------------------------------------------------

\* Two threads are given the same slot of infos only once more clients have
\* been accepted than it has slots.
THEOREM SlotsCorrect == Spec => []SlotPerClient
<1>1. TableInv => SlotPerClient
  BY DEF TableInv, SlotInv, SlotPerClient
<1> QED
  BY <1>1, TableInit, TableStep, PTL DEF Spec

\* Every variable of the server keeps its type, whatever arrives: a length cut
\* short is still one recvMsg can use, and readn never holds more than it was
\* asked for.
THEOREM FramedTypesCorrect == Spec => []TypeOK
<1>1. FramedInv => TypeOK
  <2> SUFFICES ASSUME FramedInv PROVE TypeOK
    OBVIOUS
  <2>1. \A c \in Clients : sent[c] \in 0..Len(Text[c])
    BY FramedAssumption, LenProperties DEF FramedInv, StreamType
  <2> QED
    BY <2>1 DEF FramedInv, TableInv, TableType, StreamType, TypeOK
<1> QED
  BY <1>1, FramedInit, FramedStep, PTL DEF Spec

\* The messages a thread has received are the first of those its client has
\* written completely, however the bytes were cut on their way, as long as main
\* has not given its slot to another thread.
THEOREM MessagesCorrect == Spec => []WholeMessages
<1>1. FramedInv => WholeMessages
  <2> SUFFICES ASSUME FramedInv, NEW c \in Accepted, Private(c)
               PROVE  IsPrefix(got[c], Take(Text[c], sent[c]))
    BY DEF WholeMessages
  <2> DEFINE s == Text[c]
             g == got[c]
             k == Len(g)
             n == sent[c]
  <2>1. c \in Clients /\ Alone(c)
    BY DEF Accepted, Alone
  <2>2. /\ s \in Seq(Seq(Byte)) /\ g \in Seq(Seq(Byte)) /\ k \in Nat /\ n \in Nat
        /\ k =< n /\ n =< Len(s) /\ Len(s) \in Nat /\ g = Take(s, k)
    BY <2>1, FramedAssumption, LenProperties DEF FramedInv, StreamInv, StreamOf, StreamType
  <2> HIDE DEF s, g, n
  <2>3. n \in 0..Len(s) /\ k \in 0..Len(s)
    BY <2>2
  <2>4. /\ Take(s, n) \in Seq(Seq(Byte)) /\ Len(Take(s, n)) = n
        /\ \A i \in 1..n : Take(s, n)[i] = s[i]
    BY <2>2, <2>3, TakeDrop
  <2>5. \A i \in 1..k : g[i] = s[i]
    BY <2>2, <2>3, TakeDrop
  <2> DEFINE p == Take(s, n)
  <2> HIDE DEF p
  <2>6. SubSeq(g, 1, k) = g
    BY <2>2, SubSeqFull
  <2>7. SubSeq(p, 1, k) = g
    <3>a. p \in Seq(Seq(Byte)) /\ Len(p) = n /\ \A i \in 1..n : p[i] = s[i]
      BY <2>4 DEF p
    <3>1. p \in Seq(Seq(Byte)) /\ k \in 0..Len(p) /\ \A i \in 1..k : p[i] = g[i]
      <4> HIDE DEF k
      <4>1. k \in 0..Len(p)
        BY <2>2, <3>a
      <4>2. \A i \in 1..k : i \in 1..n
        BY <2>2
      <4>3. \A i \in 1..k : p[i] = g[i]
        BY <2>5, <3>a, <4>2
      <4> QED
        BY <3>a, <4>1, <4>3
    <3>2. Take(p, k) \in Seq(Seq(Byte)) /\ Len(Take(p, k)) = k /\ \A i \in 1..k : Take(p, k)[i] = p[i]
      <4> HIDE DEF k
      <4> QED
        BY <3>1, TakeDrop
    <3>3. Take(p, k) = g
      <4>1. \A i \in 1..Len(Take(p, k)) : Take(p, k)[i] = g[i]
        BY <3>1, <3>2
      <4> QED
        BY <2>2, <3>2, <4>1, SeqEqual
    <3> QED
      BY <3>3 DEF Take
  <2>8. IsPrefix(g, p)
    BY <2>2, <2>4, <2>6, <2>7 DEF IsPrefix, p
  <2> QED
    BY <2>8 DEF g, p, s, n
<1> QED
  BY <1>1, FramedInit, FramedStep, PTL DEF Spec

-----------------------------------------------------------------------------
(* The framing server keeps the promise of its framing *)

\* Nothing but recvMsg hands a message over, one at a time to its own thread.
LEMMA ThreadReceives ==
  ASSUME NEW t \in Clients, Thread(t)
  PROVE  UNCHANGED sent /\ (got' = got \/ \E msg : got' = [got EXCEPT ![t] = Append(@, msg)])
<1>1. UNCHANGED sent
  BY DEF Thread, Call, Recv, RecvFails, CloseFd, client
<1>2. CASE Recv(t)
  <2>1. PICK msg : ReadOn(t, msg)
    BY <1>2 DEF Recv
  <2> QED
    BY <1>1, <2>1 DEF ReadOn, HeaderRead, BodyRead
<1>3. CASE ~ Recv(t)
  BY <1>1, <1>3 DEF Thread, Call, RecvFails, CloseFd, HeaderRead
<1> QED
  BY <1>1, <1>2, <1>3

\* What a client gets beyond the first messages of its text is the next one.
LEMMA OneMore ==
  ASSUME NEW s \in Seq(Seq(Byte)), NEW k \in 0..(Len(s) - 1), NEW msg,
         Append(Take(s, k), msg) = Take(s, k + 1)
  PROVE  msg = s[k + 1]
<1>1. Len(s) \in Nat /\ k \in 0..Len(s) /\ k + 1 \in 0..Len(s) /\ k + 1 \in 1..(k + 1)
  BY LenProperties
<1>2. Take(s, k) \in Seq(Seq(Byte)) /\ Len(Take(s, k)) = k
  BY <1>1, TakeDrop
<1>3. Take(s, k + 1)[k + 1] = s[k + 1]
  BY <1>1, TakeDrop
<1> DEFINE r == Take(s, k)
<1> HIDE DEF r
<1>4. Append(r, msg)[Len(r) + 1] = msg
  BY <1>2 DEF r
<1> QED
  BY <1>2, <1>3, <1>4 DEF r

\* Every step of the server is a step of the channels, or none of theirs.
LEMMA ChannelsStep == FramedInv /\ FramedInv' /\ [Next]_vars => [Channels!Next]_(Channels!vars)
<1> SUFFICES ASSUME FramedInv, FramedInv', [Next]_vars
             PROVE  Channels!Next \/ UNCHANGED Channels!vars
  OBVIOUS
<1>1. sent \in [Clients -> Nat] /\ got \in [Clients -> Seq(Seq(Byte))]
  BY DEF FramedInv, StreamType
<1>2. Sharing \subseteq Clients /\ Sharing' \subseteq Clients
  BY DEF Sharing, Accepted
<1>3. CASE Accept
  <2>1. PICK c \in Clients, s \in Slots :
           /\ phase[c] = "none"
           /\ phase' = [phase EXCEPT ![c] = "call"] /\ slot' = [slot EXCEPT ![c] = s]
           /\ UNCHANGED <<client, net, fd, len, buf, got>>
    BY <1>3, AcceptEffect DEF FramedInv, TableInv
  <2>2. Accepted \subseteq Accepted' /\ \A a \in Accepted : slot'[a] = slot[a]
    BY <2>1 DEF FramedInv, TableInv, TableType, Accepted
  <2>3. Sharing \subseteq Sharing'
    BY <2>2 DEF Sharing, Private
  <2>4. UNCHANGED <<sent, got>>
    BY <2>1 DEF client
  <2>5. Channels!Share
    BY <1>2, <2>3, <2>4 DEF Channels!Share
  <2> QED
    BY <2>5 DEF Channels!Next
<1>4. ASSUME NEW c \in Clients, Client(c) PROVE Channels!Next \/ UNCHANGED Channels!vars
  <2>1. UNCHANGED <<phase, slot, got>>
    BY <1>4 DEF Client, Connect, Send, Close, Reset, table, thread
  <2>2. Sharing' = Sharing
    BY <2>1 DEF Sharing, Accepted, Private
  <2>3. CASE Send(c)
    <3>1. StreamType
      BY DEF FramedInv
    <3>2. sent[c] < Len(Text[c])
      BY <2>3, <3>1, SendEffect
    <3>3. PICK given, more \in Seq(Byte) :
             /\ given \o more = IF out[c] = <<>> THEN Frame(Text[c][sent[c] + 1]) ELSE out[c]
             /\ net' = [net EXCEPT ![c] = @ \o given]
             /\ out' = [out EXCEPT ![c] = more]
             /\ sent' = [sent EXCEPT ![c] = IF more = <<>> THEN @ + 1 ELSE @]
      BY <2>3, <3>1, SendEffect
    <3>4. CASE more = <<>>
      <4>1. Channels!Write(c)
        BY <2>1, <2>2, <3>2, <3>3, <3>4 DEF Channels!Write
      <4> QED
        BY <4>1 DEF Channels!Next
    <3>5. CASE more # <<>>
      <4>1. sent' = sent
        BY <1>1, <3>3, <3>5
      <4> QED
        BY <2>1, <2>2, <4>1 DEF Channels!vars
    <3> QED
      BY <3>4, <3>5
  <2>4. CASE ~ Send(c)
    <3>1. UNCHANGED sent
      BY <1>4, <2>4 DEF Client, Connect, Close, Reset
    <3> QED
      BY <2>1, <2>2, <3>1 DEF Channels!vars
  <2> QED
    BY <2>3, <2>4
<1>5. ASSUME NEW t \in Clients, Thread(t) PROVE Channels!Next \/ UNCHANGED Channels!vars
  <2>1. /\ \A b \in Clients : phase'[b] = "none" <=> phase[b] = "none"
        /\ phase[t] # "none" /\ slot' = slot
    BY <1>5 DEF FramedInv, TableInv, TableType, Thread, Call, Recv, RecvFails, CloseFd, ReadOn,
       HeaderRead, BodyRead, table
  <2>2. Accepted' = Accepted /\ t \in Accepted
    BY <2>1 DEF Accepted
  <2>3. Sharing' = Sharing
    BY <2>1, <2>2 DEF Sharing, Private
  <2>4. UNCHANGED sent
    BY <1>5, ThreadReceives
  <2>5. CASE got' = got
    BY <2>3, <2>4, <2>5 DEF Channels!vars
  <2>6. CASE got' # got
    <3> DEFINE g == got[t]
               k == Len(g)
               s == Text[t]
    <3>1. PICK msg : got' = [got EXCEPT ![t] = Append(@, msg)]
      BY <1>5, <2>6, ThreadReceives
    <3>2. got'[t] = Append(g, msg) /\ g \in Seq(Seq(Byte)) /\ got'[t] \in Seq(Seq(Byte))
      <4>1. got' \in [Clients -> Seq(Seq(Byte))]
        BY DEF FramedInv, StreamType
      <4> QED
        BY <1>1, <3>1, <4>1
    <3>3. k \in Nat /\ Len(Append(g, msg)) = k + 1
      <4> HIDE DEF g
      <4> QED
        BY <3>2
    <3>4. CASE t \in Sharing
      <4>1. Len(got'[t]) = Len(got[t]) + 1
        BY <3>2, <3>3
      <4>2. \A d \in Clients \ {t} : got'[d] = got[d]
        BY <1>1, <3>1
      <4>3. Channels!Astray(t)
        BY <2>3, <2>4, <3>4, <4>1, <4>2 DEF Channels!Astray
      <4> QED
        BY <4>3 DEF Channels!Next
    <3>5. CASE t \notin Sharing
      <4>1. Alone(t) /\ Alone(t)'
        BY <2>2, <2>3, <3>5 DEF Alone, Sharing
      <4>2. g = Take(s, k)
        BY <4>1 DEF FramedInv, StreamInv, StreamOf
      <4>3. got'[t] = Take(s, k + 1) /\ k + 1 =< sent[t]
        <5>1. StreamOf(t)'
          BY <4>1 DEF FramedInv, StreamInv
        <5> QED
          BY <2>4, <3>2, <3>3, <5>1 DEF StreamOf
      <4>4. s \in Seq(Seq(Byte)) /\ k \in 0..(Len(s) - 1) /\ k < sent[t]
        <5>1. s \in Seq(Seq(Byte)) /\ Len(s) \in Nat /\ sent[t] \in Nat /\ sent[t] =< Len(s)
          BY FramedAssumption, LenProperties DEF FramedInv, StreamType
        <5> QED
          BY <3>3, <4>3, <5>1
      <4>5. msg = s[k + 1]
        <5>1. Append(Take(s, k), msg) = Take(s, k + 1)
          BY <3>2, <4>2, <4>3
        <5> HIDE DEF k, s
        <5> QED
          BY <4>4, <5>1, OneMore
      <4>6. got' = [got EXCEPT ![t] = Append(@, Text[t][Len(@) + 1])]
        BY <3>1, <4>5
      <4>7. Channels!Receive(t)
        BY <2>3, <2>4, <3>5, <4>4, <4>6 DEF Channels!Receive
      <4> QED
        BY <4>7 DEF Channels!Next
    <3> QED
      BY <3>4, <3>5
  <2> QED
    BY <2>5, <2>6
<1>6. CASE UNCHANGED vars
  BY <1>6 DEF vars, client, table, thread, Channels!vars, Sharing, Accepted, Private
<1> QED
  BY <1>3, <1>4, <1>5, <1>6 DEF Next

\* However TCP cuts the bytes of the messages and wherever it breaks off, the
\* two ends see a channel that carries whole messages in their order, except
\* where main has given one slot of its table to two threads.
THEOREM ServerImplementsChannels == Spec => ImplementsChannels
<1>1. Init => Channels!Init
  BY DEF Init, Channels!Init, Sharing, Accepted
<1> QED
  BY <1>1, FramedInit, FramedStep, ChannelsStep, PTL DEF Spec, ImplementsChannels, Channels!Spec
=============================================================================
