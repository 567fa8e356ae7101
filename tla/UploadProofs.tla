---------------------------- MODULE UploadProofs ----------------------------
(***************************************************************************)
(* The way of a job from the client's files to a node.                     *)
(*                                                                         *)
(* A connection that carries its bytes in any pieces, and breaks at any    *)
(* byte, implements a channel, for every payload whose length the header   *)
(* has room for; so does the client's connection in Upload.  That no bytes *)
(* are read that were not sent, and that the reader is still reading while *)
(* the sender is not through (InOrder), is what it takes.                  *)
(*                                                                         *)
(* The decoder emits the file it is given, and what it takes off for the   *)
(* padding is missing (Decoding).                                          *)
(*                                                                         *)
(* What is taken out of a text is what was put in, and so the node and the *)
(* backup get the job as the client sent it (Underway).                    *)
(***************************************************************************)
EXTENDS Upload, TLAPS, SequenceTheorems, WellFoundedInduction

\* The payload is one the header has room for.
Fits == payload \in Seq({payload[i] : i \in DOMAIN payload}) /\ Len(payload) < Base^HeaderLength

InOrder ==
  /\ sender \in {"header", "body", "sent", "broken", "stalled"}
  /\ sent \in Nat
  /\ got \in Nat
  /\ got <= sent
  /\ sent <= F!Total
  /\ sender = "header" => sent = 0
  /\ sender = "body" => sent < F!Total
  /\ reader # "reading" => sender \in {"sent", "broken", "stalled"}

IInv == Fits /\ InOrder

\* One connection, whatever it is for.
Connection == F!Init /\ Fits /\ [][F!Next]_<<payload, F!fVars>>

LEMMA SameInterval ==
  ASSUME NEW m \in Nat, NEW n \in Nat, 1..m = 1..n
  PROVE  m = n
<1>1. CASE m = 0
  <2>1. n \notin 1..n
    BY <1>1
  <2> QED
    BY <1>1, <2>1
<1>2. CASE m > 0
  <2>1. m \in 1..n
    BY <1>2
  <2>2. n \in 1..m
    BY <2>1
  <2> QED
    BY <2>1, <2>2
<1> QED
  BY <1>1, <1>2

\* A set of numbers has a least one.
LEMMA LeastNumber ==
  ASSUME NEW S, S \subseteq Nat, S # {}
  PROVE  \E n \in S : \A m \in S : n <= m
<1> DEFINE R == OpToRel(<, Nat)
<1>1. PICK n \in S : \A m \in S : ~(<<m, n>> \in R)
  <2> HIDE DEF R
  <2>1. IsWellFoundedOn(R, Nat)
    BY NatLessThanWellFounded DEF R
  <2> QED
    BY <2>1, WFMin
<1>2. \A m \in S : ~(m < n)
  BY <1>1 DEF OpToRel
<1> QED
  BY <1>2

\* A quotient and a remainder, recognised.
LEMMA Quotient ==
  ASSUME NEW n \in Int, NEW d \in Nat \ {0}, NEW q \in Int, NEW r \in 0..(d - 1), n = d * q + r
  PROVE  n \div d = q /\ n % d = r
BY SMT

\* The powers of the base are numbers.
LEMMA PowersAreNumbers ==
  ASSUME F!FramingAssumption
  PROVE  \A k \in 0..HeaderLength : Base^k \in Nat \ {0}
<1> DEFINE S == {k \in 0..HeaderLength : Base^k \notin Nat \ {0}}
<1>1. SUFFICES ASSUME S # {} PROVE FALSE
  OBVIOUS
<1>2. HeaderLength \in Nat \ {0} /\ Base \in Nat \ {0, 1} /\ Base^0 = 1
      /\ \A k \in 0..(HeaderLength - 1) : Base^(k + 1) = Base * Base^k
  BY DEF F!FramingAssumption
<1>3. PICK n \in S : \A m \in S : n <= m
  <2>1. S \subseteq Nat
    BY <1>2
  <2> HIDE DEF S
  <2> QED
    BY <1>1, <2>1, LeastNumber
<1>4. n # 0 /\ n \in 1..HeaderLength /\ Base^n \notin Nat \ {0}
  BY <1>2, <1>3
<1>5. n - 1 \in 0..(HeaderLength - 1) /\ Base^(n - 1) \in Nat \ {0}
  BY <1>2, <1>3, <1>4
<1>6. Base^(n - 1 + 1) = Base * Base^(n - 1) /\ n - 1 + 1 = n
  BY <1>2, <1>4, <1>5
<1>7. \A p \in Nat \ {0} : Base * p \in Nat \ {0}
  BY <1>2, SMT
<1> QED
  BY <1>4, <1>5, <1>6, <1>7, Zenon

\* Dividing twice.
LEMMA DivideTwice ==
  ASSUME NEW n \in Nat, NEW p \in Nat \ {0}, NEW b \in Nat \ {0}
  PROVE  n \div (b * p) = (n \div p) \div b
<1>1. PICK q \in Nat, r \in 0..(p - 1) : n = p * q + r /\ n \div p = q
  <2>1. n \div p \in Nat /\ n % p \in 0..(p - 1) /\ n = p * (n \div p) + (n % p)
    BY SMT
  <2> QED
    BY <2>1
<1>2. PICK s \in Nat, t \in 0..(b - 1) : q = b * s + t /\ q \div b = s
  <2>1. q \div b \in Nat /\ q % b \in 0..(b - 1) /\ q = b * (q \div b) + (q % b)
    BY SMT
  <2> QED
    BY <2>1
<1>3. n = (b * p) * s + (p * t + r)
  <2>1. p * (b * s + t) = (b * p) * s + p * t
    BY SMT
  <2>2. n = p * (b * s + t) + r
    BY <1>1, <1>2
  <2>3. (b * p) * s \in Int /\ p * t \in Int /\ r \in Int
    BY SMT
  <2> QED
    BY <2>1, <2>2, <2>3, SMT
<1>4. p * t + r \in 0..(b * p - 1)
  <2>1. p * t <= p * (b - 1) /\ p * t \in Nat
    BY SMT
  <2>2. p * (b - 1) = b * p - p
    BY SMT
  <2> QED
    BY <2>1, <2>2, SMT
<1>5. b * p \in Nat \ {0}
  BY SMT
<1> DEFINE d == b * p
           rest == p * t + r
<1>6. n = d * s + rest /\ rest \in 0..(d - 1) /\ d \in Nat \ {0}
  BY <1>3, <1>4, <1>5
<1> HIDE DEF d, rest
<1>7. n \div d = s
  BY <1>6, Quotient
<1> QED
  BY <1>1, <1>2, <1>7 DEF d

\* A header is a sequence, of its length.
LEMMA HeaderIsSequence ==
  ASSUME F!FramingAssumption, NEW len
  PROVE  LET header == F!Header(len)
         IN  header \in Seq({header[i] : i \in 1..HeaderLength}) /\ Len(header) = HeaderLength
<1> DEFINE header == F!Header(len)
           S == {header[i] : i \in 1..HeaderLength}
<1>1. HeaderLength \in Nat
  BY DEF F!FramingAssumption
<1>2. header = [i \in 1..HeaderLength |-> header[i]]
  BY DEF F!Header
<1>3. \A i \in 1..HeaderLength : header[i] \in S
  OBVIOUS
<1> HIDE DEF header, S
<1>4. header \in [1..HeaderLength -> S]
  BY <1>2, <1>3
<1>5. header \in Seq(S)
  BY <1>1, <1>4, SeqDef
<1>6. DOMAIN header = 1..Len(header) /\ DOMAIN header = 1..HeaderLength /\ Len(header) \in Nat
  BY <1>2, <1>5, LenProperties
<1>7. Len(header) = HeaderLength
  BY <1>1, <1>6, SameInterval
<1> QED
  BY <1>5, <1>7 DEF header, S

\* A header is the length it was made of.
LEMMA HeaderIsLength ==
  ASSUME F!FramingAssumption, NEW len \in Nat, len < Base^HeaderLength
  PROVE  F!LengthOf(F!Header(len)) = len
<1> DEFINE h == F!Header(len)
           G == [i \in 0..HeaderLength |-> len \div Base^(HeaderLength - i)]
           f == CHOOSE f : f = [i \in 0..HeaderLength |-> IF i = 0 THEN 0 ELSE Base * f[i - 1] + h[i]]
<1>1. /\ HeaderLength \in Nat \ {0} /\ Base \in Nat \ {0, 1} /\ Base^0 = 1
      /\ \A k \in 0..(HeaderLength - 1) : Base^(k + 1) = Base * Base^k
  BY DEF F!FramingAssumption
<1>2. h = [i \in 1..HeaderLength |-> (len \div Base^(HeaderLength - i)) % Base]
  BY DEF F!Header
<1>3. G[0] = 0
  <2>1. G[0] = len \div Base^HeaderLength
    BY <1>1
  <2>2. Base^HeaderLength \in Nat \ {0}
    BY <1>1, PowersAreNumbers
  <2>3. len = Base^HeaderLength * 0 + len /\ len \in 0..(Base^HeaderLength - 1)
    BY <2>2
  <2> QED
    BY <2>1, <2>2, <2>3, Quotient
<1>4. ASSUME NEW i \in 1..HeaderLength
      PROVE  G[i] = Base * G[i - 1] + h[i]
  <2> DEFINE k == HeaderLength - i
             p == Base^k
  <2>1. k \in 0..(HeaderLength - 1) /\ k \in 0..HeaderLength /\ HeaderLength - (i - 1) = k + 1
        /\ i \in 0..HeaderLength /\ i - 1 \in 0..HeaderLength
    BY <1>1
  <2>2. p \in Nat \ {0} /\ Base^(k + 1) = Base * p
    BY <1>1, <2>1, PowersAreNumbers
  <2>3. G[i] = len \div p /\ G[i - 1] = len \div (Base * p) /\ h[i] = (len \div p) % Base
    <3>1. G[i - 1] = len \div Base^(k + 1)
      BY <2>1
    <3> QED
      BY <1>2, <2>1, <2>2, <3>1
  <2> HIDE DEF p, G, h
  <2>4. len \div (Base * p) = (len \div p) \div Base
    <3>1. Base \in Nat \ {0}
      BY <1>1
    <3> QED
      BY <2>2, <3>1, DivideTwice
  <2>5. len \div p \in Nat
    BY <2>2, SMT
  <2>6. \A n \in Nat : n = Base * (n \div Base) + (n % Base)
    BY <1>1, SMT
  <2> QED
    BY <2>3, <2>4, <2>5, <2>6
<1>5. G = [i \in 0..HeaderLength |-> IF i = 0 THEN 0 ELSE Base * G[i - 1] + h[i]]
  <2>1. ASSUME NEW i \in 0..HeaderLength
        PROVE  G[i] = IF i = 0 THEN 0 ELSE Base * G[i - 1] + h[i]
    <3> HIDE DEF G, h
    <3>1. i = 0 \/ i \in 1..HeaderLength
      BY <1>1
    <3> QED
      BY <1>3, <1>4, <3>1
  <2>2. G = [i \in 0..HeaderLength |-> G[i]]
    OBVIOUS
  <2> HIDE DEF G, h
  <2> QED
    BY <2>1, <2>2
<1>6. f = [i \in 0..HeaderLength |-> IF i = 0 THEN 0 ELSE Base * f[i - 1] + h[i]]
  <2> HIDE DEF G, h
  <2> QED
    BY <1>5
<1>7. F!LengthOf(h) = f[HeaderLength]
  <2>1. Len(h) = HeaderLength
    BY HeaderIsSequence
  <2> HIDE DEF h
  <2> QED
   BY <2>1 DEF F!LengthOf
<1> HIDE DEF f, G, h
<1>8. \A i \in 0..HeaderLength : f[i] = G[i]
  <2> DEFINE S == {i \in 0..HeaderLength : f[i] # G[i]}
  <2>1. SUFFICES ASSUME S # {} PROVE FALSE
    OBVIOUS
  <2>2. PICK n \in S : \A m \in S : n <= m
    <3>1. S \subseteq Nat
      BY <1>1
    <3> HIDE DEF S
    <3> QED
      BY <2>1, <3>1, LeastNumber
  <2>3. f[0] = 0 /\ n # 0
    BY <1>1, <1>3, <1>6, <2>2
  <2>4. n \in 1..HeaderLength /\ n - 1 \in 0..HeaderLength /\ ~(n <= n - 1)
    BY <1>1, <2>2, <2>3
  <2>5. f[n - 1] = G[n - 1]
    BY <2>2, <2>4
  <2>6. f[n] = Base * f[n - 1] + h[n]
    <3>1. n \in 0..HeaderLength /\ n # 0
      BY <2>2, <2>3
    <3> QED
      BY <1>6, <3>1
  <2> QED
    BY <1>4, <2>2, <2>4, <2>5, <2>6
<1>9. G[HeaderLength] = len
  <2>1. HeaderLength - HeaderLength = 0 /\ HeaderLength \in 0..HeaderLength
    BY <1>1
  <2>2. G[HeaderLength] = len \div 1
    BY <1>1, <2>1 DEF G
  <2> QED
    BY <2>2, SMT
<1> QED
  <2>1. HeaderLength \in 0..HeaderLength
    BY <1>1
  <2> QED
    BY <1>7, <1>8, <1>9, <2>1 DEF h

\* The stream is a header of its length and the payload.
LEMMA StreamIsPayload ==
  ASSUME F!FramingAssumption, Fits
  PROVE  /\ F!Total \in Nat /\ F!Total >= HeaderLength /\ HeaderLength \in Nat \ {0}
         /\ payload # <<>> => F!Total > HeaderLength
         /\ F!LengthOf(F!Header(Len(payload))) = Len(payload)
         /\ SubSeq(F!Stream, HeaderLength + 1, F!Total) = payload
<1>1. /\ HeaderLength \in Nat \ {0}
      /\ Len(payload) \in Nat
      /\ payload # <<>> => Len(payload) > 0
  BY DEF F!FramingAssumption, Fits
<1>2. F!LengthOf(F!Header(Len(payload))) = Len(payload)
  BY <1>1, HeaderIsLength DEF Fits
<1>3. SubSeq(F!Stream, HeaderLength + 1, F!Total) = payload
  <2> DEFINE header == F!Header(Len(payload))
             S == {payload[i] : i \in DOMAIN payload} \cup {header[i] : i \in 1..HeaderLength}
  <2>1. header \in Seq(S) /\ Len(header) = HeaderLength
    <3>1. header \in Seq({header[i] : i \in 1..HeaderLength}) /\ Len(header) = HeaderLength
      BY HeaderIsSequence
    <3>2. {header[i] : i \in 1..HeaderLength} \subseteq S
      OBVIOUS
    <3> HIDE DEF header
    <3> QED
      BY <3>1, <3>2, SeqMonotonic
  <2>2. payload \in Seq(S)
    <3> {payload[i] : i \in DOMAIN payload} \subseteq S
      OBVIOUS
    <3> QED
      BY SeqMonotonic DEF Fits
  <2> HIDE DEF header, S
  <2> DEFINE stream == header \o payload
  <2>3. /\ Len(stream) = F!Total
        /\ \A i \in 1..Len(payload) : stream[HeaderLength + i] = payload[i]
    <3>1. /\ Len(stream) = Len(header) + Len(payload)
          /\ \A i \in 1..Len(header) + Len(payload) :
               stream[i] = IF i <= Len(header) THEN header[i] ELSE payload[i - Len(header)]
      BY <2>1, <2>2, ConcatProperties
    <3> HIDE DEF stream
    <3>2. ASSUME NEW i \in 1..Len(payload) PROVE stream[HeaderLength + i] = payload[i]
      <4>1. /\ HeaderLength + i \in 1..Len(header) + Len(payload)
            /\ ~(HeaderLength + i <= Len(header))
            /\ HeaderLength + i - Len(header) = i
        BY <1>1, <2>1
      <4> DEFINE k == HeaderLength + i
      <4> HIDE DEF k
      <4>2. stream[k] = IF k <= Len(header) THEN header[k] ELSE payload[k - Len(header)]
        BY <3>1, <4>1 DEF k
      <4>3. stream[k] = payload[k - Len(header)]
        BY <4>1, <4>2 DEF k
      <4>4. k - Len(header) = i
        BY <1>1, <2>1 DEF k
      <4>5. stream[k] = payload[i]
        BY <4>3, <4>4
      <4> QED
        BY <4>5 DEF k
    <3> QED
      BY <2>1, <3>1, <3>2 DEF F!Total
  <2>4. SubSeq(stream, HeaderLength + 1, F!Total) = payload
    <3> DEFINE rest == SubSeq(stream, HeaderLength + 1, F!Total)
    <3>1. \A i \in (HeaderLength + 1)..F!Total : stream[i] \in S
      <4> TAKE i \in (HeaderLength + 1)..F!Total
      <4>1. PICK k \in 1..Len(payload) : i = HeaderLength + k
        <5>1. i - HeaderLength \in 1..Len(payload) /\ i = HeaderLength + (i - HeaderLength)
          BY <1>1 DEF F!Total
        <5> QED
          BY <5>1
      <4> QED
        BY <2>2, <2>3, <4>1, ElementOfSeq
    <3> HIDE DEF stream
    <3>2. /\ rest \in Seq(S)
          /\ Len(rest) = Len(payload)
          /\ \A i \in 1..Len(payload) : rest[i] = stream[HeaderLength + i]
      <4>1. HeaderLength + 1 \in Int /\ F!Total \in Int
        BY <1>1 DEF F!Total
      <4>2. /\ rest \in Seq(S)
            /\ Len(rest) = IF HeaderLength + 1 <= F!Total THEN F!Total - (HeaderLength + 1) + 1 ELSE 0
            /\ \A i \in 1..(F!Total - (HeaderLength + 1) + 1) :
                 rest[i] = stream[(HeaderLength + 1) + i - 1]
        BY <3>1, <4>1, SubSeqProperties
      <4>3. F!Total - (HeaderLength + 1) + 1 = Len(payload)
        BY <1>1 DEF F!Total
      <4>4. Len(rest) = Len(payload)
        BY <1>1, <4>2 DEF F!Total
      <4>5. \A i \in 1..Len(payload) : (HeaderLength + 1) + i - 1 = HeaderLength + i
        BY <1>1
      <4> QED
        BY <4>2, <4>3, <4>4, <4>5
    <3> HIDE DEF rest
    <3>3. \A i \in 1..Len(payload) : rest[i] = payload[i]
      BY <2>3, <3>2
    <3>4. rest = payload
      BY <2>2, <3>2, <3>3, SeqEqual
    <3> QED
      BY <3>4 DEF rest
  <2> QED
    BY <2>4 DEF F!Stream, header
<1> QED
  BY <1>1, <1>2, <1>3 DEF F!Total

\* A read comes to the end of the payload, or goes on.
LEMMA ReadEnds ==
  ASSUME F!FramingAssumption, IInv, NEW n \in Nat, F!ReadSome(n)
  PROVE  /\ got' = got + n /\ got' \in Nat /\ got' <= sent
         /\ \/ UNCHANGED <<reader, received>>
            \/ got' = F!Total /\ reader' = "whole" /\ received' = payload
<1> USE DEF IInv
<1>1. /\ F!Total \in Nat /\ F!Total >= HeaderLength /\ HeaderLength \in Nat \ {0}
      /\ F!LengthOf(F!Header(Len(payload))) = Len(payload)
      /\ SubSeq(F!Stream, HeaderLength + 1, F!Total) = payload
  BY StreamIsPayload
<1>2. got' = got + n /\ n \in 1..(sent - got)
  BY DEF F!ReadSome
<1>3. got' \in Nat /\ got' <= sent
  BY <1>2 DEF InOrder
<1>4. got' = F!Wanted(got') => got' = F!Total
  BY <1>1, <1>3 DEF F!Wanted, F!Total
<1> QED
  BY <1>1, <1>2, <1>3, <1>4 DEF F!ReadSome

\* Nothing is sent yet.
LEMMA InitInOrder ==
  ASSUME F!FramingAssumption, F!Init, Fits
  PROVE  IInv
<1>1. F!Total \in Nat /\ F!Total >= HeaderLength /\ HeaderLength \in Nat \ {0}
  BY StreamIsPayload
<1> QED
  BY <1>1 DEF IInv, F!Init, InOrder

\* The bytes come in order.
LEMMA InOrderKept ==
  ASSUME F!FramingAssumption, IInv, [F!Next]_<<payload, F!fVars>>
  PROVE  IInv'
<1> USE DEF IInv
<1>1. /\ F!Total \in Nat /\ F!Total >= HeaderLength /\ HeaderLength \in Nat \ {0}
      /\ payload # <<>> => F!Total > HeaderLength
  BY StreamIsPayload
<1>2. payload' = payload
  BY DEF F!Next, F!Send, F!Read, F!SendHeader, F!SendSome, F!Stalls, F!Breaks, F!ReadSome, F!ReadNothing, F!fVars
<1>3. Fits' /\ F!Total' = F!Total
  BY <1>2 DEF Fits, F!Total
<1>4. ASSUME NEW n, F!SendHeader(n) PROVE InOrder'
  BY <1>1, <1>3, <1>4 DEF F!SendHeader, InOrder
<1>5. ASSUME NEW n, F!SendSome(n) PROVE InOrder'
  <2>1. /\ sent' = sent + n /\ n \in 1..(F!Total - sent) /\ sender = "body"
        /\ sender' = IF sent' = F!Total THEN "sent" ELSE "body"
        /\ UNCHANGED <<got, reader>>
    BY <1>5 DEF F!SendSome
  <2>2. sent' \in Nat /\ sent <= sent' /\ sent' <= F!Total
    BY <1>1, <2>1 DEF InOrder
  <2> QED
    BY <1>1, <1>3, <2>1, <2>2 DEF InOrder
<1>6. CASE F!Stalls \/ F!Breaks
  BY <1>1, <1>3, <1>6 DEF F!Stalls, F!Breaks, InOrder
<1>7. ASSUME NEW n \in 1..(sent - got), F!ReadSome(n) PROVE InOrder'
  <2>1. n \in Nat
    OBVIOUS
  <2>2. /\ got' \in Nat /\ got' <= sent
        /\ reader' = reader \/ got' = F!Total
    BY <1>7, <2>1, ReadEnds
  <2>3. UNCHANGED <<sender, sent>> /\ reader = "reading"
    BY <1>7 DEF F!ReadSome
  <2>4. got' = F!Total => sender \in {"sent", "broken", "stalled"}
    BY <1>1, <2>2 DEF InOrder
  <2> QED
    BY <1>1, <1>3, <2>2, <2>3, <2>4 DEF InOrder
<1>8. CASE F!ReadNothing
  BY <1>1, <1>3, <1>8 DEF F!ReadNothing, InOrder
<1>9. CASE UNCHANGED <<payload, F!fVars>>
  BY <1>3, <1>9 DEF InOrder, F!fVars
<1> QED
  BY <1>3, <1>4, <1>5, <1>6, <1>7, <1>8, <1>9 DEF F!Next, F!Send, F!Read

\* A step of the connection is one of the channel, or none.
LEMMA StepOfChannel ==
  ASSUME F!FramingAssumption, IInv, [F!Next]_<<payload, F!fVars>>
  PROVE  [F!C!Next]_F!C!vars
<1> USE DEF IInv
<1>1. ASSUME NEW n, F!SendHeader(n) \/ F!SendSome(n) PROVE [F!C!Next]_F!C!vars
  BY <1>1 DEF F!SendHeader, F!SendSome, InOrder, F!C!Next, F!C!Break, F!C!vars
<1>2. CASE F!Stalls \/ F!Breaks
  BY <1>2 DEF F!Stalls, F!Breaks, F!C!Next, F!C!Break, F!C!vars
<1>3. ASSUME NEW n \in 1..(sent - got), F!ReadSome(n) PROVE [F!C!Next]_F!C!vars
  <2>1. n \in Nat
    OBVIOUS
  <2>2. \/ UNCHANGED <<reader, received>>
        \/ reader' = "whole" /\ received' = payload
    BY <1>3, <2>1, ReadEnds
  <2>3. UNCHANGED <<payload, sender>> /\ reader = "reading"
    BY <1>3 DEF F!ReadSome
  <2> QED
    BY <2>2, <2>3 DEF F!C!Next, F!C!Deliver, F!C!vars
<1>4. CASE F!ReadNothing
  BY <1>4 DEF F!ReadNothing, F!C!Next, F!C!Lose
<1>5. CASE UNCHANGED <<payload, F!fVars>>
  BY <1>5 DEF F!C!vars, F!fVars
<1> QED
  BY <1>1, <1>2, <1>3, <1>4, <1>5 DEF F!Next, F!Send, F!Read

-----------------------------------------------------------------------------
\* Whatever pieces a payload is sent and read in, and wherever the connection
\* breaks, the reader gets the payload, once, or nothing, and nothing only if
\* the connection broke.
THEOREM ConnectionRefinement ==
  ASSUME F!FramingAssumption
  PROVE  Connection => F!ChannelImplemented
<1>1. F!Init /\ Fits => IInv
  BY InitInOrder
<1>2. F!Init => F!C!Init
  BY DEF F!Init, F!C!Init
<1>3. IInv /\ [F!Next]_<<payload, F!fVars>> => IInv'
  BY InOrderKept
<1>4. IInv /\ [F!Next]_<<payload, F!fVars>> => [F!C!Next]_F!C!vars
  BY StepOfChannel
<1> QED
  BY <1>1, <1>2, <1>3, <1>4, PTL DEF Connection, F!ChannelImplemented, F!C!Spec

-----------------------------------------------------------------------------
(***************************************************************************)
(* The executable.  Encode's text is taken apart by the decoder's loop,    *)
(* four characters to three bytes: where in a group it is, what it has     *)
(* emitted and which bits wait in the buffer is its invariant (Decoding).  *)
(***************************************************************************)

Byte == 0..255
Word(a, b, c) == 65536 * a + 256 * b + c

\* What a group's four characters say of its three bytes.
LEMMA SextetsOfBytes ==
  ASSUME NEW a \in Byte, NEW b \in Byte, NEW c \in Byte
  PROVE  LET n == Word(a, b, c)
         IN  /\ (n \div 64^3) % 64 = a \div 4
             /\ (n \div 64^2) % 64 = 16 * (a % 4) + b \div 16
             /\ (n \div 64^1) % 64 = 4 * (b % 16) + c \div 64
             /\ (n \div 64^0) % 64 = c % 64
<1> DEFINE n == 65536 * a + 256 * b + c
<1>1. /\ a = 4 * (a \div 4) + (a % 4) /\ a \div 4 \in 0..63 /\ a % 4 \in 0..3
      /\ b = 16 * (b \div 16) + (b % 16) /\ b \div 16 \in 0..15 /\ b % 16 \in 0..15
      /\ c = 64 * (c \div 64) + (c % 64) /\ c \div 64 \in 0..3 /\ c % 64 \in 0..63
  BY SMT DEF Byte
<1>2. (n \div 262144) % 64 = a \div 4
  <2>1. n \div 262144 = a \div 4
    BY <1>1, SMT DEF Byte
  <2> QED
    BY <1>1, <2>1, SMT DEF Byte
<1>3. (n \div 4096) % 64 = 16 * (a % 4) + (b \div 16)
  <2>1. n \div 4096 = 64 * (a \div 4) + (16 * (a % 4) + (b \div 16))
    BY <1>1, SMT DEF Byte
  <2> QED
    BY <1>1, <2>1, SMT DEF Byte
<1>4. (n \div 64) % 64 = 4 * (b % 16) + (c \div 64)
  <2>1. n \div 64 = 64 * (16 * a + (b \div 16)) + (4 * (b % 16) + (c \div 64))
    BY <1>1, SMT DEF Byte
  <2> QED
    BY <1>1, <2>1, SMT DEF Byte
<1>5. (n \div 1) % 64 = c % 64
  <2>1. n = 64 * (1024 * a + 4 * b + (c \div 64)) + (c % 64)
    BY <1>1, SMT DEF Byte
  <2> QED
    BY <1>1, <2>1, SMT DEF Byte
<1>6. 64^3 = 262144 /\ 64^2 = 4096 /\ 64^1 = 64 /\ 64^0 = 1
  BY SMT
<1> QED
  BY <1>2, <1>3, <1>4, <1>5, <1>6, SMT DEF Word, Byte

\* The bits of two neighbouring characters are those of the byte they share.
LEMMA Rejoined ==
  ASSUME NEW a \in Byte, NEW b \in Byte, NEW c \in Byte
  PROVE  /\ LET v == 16 * (a % 4) + b \div 16
            IN  a \div 4 \in 0..63 /\ (64 * (a \div 4) + v) \div 16 = a /\ v % 16 = b \div 16
         /\ LET v == 4 * (b % 16) + c \div 64
            IN  b \div 16 \in 0..15 /\ (64 * (b \div 16) + v) \div 4 = b /\ v % 4 = c \div 64
         /\ c \div 64 \in 0..3 /\ 64 * (c \div 64) + (c % 64) = c
         /\ 16 * (a % 4) + b \div 16 \in 0..63
         /\ 4 * (b % 16) + c \div 64 \in 0..63
         /\ c % 64 \in 0..63
<1>1. /\ a = 4 * (a \div 4) + (a % 4) /\ a \div 4 \in 0..63 /\ a % 4 \in 0..3
      /\ b = 16 * (b \div 16) + (b % 16) /\ b \div 16 \in 0..15 /\ b % 16 \in 0..15
      /\ c = 64 * (c \div 64) + (c % 64) /\ c \div 64 \in 0..3 /\ c % 64 \in 0..63
  BY SMT DEF Byte
<1>2. LET v == 16 * (a % 4) + b \div 16
      IN  (64 * (a \div 4) + v) \div 16 = a /\ v % 16 = b \div 16
  BY <1>1, SMT
<1>3. LET v == 4 * (b % 16) + c \div 64
      IN  (64 * (b \div 16) + v) \div 4 = b /\ v % 4 = c \div 64
  BY <1>1, SMT
<1>4. 16 * (a % 4) + b \div 16 \in 0..63 /\ 4 * (b % 16) + c \div 64 \in 0..63
  BY <1>1, SMT
<1> QED
  BY <1>1, <1>2, <1>3, <1>4

Octet(n, d) == (n \div d) % 256

\* The buffer after a sextet: the bits it held that no byte has yet, and
\* behind them the new ones.
Shifted(new, buffer, v) ==
  /\ new \in Nat
  /\ new % 64 = v
  /\ \A w \in 0..63 : buffer % 64 = w =>
       Octet(new, 16) = (64 * w + v) \div 16 /\ new % 16 = v % 16
  /\ \A w \in 0..15 : buffer % 16 = w =>
       Octet(new, 4) = (64 * w + v) \div 4 /\ new % 4 = v % 4
  /\ \A w \in 0..3 : buffer % 4 = w => Octet(new, 1) = 64 * w + v

\* What is shifted out of the buffer was not needed.
LEMMA ShiftedIn ==
  ASSUME NEW buffer \in Nat, NEW v \in 0..63
  PROVE  Shifted((64 * buffer + v) % B!BufModulus, buffer, v)
<1> DEFINE x == 64 * buffer + v
           new == x % 1048576
<1>1. x = 1048576 * (x \div 1048576) + new /\ new \in Nat /\ new < 1048576 /\ x \div 1048576 \in Nat
  BY SMT
<1>2. new \in Nat /\ new % 64 = v
  <2>1. new % 64 = x % 64
    BY <1>1, SMT
  <2>2. x % 64 = v
    BY SMT
  <2> QED
    BY <1>1, <2>1, <2>2
<1>3. ASSUME NEW w \in 0..63, buffer % 64 = w
      PROVE  (new \div 16) % 256 = (64 * w + v) \div 16 /\ new % 16 = v % 16
  <2>1. (new \div 16) % 256 = (x \div 16) % 256 /\ new % 16 = x % 16
    BY <1>1, SMT
  <2>2. (x \div 16) % 256 = (64 * w + v) \div 16 /\ x % 16 = v % 16
    BY <1>3, SMT
  <2> QED
    BY <2>1, <2>2
<1>4. ASSUME NEW w \in 0..15, buffer % 16 = w
      PROVE  (new \div 4) % 256 = (64 * w + v) \div 4 /\ new % 4 = v % 4
  <2>1. (new \div 4) % 256 = (x \div 4) % 256 /\ new % 4 = x % 4
    BY <1>1, SMT
  <2>2. (x \div 4) % 256 = (64 * w + v) \div 4 /\ x % 4 = v % 4
    BY <1>4, SMT
  <2> QED
    BY <2>1, <2>2
<1>5. ASSUME NEW w \in 0..3, buffer % 4 = w
      PROVE  (new \div 1) % 256 = 64 * w + v
  <2>1. (new \div 1) % 256 = x % 256
    BY <1>1, SMT
  <2>2. x % 256 = 64 * w + v
    BY <1>5, SMT
  <2> QED
    BY <2>1, <2>2
<1>6. B!BufModulus = 1048576
  BY SMT DEF B!BufModulus
<1> QED
  BY <1>2, <1>3, <1>4, <1>5, <1>6, SMT DEF Shifted, Octet

File == Seq(Byte)

\* How many characters of a file's text stand for something.
Sextets(d) == (4 * Len(d) + 2) \div 3

\* The characters of a group: those of the last are '=' from the first on that
\* has no bits of the file.
LEMMA CharactersOfGroup ==
  ASSUME NEW d \in File, NEW g \in Nat, 3 * g < Len(d)
  PROVE  LET a == B!ByteAt(d, 3 * g + 1)
             b == B!ByteAt(d, 3 * g + 2)
             c == B!ByteAt(d, 3 * g + 3)
             t == B!Encode(d)
         IN  /\ a \in Byte /\ b \in Byte /\ c \in Byte
             /\ 4 * g + 4 <= Len(t)
             /\ t[4 * g + 1] = a \div 4
             /\ t[4 * g + 2] = 16 * (a % 4) + b \div 16
             /\ t[4 * g + 3] = IF 3 * g + 2 > Len(d) THEN B!Pad ELSE 4 * (b % 16) + c \div 64
             /\ t[4 * g + 4] = IF 3 * g + 3 > Len(d) THEN B!Pad ELSE c % 64
<1> DEFINE a == B!ByteAt(d, 3 * g + 1)
           b == B!ByteAt(d, 3 * g + 2)
           c == B!ByteAt(d, 3 * g + 3)
           t == B!Encode(d)
           n == Word(a, b, c)
<1>1. Len(d) \in Nat /\ \A i \in 1..Len(d) : d[i] \in Byte
  BY ElementOfSeq DEF File
<1>2. a \in Byte /\ b \in Byte /\ c \in Byte
  BY <1>1, SMT DEF B!ByteAt, Byte
<1>3. /\ (n \div 64^3) % 64 = a \div 4
      /\ (n \div 64^2) % 64 = 16 * (a % 4) + b \div 16
      /\ (n \div 64^1) % 64 = 4 * (b % 16) + c \div 64
      /\ (n \div 64^0) % 64 = c % 64
  <2> HIDE DEF a, b, c
  <2> QED
    <3>1. \A x, y, z \in Byte :
            LET w == Word(x, y, z)
            IN  /\ (w \div 64^3) % 64 = x \div 4
                /\ (w \div 64^2) % 64 = 16 * (x % 4) + y \div 16
                /\ (w \div 64^1) % 64 = 4 * (y % 16) + z \div 64
                /\ (w \div 64^0) % 64 = z % 64
      BY SextetsOfBytes
    <3> QED
      BY <1>2, <3>1
<1>5. 4 * ((Len(d) + 2) \div 3) \in Nat /\ 4 * g + 4 <= 4 * ((Len(d) + 2) \div 3)
  BY <1>1, SMT
<1>6. Len(t) = 4 * ((Len(d) + 2) \div 3)
  BY <1>5, SMT DEF B!Encode
<1>7. ASSUME NEW k \in 0..3, NEW m \in Int, m = 4 * g + k + 1
      PROVE  t[m] = IF 3 * g + k > Len(d) THEN B!Pad ELSE (n \div 64^(3 - k)) % 64
  <2>1. m \in 1..(4 * ((Len(d) + 2) \div 3))
    BY <1>5, <1>7, SMT
  <2>2. (m - 1) \div 4 = g /\ (m - 1) % 4 = k
    BY <1>7, SMT
  <2>3. t[m] = LET first == 3 * ((m - 1) \div 4) + 1
                   j     == (m - 1) % 4
                   w     == Word(B!ByteAt(d, first), B!ByteAt(d, first + 1), B!ByteAt(d, first + 2))
               IN  IF first + j - 1 > Len(d) THEN B!Pad ELSE (w \div 64^(3 - j)) % 64
    BY <2>1, SMT DEF B!Encode, Word
  <2>4. t[m] = LET first == 3 * g + 1
                   w     == Word(B!ByteAt(d, first), B!ByteAt(d, first + 1), B!ByteAt(d, first + 2))
               IN  IF first + k - 1 > Len(d) THEN B!Pad ELSE (w \div 64^(3 - k)) % 64
    <3> HIDE DEF t
    <3> QED
      BY <2>2, <2>3, Zenon
  <2>5. 3 * g + 1 + 1 = 3 * g + 2 /\ 3 * g + 1 + 2 = 3 * g + 3 /\ 3 * g + 1 + k - 1 = 3 * g + k
    BY SMT
  <2> HIDE DEF t
  <2> QED
    BY <2>4, <2>5, Zenon
<1> HIDE DEF t, n
<1>8. t[4 * g + 1] = a \div 4
  <2>1. t[4 * g + 1] = IF 3 * g + 0 > Len(d) THEN B!Pad ELSE (n \div 64^(3 - 0)) % 64
    BY <1>7, SMT
  <2>2. ~(3 * g + 0 > Len(d)) /\ 3 - 0 = 3
    BY <1>1, SMT
  <2> QED
    BY <1>3, <2>1, <2>2, Zenon
<1>9. t[4 * g + 2] = 16 * (a % 4) + b \div 16
  <2>1. t[4 * g + 2] = IF 3 * g + 1 > Len(d) THEN B!Pad ELSE (n \div 64^(3 - 1)) % 64
    BY <1>7, SMT
  <2>2. ~(3 * g + 1 > Len(d)) /\ 3 - 1 = 2
    BY <1>1, SMT
  <2> QED
    BY <1>3, <2>1, <2>2, Zenon
<1>10. t[4 * g + 3] = IF 3 * g + 2 > Len(d) THEN B!Pad ELSE 4 * (b % 16) + c \div 64
  <2>1. t[4 * g + 3] = IF 3 * g + 2 > Len(d) THEN B!Pad ELSE (n \div 64^(3 - 2)) % 64
    BY <1>7, SMT
  <2>2. 3 - 2 = 1
    BY SMT
  <2> QED
    BY <1>3, <2>1, <2>2, Zenon
<1>11. t[4 * g + 4] = IF 3 * g + 3 > Len(d) THEN B!Pad ELSE c % 64
  <2>1. t[4 * g + 4] = IF 3 * g + 3 > Len(d) THEN B!Pad ELSE (n \div 64^(3 - 3)) % 64
    BY <1>7, SMT
  <2>2. 3 - 3 = 0
    BY SMT
  <2> QED
    BY <1>3, <2>1, <2>2, Zenon
<1> HIDE DEF a, b, c
<1> QED
  BY <1>2, <1>5, <1>6, <1>8, <1>9, <1>10, <1>11, Zenon DEF t, a, b, c

\* Every group is full.
LEMMA TextLength ==
  ASSUME NEW d \in File
  PROVE  Len(d) \in Nat /\ Len(B!Encode(d)) = 4 * ((Len(d) + 2) \div 3) /\ Len(B!Encode(d)) \in Nat
BY SMT DEF File, B!Encode

\* How many '=' there are.
LEMMA PadsOfText ==
  ASSUME NEW n \in Nat
  PROVE  LET p == 4 * ((n + 2) \div 3) - (4 * n + 2) \div 3
         IN  p \in 0..2 /\ (p > n <=> n = 1) /\ p = (IF n % 3 = 0 THEN 0 ELSE 3 - (n % 3))
<1>1. PICK k \in Nat : n = 3 * k \/ n = 3 * k + 1 \/ n = 3 * k + 2
  <2>1. n \div 3 \in Nat
    BY SMT
  <2>2. n = 3 * (n \div 3) \/ n = 3 * (n \div 3) + 1 \/ n = 3 * (n \div 3) + 2
    BY SMT
  <2> QED
    BY <2>1, <2>2
<1>2. CASE n = 3 * k
  BY <1>2, SMT
<1>3. CASE n = 3 * k + 1
  BY <1>3, SMT
<1>4. CASE n = 3 * k + 2
  BY <1>4, SMT
<1> QED
  BY <1>1, <1>2, <1>3, <1>4

\* The characters that stand for something come first.
LEMMA CharactersFirst ==
  ASSUME NEW d \in File, NEW m \in 1..Len(B!Encode(d))
  PROVE  /\ Len(B!Encode(d)) = 4 * ((Len(d) + 2) \div 3)
         /\ m > Sextets(d) => B!Encode(d)[m] = B!Pad
         /\ m <= Sextets(d) => B!Encode(d)[m] \in 0..63
<1> DEFINE t == B!Encode(d)
           g == (m - 1) \div 4
           a == B!ByteAt(d, 3 * g + 1)
           b == B!ByteAt(d, 3 * g + 2)
           c == B!ByteAt(d, 3 * g + 3)
<1>1. Len(d) \in Nat
  BY DEF File
<1>2. Len(t) = 4 * ((Len(d) + 2) \div 3)
  BY <1>1, SMT DEF B!Encode
<1>3. g \in Nat /\ 3 * g < Len(d) /\ m \in Int
  BY <1>1, <1>2, SMT
<1>4. /\ a \in Byte /\ b \in Byte /\ c \in Byte
      /\ t[4 * g + 1] = a \div 4
      /\ t[4 * g + 2] = 16 * (a % 4) + b \div 16
      /\ t[4 * g + 3] = IF 3 * g + 2 > Len(d) THEN B!Pad ELSE 4 * (b % 16) + c \div 64
      /\ t[4 * g + 4] = IF 3 * g + 3 > Len(d) THEN B!Pad ELSE c % 64
  <2> HIDE DEF g
  <2> QED
    BY <1>3, CharactersOfGroup
<1>5. m \in {4 * g + 1, 4 * g + 2, 4 * g + 3, 4 * g + 4}
  BY <1>3, SMT
<1> HIDE DEF g, a, b, c, t
<1>6. /\ a \div 4 \in 0..63
      /\ 16 * (a % 4) + b \div 16 \in 0..63
      /\ 4 * (b % 16) + c \div 64 \in 0..63
      /\ c % 64 \in 0..63
  BY <1>4, Rejoined
<1>7. CASE m = 4 * g + 1
  <2>1. m <= Sextets(d) /\ ~(m > Sextets(d))
    BY <1>1, <1>3, <1>7, SMT DEF Sextets
  <2> QED
    BY <1>2, <1>4, <1>6, <1>7, <2>1 DEF t
<1>8. CASE m = 4 * g + 2
  <2>1. m > Sextets(d) <=> 3 * g + 1 > Len(d)
    BY <1>1, <1>3, <1>8, SMT DEF Sextets
  <2>2. m <= Sextets(d) <=> ~(m > Sextets(d))
    BY <1>1, <1>3, SMT DEF Sextets
  <2>3. ~(3 * g + 1 > Len(d))
    BY <1>1, <1>3, SMT
  <2> QED
    BY <1>2, <1>4, <1>6, <1>8, <2>1, <2>2, <2>3 DEF t
<1>9. CASE m = 4 * g + 3
  <2>1. m > Sextets(d) <=> 3 * g + 2 > Len(d)
    BY <1>1, <1>3, <1>9, SMT DEF Sextets
  <2>2. m <= Sextets(d) <=> ~(m > Sextets(d))
    BY <1>1, <1>3, SMT DEF Sextets
  <2>3. ~(3 * g + 1 > Len(d))
    BY <1>1, <1>3, SMT
  <2> QED
    BY <1>2, <1>4, <1>6, <1>9, <2>1, <2>2, <2>3 DEF t
<1>10. CASE m = 4 * g + 4
  <2>1. m > Sextets(d) <=> 3 * g + 3 > Len(d)
    BY <1>1, <1>3, <1>10, SMT DEF Sextets
  <2>2. m <= Sextets(d) <=> ~(m > Sextets(d))
    BY <1>1, <1>3, SMT DEF Sextets
  <2>3. ~(3 * g + 1 > Len(d))
    BY <1>1, <1>3, SMT
  <2> QED
    BY <1>2, <1>4, <1>6, <1>10, <2>1, <2>2, <2>3 DEF t
<1> QED
  BY <1>5, <1>7, <1>8, <1>9, <1>10

-----------------------------------------------------------------------------
\* The characters read that are not '='.
Taken == pos - 1 - pad

\* The decoder has emitted the file's first n bytes.
Emitted(n) == n <= Len(data) /\ Len(out) = n /\ \A i \in 1..n : out[i] = data[i]

\* Between the groups, and behind the first, second and third character of
\* one: what is out; and the bits read that are not emitted are the buffer's
\* last.
AtGroup(g)  == Taken = 4 * g /\ bits = 0 /\ Emitted(3 * g)
AfterOne(g) ==
  /\ Taken = 4 * g + 1
  /\ bits = 6
  /\ Emitted(3 * g)
  /\ buf % 64 = B!ByteAt(data, 3 * g + 1) \div 4
AfterTwo(g) ==
  /\ Taken = 4 * g + 2
  /\ bits = 4
  /\ Emitted(3 * g + 1)
  /\ buf % 16 = B!ByteAt(data, 3 * g + 2) \div 16
AfterThree(g) ==
  /\ Taken = 4 * g + 3
  /\ bits = 2
  /\ Emitted(3 * g + 2)
  /\ buf % 4 = B!ByteAt(data, 3 * g + 3) \div 64
InGroup == \E g \in Nat : AtGroup(g) \/ AfterOne(g) \/ AfterTwo(g) \/ AfterThree(g)

Decoding ==
  /\ data \in File
  /\ text = B!Encode(data)
  /\ pc \in {"decoding", "padding", "done", "thrown"}
  /\ pos \in Nat \ {0}
  /\ pos <= Len(text) + 1
  /\ pad \in Nat
  /\ buf \in Nat
  /\ out \in Seq(Byte)
  /\ pos - 1 <= Sextets(data) => pad = 0
  /\ pos - 1 >= Sextets(data) => Taken = Sextets(data)
  /\ pc # "decoding" => pos = Len(text) + 1
  /\ pc \in {"decoding", "padding"} => InGroup
  /\ pc = "done" => Len(data) # 1 /\ out = SubSeq(data, 1, Len(data) - pad)
  /\ pc = "thrown" => Len(data) = 1

\* Four characters: a byte needs two of them, and its bits are where they are
\* looked for.
LEMMA SextetKeepsGroup ==
  ASSUME Decoding, pc = "decoding", pos <= Len(text), text[pos] # B!Pad,
         B!Sextet(text[pos]), pos' = pos + 1, UNCHANGED <<data, text, pad>>
  PROVE  InGroup' /\ buf' \in Nat /\ out' \in Seq(Byte)
<1> DEFINE v == text[pos]
<1>1. pos \in 1..Len(text) /\ pos <= Sextets(data) /\ v \in 0..63
  <2>1. pos \in 1..Len(B!Encode(data)) /\ text = B!Encode(data)
    BY TextLength, SMT DEF Decoding
  <2>2. /\ pos > Sextets(data) => v = B!Pad
        /\ pos <= Sextets(data) => v \in 0..63
    BY <2>1, CharactersFirst DEF Decoding
  <2>3. pos > Sextets(data) \/ pos <= Sextets(data)
    BY TextLength, SMT DEF Decoding, Sextets
  <2> QED
    BY <2>1, <2>2, <2>3
<1>2. Len(data) \in Nat /\ Sextets(data) \in Nat /\ pad = 0 /\ pad' = 0 /\ Taken = pos - 1 /\ pos \in Nat
  BY <1>1, SMT DEF Decoding, File, Sextets, Taken
<1>3. PICK g \in Nat : AtGroup(g) \/ AfterOne(g) \/ AfterTwo(g) \/ AfterThree(g)
  BY DEF Decoding, InGroup
<1>4. 3 * g < Len(data)
  BY <1>1, <1>2, <1>3, SMT DEF AtGroup, AfterOne, AfterTwo, AfterThree, Sextets
<1> DEFINE a == B!ByteAt(data, 3 * g + 1)
           b == B!ByteAt(data, 3 * g + 2)
           c == B!ByteAt(data, 3 * g + 3)
           new == (64 * buf + v) % B!BufModulus
<1>5. /\ a \in Byte /\ b \in Byte /\ c \in Byte
      /\ text[4 * g + 1] = a \div 4
      /\ text[4 * g + 2] = 16 * (a % 4) + b \div 16
      /\ text[4 * g + 3] = IF 3 * g + 2 > Len(data) THEN B!Pad ELSE 4 * (b % 16) + c \div 64
      /\ text[4 * g + 4] = IF 3 * g + 3 > Len(data) THEN B!Pad ELSE c % 64
  BY <1>4, CharactersOfGroup DEF Decoding
<1>6. Shifted(new, buf, v)
  BY <1>1, ShiftedIn DEF Decoding
<1>7. buf' = new
  BY DEF B!Sextet
<1>8. /\ Taken' = Taken + 1
      /\ 3 * g + 1 <= Len(data) => a = data[3 * g + 1]
      /\ 3 * g + 2 <= Len(data) => b = data[3 * g + 2]
      /\ 3 * g + 3 <= Len(data) => c = data[3 * g + 3]
  BY <1>1, <1>2, SMT DEF Taken, B!ByteAt
<1>9. 2^4 = 16 /\ 2^2 = 4 /\ 2^0 = 1
  BY SMT
<1>10. ASSUME NEW n \in Nat, NEW byte \in Byte, Emitted(n), n + 1 <= Len(data),
              byte = data[n + 1], out' = Append(out, byte)
       PROVE  Emitted(n + 1)' /\ out' \in Seq(Byte)
  <2>1. out \in Seq(Byte) /\ Len(out) = n /\ data' = data
    BY <1>10 DEF Decoding, Emitted
  <2>2. out' \in Seq(Byte) /\ Len(out') = n + 1 /\ out'[n + 1] = byte
        /\ \A i \in 1..n : out'[i] = out[i]
    BY <1>10, <2>1
  <2>3. \A i \in 1..(n + 1) : i \in 1..n \/ i = n + 1
    BY SMT
  <2> QED
    BY <1>10, <2>1, <2>2, <2>3 DEF Emitted
<1>11. bits' = (IF bits + 6 >= 8 THEN bits - 2 ELSE bits + 6) /\ (bits + 6 < 8 => out' = out)
  BY <1>3, SMT DEF B!Sextet, AtGroup, AfterOne, AfterTwo, AfterThree
<1>12. ASSUME bits + 6 >= 8 PROVE out' = Append(out, (new \div 2^bits') % 256)
  BY <1>7, <1>12 DEF B!Sextet
<1> HIDE DEF v, a, b, c, new
<1>13. CASE AtGroup(g)
  <2>1. pos = 4 * g + 1 /\ v = a \div 4
    <3>1. pos = 4 * g + 1
      BY <1>2, <1>13, SMT DEF AtGroup
    <3>2. v = text[4 * g + 1] /\ v # B!Pad
      BY <3>1 DEF v
    <3>3. v = a \div 4
      BY <1>2, <1>5, <3>2
    <3> QED
      BY <3>1, <3>3
  <2>2. bits' = 6 /\ out' = out
    BY <1>11, <1>13, SMT DEF AtGroup
  <2>3. AfterOne(g)'
    BY <1>6, <1>7, <1>8, <1>13, <2>1, <2>2, SMT DEF Shifted, AtGroup, AfterOne, Emitted, a
  <2> QED
    BY <1>6, <1>7, <2>2, <2>3 DEF InGroup, Decoding, Shifted
<1>14. CASE AfterOne(g)
  <2>1. pos = 4 * g + 2 /\ v = 16 * (a % 4) + b \div 16
    <3>1. pos = 4 * g + 2
      BY <1>2, <1>14, SMT DEF AfterOne, Octet
    <3>2. v = text[4 * g + 2] /\ v # B!Pad
      BY <3>1 DEF v
    <3>3. v = 16 * (a % 4) + b \div 16
      BY <1>2, <1>5, <3>2
    <3> QED
      BY <3>1, <3>3
  <2>2. bits' = 4 /\ out' = Append(out, Octet(new, 16))
    BY <1>9, <1>11, <1>12, <1>14, SMT DEF AfterOne, Octet
  <2>3. a \div 4 \in 0..63 /\ (64 * (a \div 4) + v) \div 16 = a /\ v % 16 = b \div 16
    BY <1>5, <2>1, Rejoined
  <2>4. Octet(new, 16) = a /\ new % 16 = b \div 16
    BY <1>6, <1>14, <2>3 DEF Shifted, AfterOne, a
  <2>5. Emitted(3 * g + 1)' /\ out' \in Seq(Byte)
    BY <1>4, <1>5, <1>8, <1>10, <1>14, <2>2, <2>4 DEF AfterOne
  <2>6. AfterTwo(g)'
    BY <1>7, <1>8, <1>14, <2>2, <2>4, <2>5 DEF AfterOne, AfterTwo, b
  <2> QED
    BY <1>6, <1>7, <2>5, <2>6 DEF InGroup, Shifted
<1>15. CASE AfterTwo(g)
  <2>1. pos = 4 * g + 3 /\ 3 * g + 2 <= Len(data) /\ v = 4 * (b % 16) + c \div 64
    <3>1. pos = 4 * g + 3
      BY <1>2, <1>15, SMT DEF AfterTwo, Octet
    <3>2. v = text[4 * g + 3] /\ v # B!Pad
      BY <3>1 DEF v
    <3>3. 3 * g + 2 <= Len(data) /\ v = 4 * (b % 16) + c \div 64
      BY <1>2, <1>5, <3>2
    <3> QED
      BY <3>1, <3>3
  <2>2. bits' = 2 /\ out' = Append(out, Octet(new, 4))
    BY <1>9, <1>11, <1>12, <1>15, SMT DEF AfterTwo, Octet
  <2>3. b \div 16 \in 0..15 /\ (64 * (b \div 16) + v) \div 4 = b /\ v % 4 = c \div 64
    BY <1>5, <2>1, Rejoined
  <2>4. Octet(new, 4) = b /\ new % 4 = c \div 64
    BY <1>6, <1>15, <2>3 DEF Shifted, AfterTwo, b
  <2>5. Emitted(3 * g + 2)' /\ out' \in Seq(Byte)
    <3>1. 3 * g + 1 + 1 = 3 * g + 2 /\ 3 * g + 1 \in Nat
      OBVIOUS
    <3>2. Emitted(3 * g + 1) /\ b = data[3 * g + 1 + 1] /\ out' = Append(out, b)
      BY <1>8, <1>15, <2>1, <2>2, <2>4, <3>1 DEF AfterTwo
    <3>3. Emitted(3 * g + 1 + 1)' /\ out' \in Seq(Byte)
      BY <1>5, <1>10, <2>1, <3>1, <3>2
    <3> QED
      BY <3>1, <3>3
  <2>6. AfterThree(g)'
    BY <1>7, <1>8, <1>15, <2>2, <2>4, <2>5 DEF AfterTwo, AfterThree, c
  <2> QED
    BY <1>6, <1>7, <2>5, <2>6 DEF InGroup, Shifted
<1>16. CASE AfterThree(g)
  <2>1. pos = 4 * g + 4 /\ 3 * g + 3 <= Len(data) /\ v = c % 64
    <3>1. pos = 4 * g + 4
      BY <1>2, <1>16, SMT DEF AfterThree, Octet
    <3>2. v = text[4 * g + 4] /\ v # B!Pad
      BY <3>1 DEF v
    <3>3. 3 * g + 3 <= Len(data) /\ v = c % 64
      BY <1>2, <1>5, <3>2
    <3> QED
      BY <3>1, <3>3
  <2>2. bits' = 0 /\ out' = Append(out, Octet(new, 1))
    BY <1>9, <1>11, <1>12, <1>16, SMT DEF AfterThree, Octet
  <2>3. c \div 64 \in 0..3 /\ 64 * (c \div 64) + v = c
    BY <1>5, <2>1, Rejoined
  <2>4. Octet(new, 1) = c
    BY <1>6, <1>16, <2>3 DEF Shifted, AfterThree, c
  <2>5. Emitted(3 * g + 3)' /\ out' \in Seq(Byte)
    <3>1. 3 * g + 2 + 1 = 3 * g + 3 /\ 3 * g + 2 \in Nat
      OBVIOUS
    <3>2. Emitted(3 * g + 2) /\ c = data[3 * g + 2 + 1] /\ out' = Append(out, c)
      BY <1>8, <1>16, <2>1, <2>2, <2>4, <3>1 DEF AfterThree
    <3>3. Emitted(3 * g + 2 + 1)' /\ out' \in Seq(Byte)
      BY <1>5, <1>10, <2>1, <3>1, <3>2
    <3> QED
      BY <3>1, <3>3 DEF Emitted
  <2>6. AtGroup(g + 1)' /\ g + 1 \in Nat
    BY <1>8, <1>16, <2>2, <2>5 DEF AfterThree, AtGroup
  <2> QED
    BY <1>6, <1>7, <2>5, <2>6 DEF InGroup, Shifted
<1> QED
  BY <1>3, <1>13, <1>14, <1>15, <1>16

\* When the characters that stand for something are read, all bytes are out.
LEMMA AllIsEmitted ==
  ASSUME Decoding, InGroup, Taken = Sextets(data)
  PROVE  out = data
<1>1. Len(data) \in Nat
  BY TextLength DEF Decoding
<1>2. PICK g \in Nat : AtGroup(g) \/ AfterOne(g) \/ AfterTwo(g) \/ AfterThree(g)
  BY DEF InGroup
<1>3. Emitted(Len(data))
  <2>1. CASE AtGroup(g)
    <3>1. 3 * g = Len(data)
      BY <1>1, <2>1, SMT DEF AtGroup, Emitted, Sextets
    <3> QED
      BY <2>1, <3>1 DEF AtGroup
  <2>2. CASE AfterOne(g)
    BY <1>1, <2>2, SMT DEF AfterOne, Emitted, Sextets
  <2>3. CASE AfterTwo(g)
    <3>1. 3 * g + 1 = Len(data)
      BY <1>1, <2>3, SMT DEF AfterTwo, Emitted, Sextets
    <3> QED
      BY <2>3, <3>1 DEF AfterTwo
  <2>4. CASE AfterThree(g)
    <3>1. 3 * g + 2 = Len(data)
      BY <1>1, <2>4, SMT DEF AfterThree, Emitted, Sextets
    <3> QED
      BY <2>4, <3>1 DEF AfterThree
  <2> QED
    BY <1>2, <2>1, <2>2, <2>3, <2>4
<1>4. out \in Seq(Byte) /\ data \in Seq(Byte)
  BY DEF Decoding, File
<1> QED
  BY <1>3, <1>4, SeqEqual DEF Emitted

\* The decoder starts before the first group.
LEMMA InitDecoding ==
  ASSUME B!Base64Assumption, B!Init
  PROVE  Decoding
<1>1. data \in File
  <2>1. PICK n \in 0..MaxLength : data \in [1..n -> Bytes]
    BY DEF B!Init, B!Files
  <2>2. data \in [1..n -> Byte] /\ n \in Nat
    <3>1. Bytes \subseteq Byte /\ MaxLength \in Nat
      BY DEF B!Base64Assumption, Byte
    <3>2. n \in Nat
      BY <3>1
    <3>3. [1..n -> Bytes] \subseteq [1..n -> Byte]
      BY <3>1
    <3> QED
      BY <2>1, <3>2, <3>3
  <2> QED
    BY <2>2, SeqDef DEF File
<1>2. Len(text) \in Nat /\ Len(data) \in Nat /\ text = B!Encode(data)
  BY <1>1, TextLength DEF B!Init
<1>3. Sextets(data) \in Nat /\ Taken = 0
  BY <1>2, SMT DEF Sextets, B!Init, Taken
<1>4. AtGroup(0)
  BY <1>2, <1>3 DEF AtGroup, Emitted, B!Init
<1>5. InGroup
  BY <1>4 DEF InGroup
<1> QED
  BY <1>1, <1>2, <1>3, <1>5 DEF Decoding, B!Init

\* A step of the decoder keeps its invariant: a character goes on in the
\* group, a '=' comes behind all that stands for something, and the padding is
\* handled when the whole file is there.
LEMMA NextDecoding ==
  ASSUME Decoding, [B!Next]_B!vars
  PROVE  Decoding'
<1>1. /\ data \in File /\ Len(data) \in Nat /\ Len(text) = 4 * ((Len(data) + 2) \div 3)
      /\ Len(text) \in Nat /\ Sextets(data) \in Nat
      /\ pos \in Nat \ {0} /\ pad \in Nat
  BY TextLength, SMT DEF Decoding, Sextets
<1>2. CASE B!Character
  <2>1. /\ pc = "decoding" /\ pc' = pc /\ pos <= Len(text) /\ pos' = pos + 1
        /\ data' = data /\ text' = text /\ Sextets(data)' = Sextets(data)
    BY <1>2 DEF B!Character, Sextets
  <2>2. pos \in 1..Len(text)
    BY <1>1, <2>1
  <2>3. /\ pos > Sextets(data) => text[pos] = B!Pad
        /\ pos <= Sextets(data) => text[pos] # B!Pad
    <3>1. text = B!Encode(data) /\ pos \in 1..Len(B!Encode(data))
      BY <2>2 DEF Decoding
    <3>2. /\ pos > Sextets(data) => text[pos] = B!Pad
          /\ pos <= Sextets(data) => text[pos] \in 0..63
      BY <1>1, <3>1, CharactersFirst
    <3> QED
      BY <3>2 DEF B!Pad
  <2>4. CASE text[pos] = B!Pad
    <3>1. pad' = pad + 1 /\ UNCHANGED <<buf, bits, out>>
      BY <1>2, <2>4 DEF B!Character
    <3>2. Taken' = Taken /\ Taken = Sextets(data) /\ pos > Sextets(data)
      BY <1>1, <2>1, <2>3, <2>4, <3>1, SMT DEF Decoding, Taken
    <3>3. InGroup'
      BY <2>1, <3>1, <3>2
      DEF Decoding, InGroup, AtGroup, AfterOne, AfterTwo, AfterThree, Emitted
    <3>4. ~(pos' - 1 <= Sextets(data))
      BY <1>1, <2>1, <3>2
    <3> QED
      BY <1>1, <2>1, <3>1, <3>2, <3>3, <3>4 DEF Decoding
  <2>5. CASE text[pos] # B!Pad
    <3>1. B!Sextet(text[pos]) /\ UNCHANGED pad
      BY <1>2, <2>5 DEF B!Character
    <3>2. InGroup' /\ buf' \in Nat /\ out' \in Seq(Byte)
      BY <2>1, <2>5, <3>1, SextetKeepsGroup
    <3>3. pos <= Sextets(data) /\ pad = 0 /\ Taken' = pos
      BY <1>1, <2>1, <2>3, <2>5, <3>1, SMT DEF Decoding, Taken
    <3>4. pos' - 1 >= Sextets(data) => Taken' = Sextets(data)
      BY <1>1, <2>1, <3>3
    <3> QED
      BY <1>1, <2>1, <3>1, <3>2, <3>3, <3>4 DEF Decoding
  <2> QED
    BY <2>4, <2>5
<1>3. CASE B!EndOfText
  <2>1. pc = "decoding" /\ pc' = "padding" /\ UNCHANGED <<data, text, pos, buf, bits, pad, out>>
    BY <1>3 DEF B!EndOfText
  <2>2. pos = Len(text) + 1
    BY <1>1, <1>3 DEF B!EndOfText, Decoding
  <2>3. InGroup' /\ Taken' = Taken /\ Sextets(data)' = Sextets(data)
    BY <2>1 DEF Decoding, InGroup, AtGroup, AfterOne, AfterTwo, AfterThree, Emitted, Taken, Sextets
  <2> QED
    BY <2>1, <2>2, <2>3 DEF Decoding
<1>4. CASE B!Padding
  <2>1. pc = "padding" /\ pc' \in {"done", "thrown"} /\ UNCHANGED <<data, text, pos, buf, bits, pad>>
    BY <1>4 DEF B!Padding
  <2>2. pos = Len(text) + 1 /\ Taken' = Taken /\ Sextets(data)' = Sextets(data)
    BY <2>1 DEF Decoding, Taken, Sextets
  <2>3. Taken = Sextets(data)
    BY <1>1, <2>2, SMT DEF Decoding, Sextets
  <2>4. out = data
    BY <2>1, <2>3, AllIsEmitted DEF Decoding
  <2>5. pad \in 0..2 /\ (pad > Len(data) <=> Len(data) = 1)
    <3>1. pad = 4 * ((Len(data) + 2) \div 3) - (4 * Len(data) + 2) \div 3
      BY <1>1, <2>2, <2>3, SMT DEF Taken, Sextets
    <3>2. pad \in 0..2 /\ (pad > Len(data) <=> Len(data) = 1)
      BY <1>1, <3>1, PadsOfText
    <3> QED
      BY <1>1, <3>2
  <2>6. CASE pad > Len(data)
    BY <1>1, <1>4, <2>1, <2>2, <2>4, <2>5, <2>6 DEF Decoding, B!Padding
  <2>7. CASE pad <= Len(data)
    <3>1. pc' = "done" /\ out' = SubSeq(data, 1, Len(data) - pad)
      BY <1>1, <1>4, <2>4, <2>5, <2>7 DEF B!Padding
    <3>2. out' \in Seq(Byte)
      <4>1. \A i \in 1..(Len(data) - pad) : data[i] \in Byte
        BY <1>1, ElementOfSeq DEF File
      <4> QED
        BY <1>1, <3>1, <4>1, SubSeqProperties
    <3> QED
      <4>1. Len(data) # 1
        BY <1>1, <2>5, <2>7
      <4>2. pos' - 1 = Len(text)' /\ Taken' = Sextets(data)'
        BY <1>1, <2>1, <2>2, <2>3
      <4>3. pos' - 1 <= Sextets(data)' => pad' = 0
        BY <1>1, <2>1, <2>2 DEF Decoding
      <4> QED
        BY <1>1, <2>1, <3>1, <3>2, <4>1, <4>2, <4>3 DEF Decoding
  <2> QED
    BY <1>1, <2>6, <2>7
<1>5. CASE UNCHANGED B!vars
  BY <1>5
  DEF Decoding, InGroup, AtGroup, AfterOne, AfterTwo, AfterThree, Emitted, Taken, Sextets, B!vars
<1> QED
  BY <1>2, <1>3, <1>4, <1>5 DEF B!Next

\* Until the padding is handled the decoder has emitted a prefix of the file.
LEMMA PrefixEmitted ==
  ASSUME Decoding
  PROVE  DecodesPrefix
<1> SUFFICES ASSUME pc \in {"decoding", "padding"}
             PROVE  /\ Len(out) = (6 * Taken) \div 8
                    /\ out = SubSeq(data, 1, Len(out))
                    /\ pc = "padding" => out = data
  BY DEF DecodesPrefix, B!DecodesPrefix, Taken
<1>1. Len(data) \in Nat /\ data \in Seq(Byte) /\ out \in Seq(Byte) /\ Len(out) \in Nat
  BY TextLength DEF Decoding, File
<1>2. PICK g \in Nat : AtGroup(g) \/ AfterOne(g) \/ AfterTwo(g) \/ AfterThree(g)
  BY DEF Decoding, InGroup
<1>3. Len(out) = (6 * Taken) \div 8
  <2>1. /\ (6 * (4 * g)) \div 8 = 3 * g
        /\ (6 * (4 * g + 1)) \div 8 = 3 * g
        /\ (6 * (4 * g + 2)) \div 8 = 3 * g + 1
        /\ (6 * (4 * g + 3)) \div 8 = 3 * g + 2
    BY SMT
  <2> QED
    BY <1>2, <2>1 DEF AtGroup, AfterOne, AfterTwo, AfterThree, Emitted
<1>4. Emitted(Len(out))
  BY <1>2 DEF AtGroup, AfterOne, AfterTwo, AfterThree, Emitted
<1>5. out = SubSeq(data, 1, Len(out))
  <2> DEFINE first == SubSeq(data, 1, Len(out))
  <2>1. \A i \in 1..Len(out) : data[i] \in Byte
    BY <1>1, <1>4, ElementOfSeq DEF Emitted
  <2>2. /\ first \in Seq(Byte)
        /\ Len(first) = IF 1 <= Len(out) THEN Len(out) - 1 + 1 ELSE 0
        /\ \A i \in 1..(Len(out) - 1 + 1) : first[i] = data[1 + i - 1]
    BY <1>1, <2>1, SubSeqProperties
  <2> HIDE DEF first
  <2>3. Len(first) = Len(out) /\ \A i \in 1..Len(out) : first[i] = out[i]
    BY <1>1, <1>4, <2>2 DEF Emitted
  <2> QED
    BY <1>1, <2>2, <2>3, SeqEqual DEF first
<1>6. pc = "padding" => out = data
  <2> SUFFICES ASSUME pc = "padding" PROVE out = data
    OBVIOUS
  <2>1. Taken = Sextets(data) /\ InGroup
    BY TextLength, SMT DEF Decoding, Sextets
  <2> QED
    BY <2>1, AllIsEmitted
<1> QED
  BY <1>3, <1>5, <1>6

\* No '=', no loss.
LEMMA AlignedDecoded ==
  ASSUME Decoding
  PROVE  AlignedRoundTrip
<1> SUFFICES ASSUME Len(data) % 3 = 0
             PROVE  pc # "thrown" /\ (pc = "done" => out = data)
  BY DEF AlignedRoundTrip, B!AlignedRoundTrip
<1>1. Len(data) \in Nat /\ data \in Seq(Byte) /\ Len(data) # 1
  <2>1. Len(data) \in Nat /\ data \in Seq(Byte)
    BY TextLength DEF Decoding, File
  <2>2. Len(data) # 1
    <3>1. 1 % 3 # 0
      BY SMT
    <3> QED
      BY <3>1
  <2> QED
    BY <2>1, <2>2
<1>2. ASSUME pc = "done" PROVE out = data
  <2>1. Len(text) = 4 * ((Len(data) + 2) \div 3) /\ pos = Len(text) + 1 /\ pad \in Nat
    BY <1>2, TextLength DEF Decoding
  <2>2. Taken = Sextets(data)
    BY <1>1, <2>1, SMT DEF Decoding, Sextets
  <2>3. pad = 4 * ((Len(data) + 2) \div 3) - (4 * Len(data) + 2) \div 3
    BY <1>1, <2>1, <2>2, SMT DEF Taken, Sextets
  <2>4. pad = 0
    BY <1>1, <2>3, PadsOfText
  <2>5. Len(data) - pad = Len(data)
    BY <1>1, <2>4
  <2> QED
    BY <1>1, <1>2, <2>5, SubSeqFull DEF Decoding
<1> QED
  BY <1>1, <1>2 DEF Decoding
-----------------------------------------------------------------------------
\* What the decoder has done with the file, whatever bytes it is made of and
\* however long it is.
THEOREM DecoderInvariant == Spec => []Decoding
<1>1. Init => Decoding
  BY InitDecoding, UploadAssumption DEF Init
<1>2. Decoding /\ [Next]_vars => Decoding'
  <2>1. [Next]_vars => [B!Next]_B!vars
    BY DEF Next, Send, Stalls, Breaks, Read, Receive, Replicate, Execute, Decode, vars, bVars, B!vars
  <2> QED
    BY <2>1, NextDecoding
<1> QED
  BY <1>1, <1>2, PTL DEF Spec

\* The loop decodes every file, all of it and in order, and loses nothing to
\* the buffer's overflow.
THEOREM DecoderEmitsPrefix == Spec => []DecodesPrefix
<1>1. Decoding => DecodesPrefix
  BY PrefixEmitted
<1> QED
  BY <1>1, DecoderInvariant, PTL

\* A file whose length is a multiple of three arrives as it was.
THEOREM AlignedFilesArrive == Spec => []AlignedRoundTrip
<1>1. Decoding => AlignedRoundTrip
  BY AlignedDecoded
<1> QED
  BY <1>1, DecoderInvariant, PTL

\* And no other does: of any other file as many bytes are missing at the end
\* as its text has '=', and a file of one byte is refused.
Lost == IF Len(data) % 3 = 0 THEN 0 ELSE 3 - (Len(data) % 3)

CutShort ==
  /\ pc = "done" => Lost <= Len(data) /\ out = SubSeq(data, 1, Len(data) - Lost)
  /\ pc = "thrown" => Len(data) = 1

\* The bytes taken off are as many as there are '='.
LEMMA CutShortAtTheEnd ==
  ASSUME Decoding
  PROVE  CutShort
<1>1. Len(data) \in Nat
  BY TextLength DEF Decoding
<1>2. ASSUME pc = "done" PROVE Lost <= Len(data) /\ pad = Lost
  <2>1. Len(text) = 4 * ((Len(data) + 2) \div 3) /\ pos = Len(text) + 1 /\ pad \in Nat
    BY <1>2, TextLength DEF Decoding
  <2>2. Taken = Sextets(data)
    BY <1>1, <2>1, SMT DEF Decoding, Sextets
  <2>3. pad = 4 * ((Len(data) + 2) \div 3) - (4 * Len(data) + 2) \div 3
    BY <1>1, <2>1, <2>2, SMT DEF Taken, Sextets
  <2>4. Len(data) # 1
    BY <1>2 DEF Decoding
  <2>5. pad \in 0..2 /\ (pad > Len(data) <=> Len(data) = 1) /\ pad = Lost
    BY <1>1, <2>3, PadsOfText DEF Lost
  <2> QED
    BY <1>1, <2>4, <2>5
<1> QED
  BY <1>1, <1>2 DEF Decoding, CutShort

THEOREM OtherFilesAreCut == Spec => []CutShort
<1>1. Decoding => CutShort
  BY CutShortAtTheEnd
<1> QED
  BY <1>1, DecoderInvariant, PTL

-----------------------------------------------------------------------------
(***************************************************************************)
(* Texts.  Every text the code writes is a sequence of its own words and of *)
(* what the names are made of; one that is joined of parts holds each part *)
(* where the parts before it end.                                          *)
(***************************************************************************)

\* The tokens the code writes, and those of the names.
Words ==
  {Q, BS, NL, "n", Open, Close, Comma, Colon, "1001", "2", "name", "executable", "executable_b64",
   "min_cores", "client_callback_address", "submission_id", "sender", "username", "request",
   "action", "job_name", "response_status", "forward_payload", "path", "code", "address", "peer",
   "host", "client-tcp", "PENDING", "replicate", "insert", "missing"}
Token == Words \cup UNION {{n[i] : i \in DOMAIN n} : n \in Names}
Text == Seq(Token)

LEMMA WordsAreTokens == \A w \in Words : w \in Token
BY DEF Token

LEMMA OneQuote == <<Q>> \in Text /\ Len(<<Q>>) = 1 /\ <<Q>>[1] = Q
<1>1. Q \in Token
  BY WordsAreTokens DEF Words
<1> QED
  BY <1>1 DEF Text

\* Behind its first k tokens, T goes on with A.
Holds(T, k, A) == k + Len(A) <= Len(T) /\ \A i \in 1..Len(A) : T[k + i] = A[i]

LEMMA JoinText ==
  ASSUME NEW A \in Text, NEW B1 \in Text
  PROVE  /\ A \o B1 \in Text
         /\ Len(A \o B1) = Len(A) + Len(B1)
         /\ Len(A) \in Nat /\ Len(B1) \in Nat
         /\ Holds(A \o B1, 0, A)
         /\ Holds(A \o B1, Len(A), B1)
BY SMT DEF Text, Holds

LEMMA HoldsParts ==
  ASSUME NEW T \in Text, NEW k \in Nat, NEW A \in Text, NEW B1 \in Text
  PROVE  Holds(T, k, A \o B1) <=> Holds(T, k, A) /\ Holds(T, k + Len(A), B1)
<1>1. /\ Len(A \o B1) = Len(A) + Len(B1) /\ Len(A) \in Nat /\ Len(B1) \in Nat /\ Len(T) \in Nat
      /\ \A i \in 1..Len(A) : (A \o B1)[i] = A[i]
      /\ \A i \in 1..Len(B1) : (A \o B1)[Len(A) + i] = B1[i]
  BY SMT DEF Text
<1> DEFINE AB == A \o B1
<1> HIDE DEF AB
<1>2. ASSUME Holds(T, k, AB)
      PROVE  Holds(T, k, A) /\ Holds(T, k + Len(A), B1)
  <2>1. \A i \in 1..(Len(A) + Len(B1)) : T[k + i] = AB[i]
    BY <1>1, <1>2 DEF Holds, AB
  <2>2. \A i \in 1..Len(A) : T[k + i] = A[i]
    BY <1>1, <2>1 DEF AB
  <2>3. ASSUME NEW i \in 1..Len(B1) PROVE T[k + Len(A) + i] = B1[i]
    <3>1. Len(A) + i \in 1..(Len(A) + Len(B1)) /\ k + (Len(A) + i) = k + Len(A) + i
      BY <1>1
    <3>2. T[k + (Len(A) + i)] = AB[Len(A) + i]
      BY <2>1, <3>1
    <3> QED
      BY <1>1, <3>1, <3>2 DEF AB
  <2> QED
    BY <1>1, <1>2, <2>2, <2>3 DEF Holds, AB
<1>3. ASSUME Holds(T, k, A), Holds(T, k + Len(A), B1)
      PROVE  Holds(T, k, AB)
  <2>1. ASSUME NEW i \in 1..(Len(A) + Len(B1)) PROVE T[k + i] = AB[i]
    <3>1. CASE i <= Len(A)
      BY <1>1, <1>3, <3>1, SMT DEF Holds, AB
    <3>2. CASE i > Len(A)
      <4>1. i - Len(A) \in 1..Len(B1) /\ k + Len(A) + (i - Len(A)) = k + i
            /\ Len(A) + (i - Len(A)) = i
        BY <1>1, <3>2
      <4> QED
        BY <1>1, <1>3, <4>1, SMT DEF Holds, AB
    <3> QED
      BY <1>1, <3>1, <3>2
  <2> QED
    BY <1>1, <1>3, <2>1, SMT DEF Holds, AB
<1> QED
  BY <1>2, <1>3 DEF AB

LEMMA HoldsIn ==
  ASSUME NEW T \in Text, NEW U \in Text, NEW k \in Nat, NEW m \in Nat, NEW A \in Text,
         Holds(T, k, U), Holds(U, m, A)
  PROVE  Holds(T, k + m, A)
BY SMT DEF Text, Holds

\* FlattenSeq's parts stand one behind the other.
Laid(F1, parts, at) ==
  /\ at \in [1..(Len(parts) + 1) -> Nat]
  /\ at[1] = 0
  /\ at[Len(parts) + 1] = Len(F1)
  /\ \A k \in 1..Len(parts) : at[k + 1] = at[k] + Len(parts[k]) /\ Holds(F1, at[k], parts[k])

LEMMA FlattenExists ==
  ASSUME NEW parts \in Seq(Text)
  PROVE  \A m \in 1..Len(parts) :
           \E f \in [1..m -> Text] :
             f = [i \in 1..m |-> IF i = 1 THEN parts[i] ELSE f[i - 1] \o parts[i]]
<1> DEFINE Good(m) == \E f \in [1..m -> Text] :
             f = [i \in 1..m |-> IF i = 1 THEN parts[i] ELSE f[i - 1] \o parts[i]]
           S == {m \in 1..Len(parts) : ~Good(m)}
<1>1. Len(parts) \in Nat /\ \A i \in 1..Len(parts) : parts[i] \in Text
  BY ElementOfSeq
<1>2. SUFFICES ASSUME S # {} PROVE FALSE
  OBVIOUS
<1>3. PICK n \in S : \A m \in S : n <= m
  <2> HIDE DEF Good
  <2>1. S \subseteq Nat
    OBVIOUS
  <2> HIDE DEF S
  <2> QED
    BY <1>2, <2>1, LeastNumber
<1>4. n \in 1..Len(parts) /\ ~Good(n)
  OBVIOUS
<1>5. n # 1
  <2>1. ASSUME n = 1 PROVE Good(1)
    <3> DEFINE f == [i \in 1..1 |-> parts[i]]
    <3>1. f \in [1..1 -> Text] /\ f = [i \in 1..1 |-> IF i = 1 THEN parts[i] ELSE f[i - 1] \o parts[i]]
      BY <1>1, <1>4, <2>1
    <3> QED
      BY <3>1
  <2> QED
    BY <1>4, <2>1
<1>6. Good(n - 1)
  <2>1. n - 1 \in 1..Len(parts) /\ ~(n <= n - 1)
    BY <1>1, <1>4, <1>5
  <2> HIDE DEF Good
  <2> QED
    BY <1>3, <2>1
<1>7. PICK f \in [1..(n - 1) -> Text] :
        f = [i \in 1..(n - 1) |-> IF i = 1 THEN parts[i] ELSE f[i - 1] \o parts[i]]
  BY <1>6
<1> DEFINE g == [i \in 1..n |-> IF i = n THEN f[n - 1] \o parts[n] ELSE f[i]]
<1>8. g \in [1..n -> Text]
  <2>1. f[n - 1] \o parts[n] \in Text
    BY <1>1, <1>4, <1>5, JoinText
  <2> QED
    BY <1>4, <2>1
<1>9. ASSUME NEW i \in 1..n
      PROVE  g[i] = IF i = 1 THEN parts[i] ELSE g[i - 1] \o parts[i]
  <2>0. \A j \in 1..n : g[j] = IF j = n THEN f[n - 1] \o parts[n] ELSE f[j]
    OBVIOUS
  <2> HIDE DEF g
  <2>1. CASE i = n
    <3>1. i - 1 \in 1..n /\ i - 1 # n
      BY <1>4, <1>5, <2>1
    <3> QED
      BY <1>5, <2>0, <2>1, <3>1
  <2>2. CASE i # n
    <3>1. i \in 1..(n - 1) /\ (i # 1 => i - 1 \in 1..n /\ i - 1 # n)
      BY <1>4, <2>2
    <3>2. f[i] = IF i = 1 THEN parts[i] ELSE f[i - 1] \o parts[i]
      BY <1>7, <3>1
    <3> QED
      BY <2>0, <2>2, <3>1, <3>2
  <2> QED
    BY <2>1, <2>2
<1>10. Good(n)
  <2>1. g = [i \in 1..n |-> g[i]]
    OBVIOUS
  <2> HIDE DEF g
  <2>2. g = [i \in 1..n |-> IF i = 1 THEN parts[i] ELSE g[i - 1] \o parts[i]]
    BY <1>9, <2>1
  <2> QED
    BY <1>8, <2>2
<1> QED
  BY <1>4, <1>10

LEMMA FlattenLaid ==
  ASSUME NEW parts \in Seq(Text)
  PROVE  FlattenSeq(parts) \in Text /\ \E at : Laid(FlattenSeq(parts), parts, at)
<1> DEFINE n == Len(parts)
           f == CHOOSE f : f = [i \in 1..n |-> IF i = 1 THEN parts[i] ELSE f[i - 1] \o parts[i]]
<1>1. n \in Nat /\ \A i \in 1..n : parts[i] \in Text
  BY ElementOfSeq
<1>2. CASE n = 0
  <2> DEFINE at == [i \in 1..1 |-> 0]
  <2>1. FlattenSeq(parts) = parts /\ parts = <<>>
    BY <1>2 DEF FlattenSeq
  <2>2. Laid(parts, parts, at)
    BY <1>2, <2>1 DEF Laid
  <2> QED
    BY <2>1, <2>2 DEF Text
<1>3. CASE n # 0
  <2>1. n \in 1..n
    BY <1>1, <1>3
  <2>2. f = [i \in 1..n |-> IF i = 1 THEN parts[i] ELSE f[i - 1] \o parts[i]]
    <3>1. \E g \in [1..n -> Text] :
            g = [i \in 1..n |-> IF i = 1 THEN parts[i] ELSE g[i - 1] \o parts[i]]
      BY <2>1, FlattenExists, Zenon
    <3> QED
      BY <3>1
  <2>3. FlattenSeq(parts) = f[n]
    BY <1>3 DEF FlattenSeq
  <2> HIDE DEF f
  <2> DEFINE at == [k \in 1..(n + 1) |-> IF k = 1 THEN 0 ELSE Len(f[k - 1])]
             Good(m) == f[m] \in Text /\ \A k \in 1..m : /\ f[k] \in Text
                                                       /\ at[k + 1] = at[k] + Len(parts[k])
                                                       /\ at[k] \in Nat
                                                       /\ Holds(f[m], at[k], parts[k])
             S == {m \in 1..n : ~Good(m)}
  <2>4. f[1] = parts[1] /\ \A i \in 2..n : f[i] = f[i - 1] \o parts[i]
    <3>1. \A i \in 1..n : f[i] = IF i = 1 THEN parts[i] ELSE f[i - 1] \o parts[i]
      BY <2>2
    <3>2. 1 \in 1..n /\ \A i \in 2..n : i \in 1..n /\ i # 1
      BY <1>1, <1>3
    <3> QED
      BY <3>1, <3>2
  <2>5. Good(1)
    <3>1. f[1] \in Text /\ at[1] = 0 /\ at[2] = Len(parts[1]) /\ Len(parts[1]) \in Nat
      BY <1>1, <2>1, <2>4, SMT DEF Text
    <3>2. Holds(f[1], 0, parts[1])
      BY <2>4, <3>1 DEF Holds
    <3> HIDE DEF at
    <3> QED
      BY <3>1, <3>2
  <2>6. ASSUME NEW m \in 1..n, m + 1 \in 1..n, Good(m)
        PROVE  Good(m + 1)
    <3>1. f[m + 1] = f[m] \o parts[m + 1] /\ f[m] \in Text /\ parts[m + 1] \in Text
      <4>1. m + 1 \in 2..n /\ m + 1 - 1 = m
        BY <1>1, <2>6
      <4>2. f[m + 1] = f[m] \o parts[m + 1]
        <5> DEFINE k == m + 1
        <5>1. f[k] = f[k - 1] \o parts[k]
          BY <2>4, <4>1
        <5>2. k - 1 = m
          BY <4>1
        <5> HIDE DEF k
        <5>3. f[k] = f[m] \o parts[k]
          BY <5>1, <5>2
        <5> QED
          BY <5>3 DEF k
      <4>3. f[m] \in Text
        BY <2>6
      <4> QED
        BY <1>1, <2>6, <4>2, <4>3
    <3>2. /\ f[m + 1] \in Text
          /\ Len(f[m + 1]) = Len(f[m]) + Len(parts[m + 1])
          /\ Len(f[m]) \in Nat
          /\ Holds(f[m + 1], 0, f[m])
          /\ Holds(f[m + 1], Len(f[m]), parts[m + 1])
      BY <3>1, JoinText
    <3>3. at[m + 1] = Len(f[m]) /\ at[m + 1 + 1] = Len(f[m + 1])
      BY <1>1, <2>6
    <3> HIDE DEF at
    <3>4. ASSUME NEW k \in 1..m
          PROVE  Holds(f[m + 1], at[k], parts[k])
      <4>1. Holds(f[m], at[k], parts[k]) /\ at[k] \in Nat /\ parts[k] \in Text /\ 0 + at[k] = at[k]
        BY <1>1, <2>6
      <4> QED
        BY <3>1, <3>2, <4>1, HoldsIn
    <3>5. \A k \in 1..(m + 1) : k \in 1..m \/ k = m + 1
      OBVIOUS
    <3> QED
      BY <2>6, <3>2, <3>3, <3>4, <3>5
  <2>7. \A m \in 1..n : Good(m)
    <3> HIDE DEF Good
    <3>1. SUFFICES ASSUME S # {} PROVE FALSE
      OBVIOUS
    <3>2. PICK m \in S : \A k \in S : m <= k
      <4>1. S \subseteq Nat
        OBVIOUS
      <4> HIDE DEF S
      <4> QED
        BY <3>1, <4>1, LeastNumber
    <3>3. m # 1
      BY <2>5
    <3>4. m - 1 \in 1..n /\ m - 1 + 1 = m /\ ~(m <= m - 1)
      BY <1>1, <3>3
    <3>5. Good(m - 1)
      BY <3>2, <3>4
    <3> QED
      BY <2>6, <3>4, <3>5
  <2>8. Good(n)
    BY <2>1, <2>7
  <2>9. Laid(f[n], parts, at)
    <3>1. at[n + 1] = Len(f[n]) /\ at[1] = 0
      BY <1>1, <1>3
    <3>2. at \in [1..(n + 1) -> Nat]
      <4>1. \A k \in 1..(n + 1) : at[k] \in Nat
        <5>1. \A k \in 1..n : at[k] \in Nat
          BY <2>8
        <5>2. at[n + 1] \in Nat
          BY <2>8, <3>1, SMT DEF Text
        <5> HIDE DEF at
        <5> QED
          BY <1>1, <5>1, <5>2
      <4>2. at = [k \in 1..(n + 1) |-> at[k]]
        OBVIOUS
      <4> HIDE DEF at
      <4> QED
        BY <4>1, <4>2
    <3> HIDE DEF at
    <3> QED
      BY <2>8, <3>1, <3>2 DEF Laid
  <2> QED
    BY <2>3, <2>8, <2>9
<1> QED
  BY <1>2, <1>3

-----------------------------------------------------------------------------
(***************************************************************************)
(* Strings.  The scan for the closing quote, over any text.                *)
(***************************************************************************)

\* The scan for the end of a string, as a function on the positions of T.
Scan(T, e) ==
  e = [i \in 1..(Len(T) + 2) |->
         IF i > Len(T) \/ T[i] = Q THEN i
         ELSE IF T[i] = BS THEN e[i + 2] ELSE e[i + 1]]

LEMMA ScanExists ==
  ASSUME NEW T \in Text
  PROVE  \E e : Scan(T, e)
<1> DEFINE n == Len(T)
           Next1(e, i) == IF i > n \/ T[i] = Q THEN i
                         ELSE IF T[i] = BS THEN e[i + 2] ELSE e[i + 1]
           Good(m) == \E e : e = [i \in (n + 2 - m)..(n + 2) |-> Next1(e, i)]
           S == {m \in 0..(n + 1) : ~Good(m)}
<1>1. n \in Nat
  BY DEF Text
<1>2. Good(0)
  <2> DEFINE e == [i \in (n + 2 - 0)..(n + 2) |-> i]
  <2>1. \A i \in (n + 2 - 0)..(n + 2) : Next1(e, i) = i
    BY <1>1
  <2> HIDE DEF Next1
  <2>2. e = [i \in (n + 2 - 0)..(n + 2) |-> Next1(e, i)]
    BY <2>1
  <2> QED
    BY <2>2
<1>3. ASSUME NEW m \in 0..n, Good(m) PROVE Good(m + 1)
  <2> DEFINE lo == n + 2 - m
             D == lo..(n + 2)
             L == (lo - 1)..(n + 2)
  <2>1. PICK e : e = [i \in D |-> Next1(e, i)]
    BY <1>3
  <2> DEFINE g == [i \in L |-> IF i = lo - 1 THEN Next1(e, i) ELSE e[i]]
  <2>2. lo \in Nat /\ lo - 1 \in Nat \ {0}
    BY <1>1
  <2>3. ASSUME NEW i \in L PROVE g[i] = Next1(g, i)
    <3>0. \A j \in L : g[j] = IF j = lo - 1 THEN Next1(e, j) ELSE e[j]
      OBVIOUS
    <3>1. i \in Nat /\ (i <= n => i + 1 \in L /\ i + 2 \in L /\ i + 1 # lo - 1 /\ i + 2 # lo - 1)
      BY <1>1, <2>2
    <3> HIDE DEF g, lo
    <3>2. CASE i > n
      <4>1. Next1(g, i) = i /\ Next1(e, i) = i
        BY <3>2
      <4>2. i # lo - 1 => e[i] = Next1(e, i)
        BY <1>1, <2>1, <2>2
      <4> QED
        BY <3>0, <4>1, <4>2
    <3>3. CASE i <= n
      <4>1. g[i + 1] = e[i + 1] /\ g[i + 2] = e[i + 2]
        BY <3>0, <3>1, <3>3
      <4>2. Next1(g, i) = Next1(e, i)
        BY <4>1
      <4>3. i # lo - 1 => i \in D
        BY <2>2
      <4>4. i # lo - 1 => e[i] = Next1(e, i)
        BY <2>1, <4>3
      <4> QED
        BY <3>0, <4>2, <4>4
    <3> QED
      BY <1>1, <3>1, <3>2, <3>3
  <2>4. g = [i \in L |-> g[i]]
    OBVIOUS
  <2> HIDE DEF g, Next1
  <2>5. g = [i \in L |-> Next1(g, i)]
    BY <2>3, <2>4
  <2>6. n + 2 - (m + 1) = lo - 1
    BY <1>1
  <2> QED
    BY <2>5, <2>6
<1>4. \A m \in 0..(n + 1) : Good(m)
  <2> HIDE DEF Good
  <2>1. SUFFICES ASSUME S # {} PROVE FALSE
    OBVIOUS
  <2>2. PICK m \in S : \A k \in S : m <= k
    <3>1. S \subseteq Nat
      OBVIOUS
    <3> HIDE DEF S
    <3> QED
      BY <2>1, <3>1, LeastNumber
  <2>3. m - 1 \in 0..n /\ m - 1 + 1 = m /\ ~(m <= m - 1)
    BY <1>1, <1>2
  <2>4. Good(m - 1)
    BY <1>1, <2>2, <2>3
  <2> QED
    BY <1>3, <2>3, <2>4
<1> QED
  <2>1. n + 1 \in 0..(n + 1) /\ n + 2 - (n + 1) = 1
    BY <1>1
  <2> HIDE DEF Next1
  <2>2. Good(n + 1)
    BY <1>4, <2>1
  <2> QED
    BY <2>1, <2>2 DEF Scan, Next1

LEMMA EndIsScan ==
  ASSUME NEW T \in Text, NEW from
  PROVE  \E e : Scan(T, e) /\ EndOfString(T, from) = e[from]
BY ScanExists DEF Scan, EndOfString

\* Every position of a string is one the scan comes to, and no quote, or is
\* hidden by the backslash it came to just before; behind the last one the
\* scan goes on.
Wellformed(t) ==
  \E V \in SUBSET (1..(Len(t) + 1)) :
    /\ 1 \in V
    /\ Len(t) + 1 \in V
    /\ \A i \in 1..Len(t) :
         /\ i \in V => t[i] # Q /\ (IF t[i] = BS THEN i + 2 \in V ELSE i + 1 \in V)
         /\ i \notin V => i - 1 \in V /\ t[i - 1] = BS

LEMMA EndOfWellformed ==
  ASSUME NEW T \in Text, NEW k \in Nat, NEW t \in Text, Wellformed(t), Holds(T, k, t \o <<Q>>)
  PROVE  EndOfString(T, k + 1) = k + Len(t) + 1
<1>1. PICK V \in SUBSET (1..(Len(t) + 1)) :
        /\ 1 \in V
        /\ \A i \in 1..Len(t) :
             i \in V => t[i] # Q /\ (IF t[i] = BS THEN i + 2 \in V ELSE i + 1 \in V)
  BY DEF Wellformed
<1>2. PICK e : Scan(T, e) /\ EndOfString(T, k + 1) = e[k + 1]
  BY EndIsScan
<1> DEFINE n == Len(t)
<1>3. /\ n \in Nat /\ Len(T) \in Nat
      /\ Holds(T, k, t) /\ k + n + 1 <= Len(T) /\ T[k + n + 1] = Q
  <2>1. <<Q>> \in Text /\ Len(<<Q>>) = 1 /\ <<Q>>[1] = Q
    BY OneQuote
  <2>2. Holds(T, k, t) /\ Holds(T, k + n, <<Q>>)
    BY <2>1, HoldsParts
  <2> QED
    BY <2>1, <2>2 DEF Text, Holds
<1> HIDE DEF n
<1>4. \A i \in 1..(Len(T) + 2) :
        e[i] = IF i > Len(T) \/ T[i] = Q THEN i
               ELSE IF T[i] = BS THEN e[i + 2] ELSE e[i + 1]
  BY <1>2 DEF Scan
<1> DEFINE S == {m \in 0..n : n + 1 - m \in V /\ e[k + (n + 1 - m)] # k + n + 1}
<1>5. SUFFICES ASSUME S # {} PROVE FALSE
  <2>1. n + 1 - n = 1 /\ n \in 0..n
    BY <1>3
  <2> QED
    BY <1>1, <1>2, <2>1, Zenon DEF n
<1>6. PICK m \in S : \A j \in S : m <= j
  <2>1. S \subseteq Nat
    OBVIOUS
  <2> HIDE DEF S
  <2> QED
    BY <1>5, <2>1, LeastNumber
<1> DEFINE i == n + 1 - m
<1>7. i \in V /\ e[k + i] # k + n + 1 /\ i \in 1..(n + 1) /\ k + i \in 1..(Len(T) + 2) /\ m \in 0..n
  BY <1>3, <1>6
<1>8. i # n + 1
  BY <1>3, <1>4, <1>7
<1>9. i \in 1..n /\ T[k + i] = t[i] /\ k + i <= Len(T)
  BY <1>3, <1>7, <1>8 DEF Holds, n
<1>10. \A j \in V : j > i => e[k + j] = k + n + 1
  <2> TAKE j \in V
  <2> HAVE j > i
  <2>1. j \in 1..(n + 1)
    BY <1>1 DEF n
  <2>2. n + 1 - j \in 0..n /\ n + 1 - (n + 1 - j) = j /\ ~(m <= n + 1 - j)
    BY <1>3, <1>7, <2>1
  <2> HIDE DEF i
  <2>3. n + 1 - j \notin S
    BY <1>6, <2>2
  <2> QED
    BY <2>2, <2>3
<1> HIDE DEF i, S
<1>11. t[i] # Q /\ (t[i] = BS => i + 2 \in V) /\ (t[i] # BS => i + 1 \in V)
  BY <1>1, <1>7, <1>9 DEF n
<1>12. e[k + i] = IF t[i] = BS THEN e[k + i + 2] ELSE e[k + i + 1]
  BY <1>3, <1>4, <1>7, <1>9, <1>11
<1>13. k + i + 2 = k + (i + 2) /\ k + i + 1 = k + (i + 1) /\ i + 2 > i /\ i + 1 > i
  BY <1>7
<1> QED
  BY <1>7, <1>10, <1>11, <1>12, <1>13

\* A string that the scan finds the end of.
LEMMA WellformedIfEnd ==
  ASSUME NEW t \in Text, EndOfString(t \o <<Q>>, 1) = Len(t) + 1
  PROVE  Wellformed(t)
<1> DEFINE n == Len(t)
           T == t \o <<Q>>
<1>1. n \in Nat /\ T \in Text /\ Len(T) = n + 1 /\ \A i \in 1..n : T[i] = t[i]
  <2>1. <<Q>> \in Text /\ Len(<<Q>>) = 1
    BY OneQuote
  <2> QED
    BY <2>1, SMT DEF Text
<1> HIDE DEF T
<1>2. PICK e : Scan(T, e) /\ EndOfString(T, 1) = e[1]
  BY <1>1, EndIsScan
<1>3. \A i \in 1..(n + 3) :
        e[i] = IF i > n + 1 \/ T[i] = Q THEN i
               ELSE IF T[i] = BS THEN e[i + 2] ELSE e[i + 1]
  <2>1. n + 1 + 2 = n + 3
    BY <1>1
  <2> QED
    BY <1>1, <1>2, <2>1 DEF Scan
<1> DEFINE V == {i \in 1..(n + 1) : e[i] = n + 1}
<1>4. 1 \in V
  BY <1>1, <1>2 DEF T
<1>5. n + 1 \in V
  <2>1. T[n + 1] = Q
    BY <1>1, SMT DEF T, Text
  <2> QED
    BY <1>1, <1>3, <2>1
<1>6. ASSUME NEW i \in 1..n, i \in V
      PROVE  t[i] # Q /\ (t[i] = BS => i + 2 \in V) /\ (t[i] # BS => i + 1 \in V)
  <2>1. e[i] = n + 1 /\ T[i] = t[i] /\ i \in 1..(n + 3) /\ i # n + 1 /\ ~(i > n + 1)
    BY <1>1, <1>6
  <2>2. t[i] # Q
    BY <1>3, <2>1
  <2>3. ASSUME t[i] # BS PROVE i + 1 \in V
    BY <1>1, <1>3, <2>1, <2>2, <2>3
  <2>4. ASSUME t[i] = BS PROVE i + 2 \in V
    <3>1. e[i + 2] = n + 1
      BY <1>3, <2>1, <2>2, <2>4
    <3>2. i + 2 # n + 2
      BY <1>1, <1>3, <3>1
    <3> QED
      BY <1>1, <3>1, <3>2
  <2> QED
    BY <2>2, <2>3, <2>4
<1>7. \A i \in 1..n : i \notin V => i - 1 \in V /\ t[i - 1] = BS
  <2> DEFINE S == {i \in 1..n : i \notin V /\ ~(i - 1 \in V /\ t[i - 1] = BS)}
  <2> HIDE DEF V
  <2>1. SUFFICES ASSUME S # {} PROVE FALSE
    OBVIOUS
  <2>2. PICK i \in S : \A j \in S : i <= j
    <3>1. S \subseteq Nat
      OBVIOUS
    <3> HIDE DEF S
    <3> QED
      BY <2>1, <3>1, LeastNumber
  <2>3. i # 1 /\ i \in 1..n
    BY <1>4, <2>2
  <2>4. i - 1 \in 1..n /\ ~(i <= i - 1) /\ i - 1 + 1 = i /\ i - 1 - 1 + 2 = i /\ i - 1 - 1 < n
    BY <1>1, <2>3
  <2>5. i - 1 \notin V
    BY <1>6, <2>2, <2>4
  <2>6. i - 1 - 1 \in V /\ t[i - 1 - 1] = BS
    BY <2>2, <2>4, <2>5
  <2>7. i - 1 - 1 \in 1..n
    BY <1>1, <2>4, <2>6 DEF V
  <2>8. i \in V
    BY <1>6, <2>4, <2>6, <2>7
  <2> QED
    BY <2>2, <2>8
<1> HIDE DEF V
<1>8. V \in SUBSET (1..(n + 1))
  BY DEF V
<1> QED
  BY <1>4, <1>5, <1>6, <1>7, <1>8 DEF Wellformed

-----------------------------------------------------------------------------
(***************************************************************************)
(* Fields.  What is taken out by a name is the first field of that name, if *)
(* nothing in front of it looks like the name.                             *)
(***************************************************************************)

\* No "key" within the first n tokens.
Clear(T, n, key) == \A i \in 1..(n - 2) : ~(T[i] = Q /\ T[i + 1] = key /\ T[i + 2] = Q)

LEMMA LeastIsMin ==
  ASSUME NEW S, S \subseteq Nat, NEW x \in S, \A y \in S : x <= y
  PROVE  Min(S) = x
<1>1. \A y \in S : (\A z \in S : y <= z) => y = x
  <2> TAKE y \in S
  <2> HAVE \A z \in S : y <= z
  <2>1. y <= x /\ x <= y /\ x \in Nat /\ y \in Nat
    OBVIOUS
  <2> QED
    BY <2>1
<1> QED
  BY <1>1 DEF Min

LEMMA FindHere ==
  ASSUME NEW T \in Text, NEW from \in 1..Len(T), NEW x, T[from] = x
  PROVE  Find(T, <<x>>, from) = from
<1> DEFINE places == {i \in from..(Len(T) - Len(<<x>>) + 1) :
                        \A k \in DOMAIN <<x>> : T[i + k - 1] = <<x>>[k]}
<1>1. Len(<<x>>) = 1 /\ DOMAIN <<x>> = {1} /\ <<x>>[1] = x
  BY SMT
<1>2. Len(T) \in Nat
  BY DEF Text
<1>3. from \in from..(Len(T) - Len(<<x>>) + 1) /\ from + 1 - 1 = from
  BY <1>1, <1>2
<1>4. from \in places
  BY <1>1, <1>3
<1>5. places \subseteq Nat /\ \A y \in places : from <= y
  BY <1>1, <1>2
<1> HIDE DEF places
<1>6. Min(places) = from /\ from # 0
  <2>1. from # 0
    BY <1>2
  <2>2. places \subseteq Nat /\ from \in places /\ \A y \in places : from <= y
    BY <1>4, <1>5
  <2> QED
    BY <2>1, <2>2, LeastIsMin
<1> QED
  BY <1>4, <1>6 DEF Find, places

\* The places of a name in quotes.
LEMMA FindPlaces ==
  ASSUME NEW T \in Text, NEW key
  PROVE  LET places == {i \in 1..(Len(T) - 2) : T[i] = Q /\ T[i + 1] = key /\ T[i + 2] = Q}
         IN  Find(T, <<Q, key, Q>>, 1) = IF places = {} THEN 0 ELSE Min(places)
<1> DEFINE P == <<Q, key, Q>>
           places == {i \in 1..(Len(T) - 2) : T[i] = Q /\ T[i + 1] = key /\ T[i + 2] = Q}
           there == {i \in 1..(Len(T) - Len(P) + 1) : \A k \in DOMAIN P : T[i + k - 1] = P[k]}
<1>1. Len(P) = 3 /\ DOMAIN P = {1, 2, 3} /\ P[1] = Q /\ P[2] = key /\ P[3] = Q
  BY SMT
<1>2. Len(T) \in Nat
  BY DEF Text
<1> HIDE DEF P
<1>3. Len(T) - Len(P) + 1 = Len(T) - 2
  BY <1>1, <1>2
<1>4. ASSUME NEW i \in 1..(Len(T) - 2)
      PROVE  (\A k \in DOMAIN P : T[i + k - 1] = P[k])
               <=> T[i] = Q /\ T[i + 1] = key /\ T[i + 2] = Q
  <2>1. i + 1 - 1 = i /\ i + 2 - 1 = i + 1 /\ i + 3 - 1 = i + 2
    OBVIOUS
  <2>2. (\A k \in DOMAIN P : T[i + k - 1] = P[k])
           <=> T[i + 1 - 1] = Q /\ T[i + 2 - 1] = key /\ T[i + 3 - 1] = Q
    BY <1>1, Zenon
  <2> QED
    BY <2>1, <2>2, Zenon
<1>5. there = places
  BY <1>3, <1>4
<1> HIDE DEF places, there
<1>6. Find(T, P, 1) = IF 1 = 0 \/ there = {} THEN 0 ELSE Min(there)
  BY DEF Find, there
<1> QED
  BY <1>5, <1>6 DEF P, places

LEMMA FindName ==
  ASSUME NEW T \in Text, NEW p \in Nat \ {0}, NEW key, Clear(T, p, key), T[p] # Q, T[p] # key,
         p + 3 <= Len(T), T[p + 1] = Q, T[p + 2] = key, T[p + 3] = Q
  PROVE  Find(T, <<Q, key, Q>>, 1) = p + 1
<1> DEFINE places == {i \in 1..(Len(T) - 2) : T[i] = Q /\ T[i + 1] = key /\ T[i + 2] = Q}
<1>1. Len(T) \in Nat
  BY DEF Text
<1>2. p + 1 \in places
  BY <1>1
<1>3. ASSUME NEW i \in places PROVE p + 1 <= i
  <2>1. i \in 1..(Len(T) - 2) /\ T[i] = Q /\ T[i + 1] = key /\ T[i + 2] = Q
    OBVIOUS
  <2>2. i \notin 1..(p - 2)
    BY <2>1 DEF Clear
  <2>3. i # p /\ i + 1 # p
    BY <2>1
  <2> QED
    BY <2>1, <2>2, <2>3
<1>4. places \subseteq Nat
  BY <1>1
<1> HIDE DEF places
<1>5. Min(places) = p + 1
  BY <1>2, <1>3, <1>4, LeastIsMin
<1>6. Find(T, <<Q, key, Q>>, 1) = IF places = {} THEN 0 ELSE Min(places)
  BY FindPlaces DEF places
<1> QED
  BY <1>2, <1>5, <1>6

LEMMA FindNone ==
  ASSUME NEW T \in Text, NEW key, Clear(T, Len(T), key)
  PROVE  Find(T, <<Q, key, Q>>, 1) = 0
<1> DEFINE places == {i \in 1..(Len(T) - 2) : T[i] = Q /\ T[i + 1] = key /\ T[i + 2] = Q}
<1>1. places = {}
  BY DEF Clear
<1>2. Find(T, <<Q, key, Q>>, 1) = IF places = {} THEN 0 ELSE Min(places)
  BY FindPlaces
<1> QED
  BY <1>1, <1>2

\* What a field of text begins and ends with.
LEMMA FieldTokens ==
  ASSUME NEW T \in Text, NEW p \in Nat, NEW key \in Token, NEW t \in Text,
         Holds(T, p, StringField(key, t))
  PROVE  /\ T[p + 1] = Q /\ T[p + 2] = key /\ T[p + 3] = Q /\ T[p + 4] = Colon /\ T[p + 5] = Q
         /\ Holds(T, p + 5, t \o <<Q>>)
         /\ p + 6 + Len(t) <= Len(T)
         /\ Len(t) \in Nat /\ Len(T) \in Nat
<1> DEFINE head == <<Q, key, Q, Colon, Q>>
<1>1. head \in Text /\ Len(head) = 5
  <2>1. Q \in Token /\ Colon \in Token
    BY WordsAreTokens DEF Words
  <2> QED
    BY <2>1, SMT DEF Text
<1>2. head[1] = Q /\ head[2] = key /\ head[3] = Q /\ head[4] = Colon /\ head[5] = Q
  OBVIOUS
<1> HIDE DEF head
<1>3. /\ Len(t) \in Nat /\ Len(T) \in Nat /\ <<Q>> \in Text /\ Len(<<Q>>) = 1
      /\ head \o t \in Text /\ t \o <<Q>> \in Text /\ Len(t \o <<Q>>) = Len(t) + 1
  BY <1>1, OneQuote, JoinText DEF Text
<1>4. Holds(T, p, (head \o t) \o <<Q>>)
  BY DEF StringField, head
<1>5. (head \o t) \o <<Q>> = head \o (t \o <<Q>>)
  <2>1. head \in Seq(Token) /\ t \in Seq(Token) /\ <<Q>> \in Seq(Token)
    BY <1>1, <1>3 DEF Text
  <2> QED
    BY <2>1, ConcatAssociative
<1>6. Holds(T, p, head) /\ Holds(T, p + 5, t \o <<Q>>)
  BY <1>1, <1>3, <1>4, <1>5, HoldsParts
<1>7. \A i \in 1..5 : T[p + i] = head[i]
  BY <1>1, <1>6 DEF Holds
<1>8. p + 5 + (Len(t) + 1) <= Len(T)
  BY <1>3, <1>6 DEF Holds
<1> QED
  BY <1>2, <1>3, <1>6, <1>7, <1>8

\* The first field of the name is the one that is taken out, all of it.
LEMMA ExtractsField ==
  ASSUME NEW T \in Text, NEW p \in Nat \ {0}, NEW key \in Token, NEW t \in Text, NEW fallback,
         Clear(T, p, key), T[p] # Q, T[p] # key, Holds(T, p, StringField(key, t)), Wellformed(t)
  PROVE  ExtractString(T, key, fallback) = t
<1>1. /\ T[p + 1] = Q /\ T[p + 2] = key /\ T[p + 3] = Q /\ T[p + 4] = Colon /\ T[p + 5] = Q
      /\ Holds(T, p + 5, t \o <<Q>>)
      /\ p + 6 + Len(t) <= Len(T)
      /\ Len(t) \in Nat /\ Len(T) \in Nat
  BY FieldTokens
<1>2. Find(T, <<Q, key, Q>>, 1) = p + 1
  BY <1>1, FindName
<1>3. Find(T, <<Colon>>, p + 4) = p + 4
  BY <1>1, FindHere
<1>4. ValueOf(T, key) = p + 5
  <2>1. p + 1 # 0 /\ p + 1 + 3 = p + 4 /\ p + 4 # 0 /\ p + 4 + 1 = p + 5
    OBVIOUS
  <2> QED
    BY <1>2, <1>3, <2>1, Zenon DEF ValueOf
<1>5. Find(T, <<Q>>, p + 5) = p + 5
  BY <1>1, FindHere
<1>6. EndOfString(T, p + 5 + 1) = p + 5 + Len(t) + 1
  BY <1>1, EndOfWellformed
<1>7. ExtractString(T, key, fallback) = SubSeq(T, p + 6, p + 5 + Len(t))
  <2>1. /\ p + 5 # 0 /\ p + 5 + 1 = p + 6 /\ ~(p + 5 + Len(t) + 1 > Len(T))
        /\ p + 5 + Len(t) + 1 - 1 = p + 5 + Len(t)
    BY <1>1
  <2> DEFINE quote == p + 5
             end == p + 5 + Len(t) + 1
  <2>2. ExtractString(T, key, fallback) =
          IF quote = 0 \/ end > Len(T) THEN fallback ELSE SubSeq(T, quote + 1, end - 1)
    <3>1. Find(T, <<Q>>, ValueOf(T, key)) = quote /\ EndOfString(T, quote + 1) = end
      BY <1>4, <1>5, <1>6, Zenon
    <3> HIDE DEF quote, end
    <3> QED
      BY <3>1, Zenon DEF ExtractString
  <2> HIDE DEF quote, end
  <2>3. quote # 0 /\ ~(end > Len(T)) /\ quote + 1 = p + 6 /\ end - 1 = p + 5 + Len(t)
    BY <2>1 DEF quote, end
  <2> QED
    BY <2>2, <2>3, Zenon
<1>8. SubSeq(T, p + 6, p + 5 + Len(t)) = t
  <2> DEFINE s == SubSeq(T, p + 6, p + 5 + Len(t))
  <2>1. s \in Text /\ Len(s) = Len(t) /\ \A i \in 1..Len(t) : s[i] = T[p + 5 + i]
    <3>1. p + 6 \in Int /\ p + 5 + Len(t) \in Int /\ \A i \in (p + 6)..(p + 5 + Len(t)) : i \in 1..Len(T)
      BY <1>1
    <3>2. \A i \in (p + 6)..(p + 5 + Len(t)) : T[i] \in Token
      BY <3>1 DEF Text
    <3>3. /\ s \in Seq(Token)
          /\ Len(s) = IF p + 6 <= p + 5 + Len(t) THEN p + 5 + Len(t) - (p + 6) + 1 ELSE 0
          /\ \A i \in 1..(p + 5 + Len(t) - (p + 6) + 1) : s[i] = T[p + 6 + i - 1]
      BY <3>1, <3>2, SubSeqProperties
    <3> HIDE DEF s
    <3>4. p + 5 + Len(t) - (p + 6) + 1 = Len(t)
      BY <1>1
    <3>5. (IF p + 6 <= p + 5 + Len(t) THEN Len(t) ELSE 0) = Len(t)
      BY <1>1
    <3>6. ASSUME NEW i \in 1..Len(t) PROVE s[i] = T[p + 5 + i]
      <4>1. p + 6 + i - 1 = p + 5 + i
        OBVIOUS
      <4>2. s[i] = T[p + 6 + i - 1]
        BY <3>3, <3>4
      <4> QED
        BY <4>1, <4>2
    <3> QED
      BY <3>3, <3>4, <3>5, <3>6 DEF Text
  <2>2. \A i \in 1..Len(t) : T[p + 5 + i] = t[i]
    <3>1. Holds(T, p + 5, t)
      <4>1. p + 5 \in Nat /\ <<Q>> \in Text /\ Holds(T, p + 5, t \o <<Q>>)
        BY <1>1, OneQuote
      <4> QED
        BY <4>1, HoldsParts
    <3> QED
      BY <3>1 DEF Holds
  <2> HIDE DEF s
  <2>3. s = t
    BY <2>1, <2>2, SeqEqual DEF Text
  <2> QED
    BY <2>3 DEF s
<1> QED
  BY <1>7, <1>8

\* A field that is not there.
LEMMA ExtractsNothing ==
  ASSUME NEW T \in Text, NEW key, NEW fallback, Clear(T, Len(T), key)
  PROVE  ExtractString(T, key, fallback) = fallback
<1>1. ValueOf(T, key) = 0
  <2>1. Find(T, <<Colon>>, 0) = 0
    BY DEF Find
  <2> QED
    BY <2>1, FindNone DEF ValueOf
<1>2. Find(T, <<Q>>, 0) = 0
  BY DEF Find
<1> QED
  BY <1>1, <1>2 DEF ExtractString

LEMMA ExtractsNumber ==
  ASSUME NEW T \in Text, NEW p \in Nat \ {0}, NEW key \in Token, NEW number \in Numbers, NEW fallback,
         Clear(T, p, key), T[p] # Q, T[p] # key, Holds(T, p, IntField(key, <<number>>))
  PROVE  ExtractInt(T, key, fallback) = <<number>>
<1> DEFINE head == <<Q, key, Q, Colon>>
<1>0. number \in Token /\ Q \in Token /\ Colon \in Token
  BY WordsAreTokens DEF Words, Numbers
<1>1. head \in Text /\ Len(head) = 4 /\ <<number>> \in Text /\ Len(<<number>>) = 1
  BY <1>0, SMT DEF Text
<1>2. head[1] = Q /\ head[2] = key /\ head[3] = Q /\ head[4] = Colon /\ <<number>>[1] = number
  OBVIOUS
<1> HIDE DEF head
<1>3. Holds(T, p, head) /\ Holds(T, p + 4, <<number>>)
  BY <1>1, HoldsParts DEF IntField, head
<1>4. \A i \in 1..4 : T[p + i] = head[i]
  BY <1>1, <1>3 DEF Holds
<1>5. p + 5 <= Len(T) /\ T[p + 5] = number /\ Len(T) \in Nat
  <2>1. p + 4 + 1 <= Len(T) /\ T[p + 4 + 1] = number
    BY <1>1, <1>2, <1>3 DEF Holds
  <2>2. p + 4 + 1 = p + 5
    OBVIOUS
  <2> QED
    BY <2>1, <2>2 DEF Text
<1>6. T[p + 1] = Q /\ T[p + 2] = key /\ T[p + 3] = Q /\ T[p + 4] = Colon
  BY <1>2, <1>4
<1>7. Find(T, <<Colon>>, p + 4) = p + 4
  <2>1. p + 4 \in 1..Len(T)
    BY <1>5
  <2> QED
    BY <1>6, <2>1, FindHere
<1>10. Find(T, <<Q, key, Q>>, 1) = p + 1
  <2>1. p + 3 <= Len(T)
    BY <1>5
  <2> QED
    BY <1>6, <2>1, FindName
<1>8. ValueOf(T, key) = p + 5
  <2>1. p + 1 # 0 /\ p + 1 + 3 = p + 4 /\ p + 4 # 0 /\ p + 4 + 1 = p + 5
    OBVIOUS
  <2> QED
    BY <1>10, <1>7, <2>1, Zenon DEF ValueOf
<1>9. p + 5 # 0 /\ ~(p + 5 > Len(T))
  BY <1>5
<1> QED
  BY <1>5, <1>8, <1>9, Zenon DEF ExtractInt

-----------------------------------------------------------------------------
(***************************************************************************)
(* Objects: fields between braces, with commas.                            *)
(***************************************************************************)

\* The fields of an object stand one behind the other: field k begins behind
\* at[k], where a brace or a comma is.
Written(T, fields, at) ==
  /\ at \in [1..(Len(fields) + 1) -> Nat \ {0}]
  /\ at[1] = 1
  /\ at[Len(fields) + 1] = Len(T)
  /\ T[Len(T)] = Close
  /\ \A k \in 1..Len(fields) :
       /\ at[k + 1] = at[k] + Len(fields[k]) + 1
       /\ Holds(T, at[k], fields[k])
       /\ T[at[k]] \in {Open, Comma}

\* One token.
LEMMA OneToken ==
  ASSUME NEW x \in Token
  PROVE  <<x>> \in Text /\ Len(<<x>>) = 1 /\ <<x>>[1] = x
BY SMT DEF Text

LEMMA HoldsToken ==
  ASSUME NEW T \in Text, NEW k \in Nat, NEW x \in Token, Holds(T, k, <<x>>)
  PROVE  T[k + 1] = x /\ k + 1 <= Len(T)
BY SMT DEF Holds, Text

LEMMA ObjectWritten ==
  ASSUME NEW fields \in Seq(Text), fields # <<>>
  PROVE  Object(fields) \in Text /\ \E at : Written(Object(fields), fields, at)
<1> DEFINE n == Len(fields)
           g == [i \in DOMAIN fields |-> IF i = 1 THEN fields[i] ELSE <<Comma>> \o fields[i]]
           F1 == FlattenSeq(g)
           T == Object(fields)
<1>1. n \in Nat \ {0} /\ DOMAIN fields = 1..n /\ \A i \in 1..n : fields[i] \in Text /\ Len(fields[i]) \in Nat
  <2>1. \A i \in 1..n : fields[i] \in Text
    BY ElementOfSeq
  <2>2. \A t \in Text : Len(t) \in Nat
    BY DEF Text
  <2> QED
    BY <2>1, <2>2, SMT
<1>2. Open \in Token /\ Close \in Token /\ Comma \in Token
  BY WordsAreTokens DEF Words
<1>3. ASSUME NEW i \in 1..n
      PROVE  /\ g[i] \in Text
             /\ i = 1 => g[i] = fields[i]
             /\ i # 1 => g[i] = <<Comma>> \o fields[i] /\ Len(g[i]) = Len(fields[i]) + 1
  <2>1. <<Comma>> \o fields[i] \in Text /\ Len(<<Comma>> \o fields[i]) = 1 + Len(fields[i])
    <3>1. <<Comma>> \in Text /\ Len(<<Comma>>) = 1
      BY <1>2, OneToken
    <3>2. fields[i] \in Text
      BY <1>1
    <3> QED
      BY <3>1, <3>2, JoinText
  <2>2. g[i] = IF i = 1 THEN fields[i] ELSE <<Comma>> \o fields[i]
    BY <1>1
  <2>3. fields[i] \in Text /\ Len(fields[i]) \in Nat
    BY <1>1
  <2>4. 1 + Len(fields[i]) = Len(fields[i]) + 1
    BY <2>3
  <2> HIDE DEF g
  <2> QED
    BY <2>1, <2>2, <2>3, <2>4
<1>4. g \in Seq(Text) /\ Len(g) = n
  <2>1. g = [i \in 1..n |-> g[i]]
    BY <1>1
  <2> HIDE DEF g
  <2>2. g \in [1..n -> Text]
    BY <1>3, <2>1
  <2> QED
    BY <1>1, <2>2, SMT
<1> HIDE DEF g
<1>5. F1 \in Text /\ \E a : Laid(F1, g, a)
  BY <1>4, FlattenLaid
<1>6. PICK a : Laid(F1, g, a)
  BY <1>5
<1> HIDE DEF F1
<1>7. /\ T \in Text /\ Len(T) = Len(F1) + 2 /\ Len(F1) \in Nat
      /\ Holds(T, 0, <<Open>>) /\ Holds(T, 1, F1) /\ Holds(T, Len(F1) + 1, <<Close>>)
  <2>1. T = <<Open>> \o F1 \o <<Close>>
    BY DEF Object, F1, g
  <2> DEFINE H == <<Open>> \o F1
  <2>2. /\ <<Open>> \in Text /\ Len(<<Open>>) = 1 /\ <<Close>> \in Text /\ Len(<<Close>>) = 1
        /\ H \in Text /\ Len(H) = 1 + Len(F1) /\ Len(F1) \in Nat /\ Holds(H, 0, <<Open>>) /\ Holds(H, 1, F1)
    BY <1>2, <1>5, OneToken, JoinText
  <2> HIDE DEF H
  <2>3. /\ H \o <<Close>> \in Text /\ Len(H \o <<Close>>) = 1 + Len(F1) + 1
        /\ Holds(H \o <<Close>>, 0, H) /\ Holds(H \o <<Close>>, Len(F1) + 1, <<Close>>)
    <3>1. Len(F1) + 1 = Len(H)
      BY <2>2
    <3>2. H \in Text /\ <<Close>> \in Text /\ Len(<<Close>>) = 1
      BY <2>2
    <3>3. /\ H \o <<Close>> \in Text /\ Len(H \o <<Close>>) = Len(H) + 1
          /\ Holds(H \o <<Close>>, 0, H) /\ Holds(H \o <<Close>>, Len(H), <<Close>>)
      BY <3>2, JoinText
    <3> QED
      BY <2>2, <3>1, <3>3
  <2>4. T = H \o <<Close>>
    BY <2>1 DEF H
  <2>5. Holds(T, 0 + 0, <<Open>>) /\ Holds(T, 0 + 1, F1)
    <3>1. H \in Text /\ F1 \in Text /\ <<Open>> \in Text /\ H \o <<Close>> \in Text
      BY <1>5, <2>2, <2>3
    <3>2. Holds(H \o <<Close>>, 0, H) /\ Holds(H, 0, <<Open>>) /\ Holds(H, 1, F1)
      BY <2>2, <2>3
    <3> QED
      BY <2>4, <3>1, <3>2, HoldsIn
  <2> HIDE DEF T
  <2>6. T \in Text /\ Len(T) = 1 + Len(F1) + 1 /\ Holds(T, Len(F1) + 1, <<Close>>)
    BY <2>3, <2>4
  <2>7. 1 + Len(F1) + 1 = Len(F1) + 2 /\ 0 + 0 = 0 /\ 0 + 1 = 1
    BY <2>2
  <2> QED
    BY <1>5, <2>2, <2>5, <2>6, <2>7
<1> HIDE DEF T
<1>8. /\ T[1] = Open /\ T[Len(T)] = Close
      /\ a \in [1..(n + 1) -> Nat] /\ a[1] = 0 /\ a[n + 1] = Len(F1)
      /\ \A k \in 1..n : a[k + 1] = a[k] + Len(g[k]) /\ Holds(F1, a[k], g[k])
  <2>1. T[0 + 1] = Open /\ T[Len(F1) + 1 + 1] = Close /\ Len(F1) + 1 + 1 = Len(T) /\ 0 + 1 = 1
    <3>1. T[0 + 1] = Open
      BY <1>2, <1>7, HoldsToken
    <3>2. T[Len(F1) + 1 + 1] = Close
      <4>1. Len(F1) + 1 \in Nat /\ T \in Text /\ Close \in Token /\ Holds(T, Len(F1) + 1, <<Close>>)
        BY <1>2, <1>7
      <4> QED
        BY <4>1, HoldsToken
    <3>3. Len(F1) + 1 + 1 = Len(T) /\ 0 + 1 = 1
      BY <1>7
    <3> QED
      BY <3>1, <3>2, <3>3
  <2>2. T[1] = Open /\ T[Len(T)] = Close
    BY <2>1
  <2>3. /\ a \in [1..(Len(g) + 1) -> Nat] /\ a[1] = 0 /\ a[Len(g) + 1] = Len(F1)
        /\ \A k \in 1..Len(g) : a[k + 1] = a[k] + Len(g[k]) /\ Holds(F1, a[k], g[k])
    BY <1>6 DEF Laid
  <2> QED
    BY <1>4, <2>2, <2>3
<1> DEFINE at == [k \in 1..(n + 1) |-> IF k = 1 THEN 1 ELSE a[k] + 2]
<1>9. \A k \in 1..n : a[k] \in Nat /\ a[k + 1] \in Nat
  <2>1. \A k \in 1..n : k \in 1..(n + 1) /\ k + 1 \in 1..(n + 1)
    BY <1>1
  <2>2. a \in [1..(n + 1) -> Nat]
    BY <1>8
  <2> QED
    BY <2>1, <2>2
<1>10. /\ at \in [1..(n + 1) -> Nat \ {0}] /\ at[1] = 1 /\ at[n + 1] = Len(T)
  <2>1. \A k \in 1..(n + 1) : a[k] + 2 \in Nat \ {0}
    <3>1. \A k \in 1..(n + 1) : a[k] \in Nat
      BY <1>8
    <3> QED
      BY <3>1
  <2>2. at[n + 1] = a[n + 1] + 2 /\ at[1] = 1
    BY <1>1
  <2>3. a[n + 1] + 2 = Len(T)
    BY <1>7, <1>8
  <2>4. at \in [1..(n + 1) -> Nat \ {0}]
    BY <2>1
  <2> HIDE DEF at
  <2> QED
    BY <2>2, <2>3, <2>4
<1>11. ASSUME NEW k \in 1..n
       PROVE  /\ at[k + 1] = at[k] + Len(fields[k]) + 1
              /\ Holds(T, at[k], fields[k])
              /\ T[at[k]] \in {Open, Comma}
  <2>1. at[k + 1] = a[k + 1] + 2 /\ k + 1 # 1
    BY <1>1
  <2>2. Holds(T, 1 + a[k], g[k]) /\ a[k] \in Nat
    BY <1>3, <1>5, <1>7, <1>8, <1>9, HoldsIn
  <2>3. CASE k = 1
    <3>1. at[k] = 1
      BY <1>1, <2>3
    <3>2. g[k] = fields[k] /\ Len(fields[k]) \in Nat
      BY <1>1, <1>3, <2>3
    <3>3. a[k] = 0 /\ a[k + 1] = a[k] + Len(g[k])
      BY <1>8, <2>3
    <3>4. T[1] = Open
      BY <1>8
    <3> HIDE DEF at
    <3>5. at[k + 1] = at[k] + Len(fields[k]) + 1
      BY <2>1, <3>1, <3>2, <3>3
    <3>6. Holds(T, at[k], fields[k])
      BY <2>2, <3>1, <3>2, <3>3
    <3> QED
      BY <3>1, <3>4, <3>5, <3>6
  <2>4. CASE k # 1
    <3>1. at[k] = a[k] + 2
      BY <1>1, <2>4
    <3>2. g[k] = <<Comma>> \o fields[k] /\ Len(g[k]) = Len(fields[k]) + 1
      BY <1>3, <2>4
    <3>3. <<Comma>> \in Text /\ Len(<<Comma>>) = 1
      BY <1>2, OneToken
    <3>4. Holds(T, 1 + a[k], <<Comma>>) /\ Holds(T, 1 + a[k] + 1, fields[k])
      <4>1. Holds(T, 1 + a[k], <<Comma>> \o fields[k]) /\ 1 + a[k] \in Nat
        BY <2>2, <3>2
      <4>2. T \in Text /\ fields[k] \in Text
        BY <1>1, <1>7
      <4> QED
        BY <3>3, <4>1, <4>2, HoldsParts
    <3>5. T[1 + a[k] + 1] = Comma
      <4>1. 1 + a[k] \in Nat
        BY <2>2
      <4> QED
        BY <1>2, <1>7, <3>4, <4>1, HoldsToken
    <3>6. 1 + a[k] + 1 = a[k] + 2
      BY <2>2
    <3>7. at[k + 1] = at[k] + Len(fields[k]) + 1
      <4>1. a[k + 1] = a[k] + Len(g[k]) /\ a[k] \in Nat /\ Len(fields[k]) \in Nat
        BY <1>1, <1>8, <2>2
      <4>2. Len(g[k]) = Len(fields[k]) + 1
        BY <3>2
      <4> HIDE DEF at
      <4>3. at[k + 1] = a[k] + (Len(fields[k]) + 1) + 2
        BY <2>1, <4>1, <4>2
      <4> QED
        BY <3>1, <4>1, <4>3
    <3> HIDE DEF at
    <3> QED
      BY <3>1, <3>4, <3>5, <3>6, <3>7
  <2> QED
    BY <2>3, <2>4
<1> HIDE DEF at
<1>12. Written(T, fields, at)
  BY <1>8, <1>10, <1>11 DEF Written
<1> QED
  BY <1>7, <1>12 DEF T

\* Three tokens in a row, none of them on a border, lie within one field.
LEMMA BetweenFields ==
  ASSUME NEW a \in Nat \ {0}, NEW l \in Nat, NEW b, b = a + l + 1,
         NEW i \in 1..(b - 2), i \notin 1..(a - 2), i + 1 # a, i # a, i + 2 # b
  PROVE  i > a /\ i + 2 < b
OBVIOUS

\* Nothing between the beginnings of the fields looks like the key, if there
\* is nothing in the fields.
LEMMA ClearUpTo ==
  ASSUME NEW T \in Text, NEW fields \in Seq(Text), NEW at, Written(T, fields, at),
         NEW key \in Token, key \notin {Open, Comma, Close}, NEW n \in 1..(Len(fields) + 1),
         \A i \in 1..(n - 1) : Clear(fields[i], Len(fields[i]), key)
  PROVE  Clear(T, at[n], key)
<1> DEFINE Good(k) == Clear(T, at[k], key)
           S == {k \in 1..n : ~Good(k)}
<1>1. Len(fields) \in Nat /\ n \in Nat /\ at \in [1..(Len(fields) + 1) -> Nat \ {0}]
  <2>1. Len(fields) \in Nat
    OBVIOUS
  <2>2. n \in Nat
    BY <2>1
  <2>3. at \in [1..(Len(fields) + 1) -> Nat \ {0}]
    BY DEF Written
  <2> QED
    BY <2>1, <2>2, <2>3
<1>2. Good(1)
  <2>1. at[1] = 1
    BY DEF Written
  <2> QED
    BY <2>1 DEF Clear
<1>3. ASSUME NEW k \in 1..(n - 1), Good(k) PROVE Good(k + 1)
  <2>1. /\ k \in 1..Len(fields) /\ at[k] \in Nat \ {0}
        /\ at[k + 1] = at[k] + Len(fields[k]) + 1
        /\ Holds(T, at[k], fields[k])
        /\ T[at[k]] \in {Open, Comma}
    <3>1. k \in 1..Len(fields) /\ k \in 1..(Len(fields) + 1)
      BY <1>1
    <3>2. at[k] \in Nat \ {0}
      BY <1>1, <3>1
    <3> QED
      BY <3>1, <3>2 DEF Written
  <2>2. T[at[k + 1]] \in {Open, Comma, Close}
    <3>1. CASE k + 1 \in 1..Len(fields)
      BY <3>1 DEF Written
    <3>2. CASE k + 1 = Len(fields) + 1
      BY <3>2 DEF Written
    <3>3. k + 1 \in 1..Len(fields) \/ k + 1 = Len(fields) + 1
      BY <1>1, <2>1
    <3> QED
      BY <3>1, <3>2, <3>3
  <2>3. Len(fields[k]) \in Nat
    <3>1. fields[k] \in Text
      BY <2>1, ElementOfSeq
    <3> QED
      BY <3>1 DEF Text
  <2>4. \A x \in {Open, Comma, Close} : x # Q /\ x # key
    BY DEF Q, Open, Comma, Close
  <2>5. \A i \in 1..(at[k] - 2) : ~(T[i] = Q /\ T[i + 1] = key /\ T[i + 2] = Q)
    BY <1>3 DEF Clear
  <2>6. \A i \in 1..(Len(fields[k]) - 2) :
          ~(fields[k][i] = Q /\ fields[k][i + 1] = key /\ fields[k][i + 2] = Q)
    BY DEF Clear
  <2>7. \A i \in 1..Len(fields[k]) : T[at[k] + i] = fields[k][i]
    BY <2>1 DEF Holds
  <2> SUFFICES ASSUME NEW i \in 1..(at[k + 1] - 2), T[i] = Q, T[i + 1] = key, T[i + 2] = Q
               PROVE  FALSE
    BY DEF Clear
  <2>8. i \notin 1..(at[k] - 2)
    BY <2>5
  <2>9. i + 1 # at[k] /\ i # at[k] /\ i + 2 # at[k + 1]
    BY <2>1, <2>2, <2>4
  <2>10. i > at[k] /\ i + 2 < at[k + 1]
    <3>1. at[k] \in Nat \ {0} /\ at[k + 1] = at[k] + Len(fields[k]) + 1
      BY <2>1
    <3> QED
      BY <2>3, <2>8, <2>9, <3>1, BetweenFields
  <2> DEFINE j == i - at[k]
  <2>11. j \in 1..(Len(fields[k]) - 2) /\ j + 1 \in 1..Len(fields[k]) /\ j + 2 \in 1..Len(fields[k])
         /\ j \in 1..Len(fields[k])
         /\ at[k] + j = i /\ at[k] + (j + 1) = i + 1 /\ at[k] + (j + 2) = i + 2
    <3>1. at[k] \in Nat \ {0} /\ at[k + 1] = at[k] + Len(fields[k]) + 1
      BY <2>1
    <3>2. \A a, len \in Nat : i > a /\ i + 2 < a + len + 1 =>
            /\ i - a \in 1..(len - 2) /\ i - a + 1 \in 1..len /\ i - a + 2 \in 1..len
            /\ i - a \in 1..len
            /\ a + (i - a) = i /\ a + (i - a + 1) = i + 1 /\ a + (i - a + 2) = i + 2
      OBVIOUS
    <3> QED
      BY <2>3, <2>10, <3>1, <3>2
  <2> HIDE DEF j
  <2>12. fields[k][j] = Q /\ fields[k][j + 1] = key /\ fields[k][j + 2] = Q
    BY <2>7, <2>11
  <2> QED
    BY <2>6, <2>11, <2>12
<1>4. \A k \in 1..n : Good(k)
  <2> HIDE DEF Good
  <2>1. SUFFICES ASSUME S # {} PROVE FALSE
    OBVIOUS
  <2>2. PICK m \in S : \A k \in S : m <= k
    <3>1. S \subseteq Nat
      OBVIOUS
    <3> HIDE DEF S
    <3> QED
      BY <2>1, <3>1, LeastNumber
  <2>3. m - 1 \in 1..(n - 1) /\ m - 1 + 1 = m /\ ~(m <= m - 1) /\ m - 1 \in 1..n
    BY <1>1, <1>2
  <2>4. Good(m - 1)
    BY <2>2, <2>3
  <2> QED
    BY <1>3, <2>3, <2>4
<1> QED
  BY <1>1, <1>4

\* A quote in a string has a backslash in front.
LEMMA QuoteIsHidden ==
  ASSUME NEW t \in Text, Wellformed(t), NEW i \in 1..Len(t), t[i] = Q
  PROVE  i - 1 \in 1..Len(t) /\ t[i - 1] = BS
<1>1. PICK V \in SUBSET (1..(Len(t) + 1)) :
        \A j \in 1..Len(t) : (j \in V => t[j] # Q) /\ (j \notin V => j - 1 \in V /\ t[j - 1] = BS)
  BY DEF Wellformed
<1>2. i - 1 \in V /\ t[i - 1] = BS
  BY <1>1
<1> QED
  BY <1>2 DEF Text

\* A field of another name hides no key, unless its text ends in it.
LEMMA FieldIsClear ==
  ASSUME NEW k2 \in Token, NEW t \in Text, Wellformed(t), NEW key \in Token, k2 \notin {Q, key},
         key \notin {Q, BS, Colon}, ~EndsInKey(t, {key})
  PROVE  Clear(StringField(k2, t), Len(StringField(k2, t)), key)
<1> DEFINE f == StringField(k2, t)
<1>0. f \in Text /\ Len(f) = Len(t) + 6 /\ Len(t) \in Nat
  <2> DEFINE head == <<Q, k2, Q, Colon, Q>>
  <2>1. head \in Text /\ Len(head) = 5
    <3>1. Q \in Token /\ Colon \in Token
      BY WordsAreTokens DEF Words
    <3> QED
      BY <3>1, SMT DEF Text
  <2> HIDE DEF head
  <2>2. head \o t \in Text /\ Len(head \o t) = 5 + Len(t) /\ Len(t) \in Nat
    BY <2>1, JoinText
  <2>3. (head \o t) \o <<Q>> \in Text /\ Len((head \o t) \o <<Q>>) = 5 + Len(t) + 1
    BY <2>2, OneQuote, JoinText
  <2> QED
    BY <2>2, <2>3 DEF StringField, head
<1> HIDE DEF f
<1>1. Holds(f, 0, f)
  BY <1>0 DEF Holds
<1>2. /\ f[1] = Q /\ f[2] = k2 /\ f[3] = Q /\ f[4] = Colon /\ f[5] = Q
      /\ Holds(f, 5, t \o <<Q>>)
  <2>1. /\ f[0 + 1] = Q /\ f[0 + 2] = k2 /\ f[0 + 3] = Q /\ f[0 + 4] = Colon /\ f[0 + 5] = Q
        /\ Holds(f, 0 + 5, t \o <<Q>>)
    <3>1. Holds(f, 0, StringField(k2, t))
      BY <1>1 DEF f
    <3> QED
      BY <1>0, <3>1, FieldTokens
  <2> QED
    BY <2>1
<1>3. Holds(f, 5, t)
  BY <1>0, <1>2, OneQuote, HoldsParts
<1>4. \A j \in 1..Len(t) : f[5 + j] = t[j]
  BY <1>3 DEF Holds
<1> SUFFICES ASSUME NEW i \in 1..(Len(f) - 2), f[i] = Q, f[i + 1] = key, f[i + 2] = Q
             PROVE  FALSE
  BY DEF Clear, f
<1>5. Colon # Q
  BY DEF Q, Colon
<1>6. i # 1 /\ i # 2 /\ i # 3 /\ i # 4
  BY <1>2, <1>5
<1> DEFINE j == i - 5
<1>7. j \in Nat /\ j + 2 <= Len(t) + 1 /\ i + 1 = 5 + (j + 1) /\ i + 2 = 5 + (j + 2) /\ i = 5 + j
  BY <1>0, <1>6
<1> HIDE DEF j
<1>8. t[j + 1] = key
  <2>1. j + 1 \in 1..Len(t)
    BY <1>0, <1>7
  <2> QED
    BY <1>4, <1>7, <2>1
<1>9. CASE j + 2 <= Len(t)
  <2>1. j + 2 \in 1..Len(t) /\ j + 2 - 1 = j + 1
    BY <1>0, <1>7, <1>9
  <2>2. t[j + 2] = Q
    BY <1>4, <1>7, <2>1
  <2>3. t[j + 1] = BS
    <3> DEFINE k == j + 2
    <3>1. k \in 1..Len(t) /\ t[k] = Q /\ k - 1 = j + 1
      BY <1>7, <2>1, <2>2
    <3> HIDE DEF k
    <3>2. t[k - 1] = BS
      BY <3>1, QuoteIsHidden
    <3> QED
      BY <3>1, <3>2
  <2> QED
    BY <1>8, <2>3
<1>10. CASE j + 2 = Len(t) + 1
  <2>1. Len(t) = j + 1 /\ t # <<>> /\ Last(t) = key
    BY <1>0, <1>7, <1>8, <1>10 DEF Last
  <2>2. Len(t) = 1 \/ t[Len(t) - 1] = Q
    <3>1. j # 0 => j \in 1..Len(t) /\ Len(t) - 1 = j
      BY <1>7, <2>1
    <3> QED
      BY <1>4, <1>7, <2>1, <3>1
  <2> QED
    BY <2>1, <2>2 DEF EndsInKey
<1> QED
  BY <1>0, <1>7, <1>9, <1>10

LEMMA NumberIsClear ==
  ASSUME NEW k2 \in Token, NEW x \in Token, NEW key, k2 \notin {Q, key}, key # Colon
  PROVE  Clear(IntField(k2, <<x>>), Len(IntField(k2, <<x>>)), key)
<1> DEFINE f == IntField(k2, <<x>>)
<1>1. Q \in Token /\ Colon \in Token
  BY WordsAreTokens DEF Words
<1>2. Len(f) = 5 /\ f[1] = Q /\ f[2] = k2 /\ f[4] = Colon
  BY <1>1, SMT DEF IntField
<1> HIDE DEF f
<1>3. \A i \in 1..(5 - 2) : i = 1 \/ i = 2 \/ i = 3
  OBVIOUS
<1>4. 1 + 1 = 2 /\ 3 + 1 = 4
  OBVIOUS
<1> QED
  BY <1>2, <1>3, <1>4 DEF Clear, f

LEMMA GreatestIsMax ==
  ASSUME NEW S, S \subseteq Nat, NEW x \in S, \A y \in S : y <= x
  PROVE  Max(S) = x
<1>1. \A y \in S : (\A z \in S : y >= z) => y = x
  <2> TAKE y \in S
  <2> HAVE \A z \in S : y >= z
  <2>1. y <= x /\ y >= x /\ x \in Nat /\ y \in Nat
    OBVIOUS
  <2> QED
    BY <2>1
<1>2. \A z \in S : x >= z
  OBVIOUS
<1> QED
  BY <1>1, <1>2 DEF Max

LEMMA AttachWritten ==
  ASSUME NEW T \in Text, NEW fields \in Seq(Text), fields # <<>>, NEW extra \in Seq(Text),
         \E a : Written(T, fields, a)
  PROVE  /\ Attach(T, extra) \in Text
         /\ \E a : Written(Attach(T, extra), fields \o extra, a)
<1> DEFINE n == Len(fields)
           m == Len(extra)
           h == [i \in DOMAIN extra |-> <<Comma>> \o extra[i]]
           F1 == FlattenSeq(h)
           front == SubSeq(T, 1, Len(T) - 1)
           end == SubSeq(T, Len(T), Len(T))
           U == Attach(T, extra)
           all == fields \o extra
<1>1. n \in Nat \ {0} /\ m \in Nat /\ Len(T) \in Nat /\ DOMAIN extra = 1..m /\ DOMAIN T = 1..Len(T)
  <2>1. n \in Nat /\ n # 0 /\ m \in Nat /\ DOMAIN extra = 1..m
    OBVIOUS
  <2>2. Len(T) \in Nat /\ DOMAIN T = 1..Len(T)
    BY DEF Text
  <2> QED
    BY <2>1, <2>2
<1>2. \A t \in Text : Len(t) \in Nat
  BY DEF Text
<1>3. \A i \in 1..n : fields[i] \in Text /\ Len(fields[i]) \in Nat
  <2> TAKE i \in 1..n
  <2>1. fields[i] \in Text
    BY ElementOfSeq
  <2> QED
    BY <1>2, <2>1
<1>4. Comma \in Token /\ Close \in Token
  BY WordsAreTokens DEF Words
<1>5. <<Comma>> \in Text /\ Len(<<Comma>>) = 1
  BY <1>4, OneToken
<1>6. ASSUME NEW i \in 1..m
      PROVE  /\ extra[i] \in Text /\ Len(extra[i]) \in Nat /\ h[i] \in Text
             /\ h[i] = <<Comma>> \o extra[i] /\ Len(h[i]) = Len(extra[i]) + 1
  <2>1. extra[i] \in Text
    BY ElementOfSeq
  <2>2. <<Comma>> \o extra[i] \in Text /\ Len(<<Comma>> \o extra[i]) = 1 + Len(extra[i])
    BY <1>5, <2>1, JoinText
  <2>3. h[i] = <<Comma>> \o extra[i]
    BY <1>1
  <2>4. Len(extra[i]) \in Nat /\ 1 + Len(extra[i]) = Len(extra[i]) + 1
    BY <1>2, <2>1
  <2> HIDE DEF h
  <2> QED
    BY <2>1, <2>2, <2>3, <2>4
<1>7. h \in Seq(Text) /\ Len(h) = m
  <2>1. h = [i \in 1..m |-> h[i]]
    BY <1>1
  <2> HIDE DEF h
  <2>2. h \in [1..m -> Text]
    BY <1>6, <2>1
  <2> QED
    BY <1>1, <2>2, SMT
<1> HIDE DEF h
<1>8. F1 \in Text /\ Len(F1) \in Nat /\ \E b : Laid(F1, h, b)
  BY <1>2, <1>7, FlattenLaid
<1>9. PICK b : Laid(F1, h, b)
  BY <1>8
<1>10. PICK at : Written(T, fields, at)
  OBVIOUS
<1>11. /\ at \in [1..(n + 1) -> Nat \ {0}] /\ at[1] = 1 /\ at[n + 1] = Len(T) /\ T[Len(T)] = Close
       /\ \A k \in 1..n : /\ at[k + 1] = at[k] + Len(fields[k]) + 1
                          /\ Holds(T, at[k], fields[k])
                          /\ T[at[k]] \in {Open, Comma}
  BY <1>10 DEF Written
<1>12. /\ b \in [1..(m + 1) -> Nat] /\ b[1] = 0 /\ b[m + 1] = Len(F1)
       /\ \A k \in 1..m : b[k + 1] = b[k] + Len(h[k]) /\ Holds(F1, b[k], h[k])
  BY <1>7, <1>9 DEF Laid
<1> HIDE DEF F1
<1>13. Len(T) \in Nat \ {0}
  <2>1. at[n + 1] \in Nat \ {0}
    BY <1>1, <1>11
  <2> QED
    BY <1>11, <2>1
<1>14. Max({i \in DOMAIN T : T[i] = Close}) = Len(T)
  <2> DEFINE S == {i \in DOMAIN T : T[i] = Close}
  <2>1. S \subseteq Nat /\ Len(T) \in S /\ \A y \in S : y <= Len(T)
    BY <1>1, <1>11, <1>13
  <2> HIDE DEF S
  <2> QED
    BY <2>1, GreatestIsMax DEF S
<1>15. U = (front \o F1) \o end
  BY <1>14 DEF Attach, F1, h
<1>16. /\ front \in Text /\ Len(front) = Len(T) - 1 /\ \A i \in 1..(Len(T) - 1) : front[i] = T[i]
       /\ end \in Text /\ Len(end) = 1 /\ end[1] = Close
  <2>0. T \in Seq(Token) /\ 1 \in 1..(Len(T) + 1) /\ Len(T) - 1 \in 0..Len(T)
        /\ 1 .. Len(T) - 1 \subseteq DOMAIN T
    BY <1>1, <1>13 DEF Text
  <2>1. front \in Text /\ Len(front) = Len(T) - 1 /\ \A i \in 1..(Len(T) - 1) : front[i] = T[i]
    <3>1. front \in Text /\ Len(front) = (IF 1 <= Len(T) - 1 THEN (Len(T) - 1) - 1 + 1 ELSE 0)
      BY <1>13, <2>0, SubSeqProperties DEF Text
    <3>2. \A i \in 1..(Len(T) - 1 - 1 + 1) : front[i] = T[1 + i - 1]
      BY <1>13, <2>0, SubSeqProperties
    <3> HIDE DEF front
    <3>3. ASSUME NEW i \in 1..(Len(T) - 1) PROVE front[i] = T[i]
      <4>1. i \in 1..(Len(T) - 1 - 1 + 1) /\ 1 + i - 1 = i
        BY <1>13
      <4>2. front[i] = T[1 + i - 1]
        BY <3>2, <4>1
      <4> QED
        BY <4>1, <4>2
    <3>4. Len(front) = Len(T) - 1
      <4>1. \A k \in Nat \ {0} : (IF 1 <= k - 1 THEN (k - 1) - 1 + 1 ELSE 0) = k - 1
        OBVIOUS
      <4>2. Len(front) = (IF 1 <= Len(T) - 1 THEN (Len(T) - 1) - 1 + 1 ELSE 0)
        BY <3>1
      <4> QED
        BY <1>13, <4>1, <4>2
    <3> QED
      BY <3>1, <3>3, <3>4
  <2>2. end \in Text /\ Len(end) = 1 /\ end[1] = T[Len(T)]
    BY <1>13, SMT DEF Text
  <2> QED
    BY <1>11, <2>1, <2>2
<1> HIDE DEF front, end, U
<1>17. /\ U \in Text /\ Len(U) = Len(T) + Len(F1)
       /\ Holds(U, 0, front) /\ Holds(U, Len(T) - 1, F1) /\ U[Len(U)] = Close
  <2> DEFINE H == front \o F1
  <2>1. /\ H \in Text /\ Len(H) = Len(T) - 1 + Len(F1)
        /\ Holds(H, 0, front) /\ Holds(H, Len(T) - 1, F1)
    <3>1. front \in Text /\ Len(front) = Len(T) - 1
      BY <1>16
    <3>2. F1 \in Text
      BY <1>8
    <3>3. /\ H \in Text /\ Len(H) = Len(front) + Len(F1)
          /\ Holds(H, 0, front) /\ Holds(H, Len(front), F1)
      BY <3>1, <3>2, JoinText
    <3> QED
      BY <3>1, <3>3
  <2>2. U = H \o end
    BY <1>15
  <2> HIDE DEF H
  <2>3. U \in Text /\ Len(U) = Len(H) + 1 /\ Holds(U, 0, H) /\ Holds(U, Len(H), end)
    <3>1. H \in Text /\ end \in Text /\ Len(end) = 1
      BY <1>16, <2>1
    <3>2. /\ H \o end \in Text /\ Len(H \o end) = Len(H) + Len(end)
          /\ Holds(H \o end, 0, H) /\ Holds(H \o end, Len(H), end)
      BY <3>1, JoinText
    <3> QED
      BY <2>2, <3>1, <3>2
  <2>4. Len(U) = Len(T) + Len(F1) /\ Len(T) - 1 \in Nat
    BY <1>8, <1>13, <2>1, <2>3
  <2>5. Holds(U, 0 + 0, front) /\ Holds(U, 0 + (Len(T) - 1), F1)
    BY <1>8, <1>16, <2>1, <2>3, <2>4, HoldsIn
  <2>6. U[Len(H) + 1] = end[1]
    BY <1>16, <2>3 DEF Holds
  <2>7. 0 + 0 = 0 /\ 0 + (Len(T) - 1) = Len(T) - 1
    BY <1>13
  <2> QED
    BY <1>16, <2>3, <2>4, <2>5, <2>6, <2>7
<1>18. \A i \in 1..(Len(T) - 1) : U[i] = T[i]
  <2>1. \A i \in 1..(Len(T) - 1) : U[0 + i] = front[i]
    BY <1>16, <1>17 DEF Holds
  <2> QED
    BY <1>13, <1>16, <2>1
<1> DEFINE at2 == [k \in 1..(n + m + 1) |-> IF k <= n THEN at[k] ELSE Len(T) + b[k - n]]
<1>19. /\ all \in Seq(Text) /\ Len(all) = n + m
       /\ \A k \in 1..n : all[k] = fields[k]
       /\ \A k \in 1..m : all[n + k] = extra[k]
  BY SMT
<1> HIDE DEF all, n, m
<1>20. ASSUME NEW k \in 1..n
       PROVE  /\ at2[k] = at[k] /\ at2[k + 1] = at[k + 1]
              /\ at[k] \in Nat \ {0} /\ at[k + 1] \in Nat \ {0} /\ at[k + 1] <= Len(T)
  <2>1. k \in 1..(n + m + 1) /\ k + 1 \in 1..(n + m + 1) /\ k <= n /\ k \in 1..(n + 1) /\ k + 1 \in 1..(n + 1)
    BY <1>1
  <2>2. at2[k] = at[k] /\ at[k] \in Nat \ {0} /\ at[k + 1] \in Nat \ {0}
    BY <1>11, <2>1
  <2>3. CASE k = n
    <3>1. n + 1 - n = 1 /\ ~(n + 1 <= n)
      BY <1>1
    <3>2. at2[n + 1] = Len(T) + b[1]
      BY <2>1, <2>3, <3>1
    <3> QED
      BY <1>11, <1>12, <1>13, <2>2, <2>3, <3>2
  <2>4. CASE k # n
    <3>1. k + 1 <= n /\ k + 1 \in 1..n
      BY <1>1, <2>4
    <3>2. at2[k + 1] = at[k + 1]
      BY <2>1, <3>1
    <3>3. at[k + 1] + Len(fields[k + 1]) <= Len(T) /\ Len(fields[k + 1]) \in Nat
      BY <1>3, <1>11, <3>1 DEF Holds, n
    <3> QED
      BY <1>13, <2>2, <3>2, <3>3
  <2> QED
    BY <2>3, <2>4
<1>21. ASSUME NEW j \in 1..(m + 1) PROVE at2[n + j] = Len(T) + b[j] /\ b[j] \in Nat
  <2> DEFINE k == n + j
  <2>1. k \in 1..(n + m + 1) /\ ~(k <= n) /\ k - n = j
    BY <1>1
  <2> HIDE DEF k
  <2>2. at2[k] = Len(T) + b[k - n]
    BY <2>1
  <2>3. b[j] \in Nat
    BY <1>12
  <2> HIDE DEF at2
  <2> QED
    BY <2>1, <2>2, <2>3 DEF k
<1>22. at2 \in [1..(n + m + 1) -> Nat \ {0}]
  <2>1. ASSUME NEW k \in 1..(n + m + 1) PROVE at2[k] \in Nat \ {0}
    <3>1. CASE k \in 1..n
      BY <1>20, <3>1
    <3>2. CASE k \notin 1..n
      <4>1. k - n \in 1..(m + 1) /\ n + (k - n) = k
        BY <1>1, <3>2
      <4>2. at2[n + (k - n)] = Len(T) + b[k - n] /\ b[k - n] \in Nat
        BY <1>21, <4>1
      <4> HIDE DEF at2
      <4> QED
        BY <1>13, <4>1, <4>2
    <3> QED
      BY <3>1, <3>2
  <2>2. at2 = [k \in 1..(n + m + 1) |-> at2[k]]
    OBVIOUS
  <2> HIDE DEF at2
  <2> QED
    BY <2>1, <2>2
<1> HIDE DEF at2
<1>23. at2[1] = 1 /\ at2[n + m + 1] = Len(U)
  <2>1. 1 \in 1..n /\ m + 1 \in 1..(m + 1) /\ n + (m + 1) = n + m + 1
    BY <1>1
  <2>2. at2[1] = at[1] /\ at2[n + (m + 1)] = Len(T) + b[m + 1]
    BY <1>20, <1>21, <2>1
  <2> QED
    BY <1>11, <1>12, <1>17, <2>1, <2>2
<1>24. ASSUME NEW k \in 1..n
       PROVE  /\ at2[k + 1] = at2[k] + Len(all[k]) + 1
              /\ Holds(U, at2[k], all[k])
              /\ U[at2[k]] \in {Open, Comma}
  <2>1. /\ at[k + 1] = at[k] + Len(fields[k]) + 1 /\ Holds(T, at[k], fields[k])
        /\ T[at[k]] \in {Open, Comma}
    BY <1>11
  <2>2. at2[k] = at[k] /\ at2[k + 1] = at[k + 1] /\ all[k] = fields[k]
    BY <1>19, <1>20
  <2>3. at[k] \in Nat \ {0} /\ at[k + 1] <= Len(T) /\ Len(fields[k]) \in Nat
    BY <1>3, <1>20 DEF n
  <2>4. at[k] \in 1..(Len(T) - 1)
    <3>1. at[k] + Len(fields[k]) + 1 <= Len(T)
      BY <2>1, <2>3
    <3> QED
      BY <1>13, <2>3, <3>1
  <2>5. ASSUME NEW i \in 1..Len(fields[k]) PROVE U[at[k] + i] = fields[k][i]
    <3>1. at[k] + Len(fields[k]) + 1 <= Len(T)
      BY <2>1, <2>3
    <3>2. at[k] + i \in 1..(Len(T) - 1)
      BY <1>13, <2>3, <3>1
    <3> QED
      BY <1>18, <2>1, <3>2 DEF Holds
  <2>6. at[k] + Len(fields[k]) <= Len(U)
    <3>1. at[k] + Len(fields[k]) + 1 <= Len(T)
      BY <2>1, <2>3
    <3> QED
      BY <1>8, <1>13, <1>17, <2>3, <3>1
  <2>7. Holds(U, at[k], fields[k])
    BY <2>5, <2>6 DEF Holds
  <2>8. U[at[k]] \in {Open, Comma}
    BY <1>18, <2>1, <2>4
  <2> QED
    BY <2>1, <2>2, <2>7, <2>8
<1>25. ASSUME NEW j \in 1..m
       PROVE  /\ at2[n + j + 1] = at2[n + j] + Len(all[n + j]) + 1
              /\ Holds(U, at2[n + j], all[n + j])
              /\ U[at2[n + j]] \in {Open, Comma}
  <2>1. j \in 1..(m + 1) /\ j + 1 \in 1..(m + 1) /\ n + (j + 1) = n + j + 1
    BY <1>1
  <2>2. at2[n + j] = Len(T) + b[j] /\ b[j] \in Nat
    BY <1>21, <2>1
  <2>3. at2[n + (j + 1)] = Len(T) + b[j + 1]
    BY <1>21, <2>1
  <2>4. b[j + 1] = b[j] + Len(h[j]) /\ Holds(F1, b[j], h[j])
    BY <1>12
  <2>5. /\ extra[j] \in Text /\ Len(extra[j]) \in Nat /\ h[j] \in Text
        /\ h[j] = <<Comma>> \o extra[j] /\ Len(h[j]) = Len(extra[j]) + 1
    BY <1>6 DEF m
  <2>6. all[n + j] = extra[j]
    BY <1>19
  <2>7. at2[n + j + 1] = at2[n + j] + Len(extra[j]) + 1
    <3>1. b[j + 1] = b[j] + (Len(extra[j]) + 1) /\ Len(extra[j]) \in Nat
      BY <2>4, <2>5
    <3>2. at2[n + j + 1] = Len(T) + (b[j] + (Len(extra[j]) + 1))
      BY <2>1, <2>3, <3>1
    <3>3. \A a1, a2, a3 \in Nat : a1 + (a2 + (a3 + 1)) = a1 + a2 + a3 + 1
      OBVIOUS
    <3>4. Len(T) + (b[j] + (Len(extra[j]) + 1)) = Len(T) + b[j] + Len(extra[j]) + 1
      BY <1>1, <2>2, <3>1, <3>3
    <3> QED
      BY <2>2, <3>2, <3>4
  <2> DEFINE p == Len(T) - 1 + b[j]
  <2>8. p \in Nat /\ p + 1 = Len(T) + b[j]
    BY <1>13, <2>2
  <2>9. Holds(U, p, h[j])
    <3>1. Len(T) - 1 \in Nat
      BY <1>13
    <3> QED
      BY <1>8, <1>17, <2>2, <2>4, <2>5, <3>1, HoldsIn
  <2> HIDE DEF p
  <2>10. Holds(U, p, <<Comma>> \o extra[j])
    BY <2>5, <2>9
  <2>11. Holds(U, p, <<Comma>>) /\ Holds(U, p + 1, extra[j])
    BY <1>5, <1>17, <2>5, <2>8, <2>10, HoldsParts
  <2>12. U[p + 1] = Comma
    BY <1>4, <1>17, <2>8, <2>11, HoldsToken
  <2> QED
    BY <2>2, <2>6, <2>7, <2>8, <2>11, <2>12
<1>26. ASSUME NEW k \in 1..(n + m)
       PROVE  /\ at2[k + 1] = at2[k] + Len(all[k]) + 1
              /\ Holds(U, at2[k], all[k])
              /\ U[at2[k]] \in {Open, Comma}
  <2>1. CASE k \in 1..n
    BY <1>24, <2>1
  <2>2. CASE k \notin 1..n
    <3> DEFINE j == k - n
    <3>1. j \in 1..m /\ n + j = k
      BY <1>1, <2>2
    <3> HIDE DEF j
    <3> QED
      BY <1>25, <3>1
  <2> QED
    BY <2>1, <2>2
<1>27. Written(U, all, at2)
  BY <1>17, <1>19, <1>22, <1>23, <1>26 DEF Written
<1> QED
  BY <1>17, <1>27 DEF U, all

-----------------------------------------------------------------------------
(***************************************************************************)
(* Escaping, and what takes it back.                                       *)
(***************************************************************************)

\* Token k of t is written behind at[k], a hidden one as two tokens.
Special == {Q, BS, NL}
Escaped(E, t, at) ==
  /\ at \in [1..(Len(t) + 1) -> Nat]
  /\ at[1] = 0
  /\ at[Len(t) + 1] = Len(E)
  /\ \A k \in 1..Len(t) :
       /\ at[k + 1] <= Len(E)
       /\ t[k] \notin Special => at[k + 1] = at[k] + 1 /\ E[at[k] + 1] = t[k]
       /\ t[k] \in Special =>
            /\ at[k + 1] = at[k] + 2
            /\ E[at[k] + 1] = BS
            /\ E[at[k] + 2] = IF t[k] = NL THEN "n" ELSE t[k]

LEMMA EscapedToken ==
  ASSUME NEW x \in Token
  PROVE  /\ EscapeOf(x) \in Text
         /\ x \notin Special => Len(EscapeOf(x)) = 1 /\ EscapeOf(x)[1] = x
         /\ x \in Special => /\ Len(EscapeOf(x)) = 2
                             /\ EscapeOf(x)[1] = BS
                             /\ EscapeOf(x)[2] = IF x = NL THEN "n" ELSE x
<1>1. BS \in Token /\ "n" \in Token /\ Q \in Token
  BY WordsAreTokens DEF Words
<1>2. Q # BS /\ Q # NL /\ BS # NL
  BY DEF Q, BS, NL
<1>3. \A y \in Token : <<BS, y>> \in Text /\ Len(<<BS, y>>) = 2 /\ <<BS, y>>[1] = BS /\ <<BS, y>>[2] = y
  BY <1>1, SMT DEF Text
<1>4. CASE x = BS
  <2>1. EscapeOf(x) = <<BS, BS>>
    BY <1>2, <1>4 DEF EscapeOf
  <2> QED
    BY <1>1, <1>2, <1>3, <1>4, <2>1 DEF Special
<1>5. CASE x = Q
  <2>1. EscapeOf(x) = <<BS, Q>>
    BY <1>2, <1>5 DEF EscapeOf
  <2> QED
    BY <1>1, <1>2, <1>3, <1>5, <2>1 DEF Special
<1>6. CASE x = NL
  <2>1. EscapeOf(x) = <<BS, "n">>
    BY <1>2, <1>6 DEF EscapeOf
  <2> QED
    BY <1>1, <1>2, <1>3, <1>6, <2>1 DEF Special
<1>7. CASE x \notin Special
  <2>1. EscapeOf(x) = <<x>>
    BY <1>7 DEF EscapeOf, Special
  <2> QED
    BY <1>7, <2>1, OneToken
<1> QED
  BY <1>4, <1>5, <1>6, <1>7 DEF Special

LEMMA EscapeLaid ==
  ASSUME NEW t \in Text
  PROVE  json_escape(t) \in Text /\ \E at : Escaped(json_escape(t), t, at)
<1> DEFINE parts == [i \in DOMAIN t |-> EscapeOf(t[i])]
           E == FlattenSeq(parts)
<1>1. Len(t) \in Nat /\ DOMAIN t = 1..Len(t) /\ \A i \in 1..Len(t) : t[i] \in Token
  BY DEF Text
<1>2. parts \in Seq(Text) /\ Len(parts) = Len(t)
  <2>1. parts \in [1..Len(t) -> Text]
    BY <1>1, EscapedToken
  <2> HIDE DEF parts
  <2> QED
    BY <1>1, <2>1, SMT
<1>3. \A i \in 1..Len(t) : parts[i] = EscapeOf(t[i])
  BY <1>1
<1> HIDE DEF parts
<1>4. E \in Text /\ \E at : Laid(E, parts, at)
  BY <1>2, FlattenLaid
<1>5. PICK at : Laid(E, parts, at)
  BY <1>4
<1> HIDE DEF E
<1>6. /\ at \in [1..(Len(t) + 1) -> Nat] /\ at[1] = 0 /\ at[Len(t) + 1] = Len(E)
      /\ \A k \in 1..Len(t) : at[k + 1] = at[k] + Len(parts[k]) /\ Holds(E, at[k], parts[k])
  BY <1>2, <1>5 DEF Laid
<1>7. ASSUME NEW k \in 1..Len(t)
      PROVE  /\ at[k + 1] <= Len(E)
             /\ t[k] \notin Special => at[k + 1] = at[k] + 1 /\ E[at[k] + 1] = t[k]
             /\ t[k] \in Special =>
                  /\ at[k + 1] = at[k] + 2
                  /\ E[at[k] + 1] = BS
                  /\ E[at[k] + 2] = IF t[k] = NL THEN "n" ELSE t[k]
  <2> DEFINE w == EscapeOf(t[k])
  <2>1. /\ t[k] \notin Special => Len(w) = 1 /\ w[1] = t[k]
        /\ t[k] \in Special => /\ Len(w) = 2 /\ w[1] = BS
                               /\ w[2] = IF t[k] = NL THEN "n" ELSE t[k]
    BY <1>1, EscapedToken
  <2>2. parts[k] = w
    BY <1>3
  <2> HIDE DEF w
  <2>3. /\ at[k + 1] = at[k] + Len(w) /\ at[k] + Len(w) <= Len(E)
        /\ \A i \in 1..Len(w) : E[at[k] + i] = w[i]
    BY <1>6, <2>2 DEF Holds
  <2> QED
    BY <2>1, <2>3
<1>8. Escaped(E, t, at)
  BY <1>6, <1>7 DEF Escaped
<1> QED
  BY <1>4, <1>8 DEF json_escape, E, parts

\* Every token of the escaped text belongs to a token of t.
LEMMA EscapedFrom ==
  ASSUME NEW t \in Text, NEW E \in Text, NEW at, Escaped(E, t, at), NEW i \in 1..Len(E)
  PROVE  \E k \in 1..Len(t) : i = at[k] + 1 \/ (t[k] \in Special /\ i = at[k] + 2)
<1> DEFINE n == Len(t)
           S == {m \in 1..(n + 1) : at[m] >= i}
<1>1. n \in Nat /\ Len(E) \in Nat
  BY DEF Text
<1>2. at \in [1..(n + 1) -> Nat] /\ at[1] = 0 /\ at[n + 1] = Len(E)
  BY DEF Escaped
<1>3. n + 1 \in S
  BY <1>1, <1>2
<1>4. PICK m \in S : \A k \in S : m <= k
  <2>1. S \subseteq Nat /\ S # {}
    BY <1>3
  <2> HIDE DEF S
  <2> QED
    BY <2>1, LeastNumber
<1>5. m # 1
  BY <1>1, <1>2
<1> DEFINE k == m - 1
<1>6. k \in 1..n /\ k + 1 = m /\ ~(m <= k) /\ k \in 1..(n + 1) /\ m \in 1..(n + 1)
  BY <1>1, <1>5
<1>7. at[m] >= i
  OBVIOUS
<1>8. ~(at[k] >= i)
  BY <1>4, <1>6
<1> HIDE DEF k, S
<1>9. at[k] \in Nat /\ at[m] \in Nat
  BY <1>2, <1>6
<1>10. /\ t[k] \notin Special => at[m] = at[k] + 1
       /\ t[k] \in Special => at[m] = at[k] + 2
  BY <1>6 DEF Escaped
<1>11. i = at[k] + 1 \/ (t[k] \in Special /\ i = at[k] + 2)
  BY <1>1, <1>7, <1>8, <1>9, <1>10
<1> QED
  BY <1>6, <1>11

\* What json_escape returns can stand in quotes.
LEMMA EscapeWellformed ==
  ASSUME NEW t \in Text
  PROVE  Wellformed(json_escape(t))
<1> DEFINE E == json_escape(t)
           n == Len(t)
<1>1. E \in Text /\ \E at : Escaped(E, t, at)
  BY EscapeLaid
<1>2. PICK at : Escaped(E, t, at)
  BY <1>1
<1> HIDE DEF E
<1>3. n \in Nat /\ Len(E) \in Nat
  BY <1>1 DEF Text
<1>4. at \in [1..(n + 1) -> Nat] /\ at[1] = 0 /\ at[n + 1] = Len(E)
  BY <1>2 DEF Escaped
<1>5. ASSUME NEW k \in 1..n
      PROVE  /\ k + 1 \in 1..(n + 1) /\ k \in 1..(n + 1) /\ at[k] \in Nat /\ at[k + 1] \in Nat
             /\ at[k + 1] <= Len(E)
             /\ t[k] \notin Special => at[k + 1] = at[k] + 1 /\ E[at[k] + 1] = t[k]
             /\ t[k] \in Special => at[k + 1] = at[k] + 2 /\ E[at[k] + 1] = BS
  <2>1. k + 1 \in 1..(n + 1) /\ k \in 1..(n + 1)
    BY <1>3
  <2> QED
    BY <1>2, <1>4, <2>1 DEF Escaped
<1> DEFINE V == {at[k] + 1 : k \in 1..(n + 1)} \cap 1..(Len(E) + 1)
<1>6. 1 \in V /\ Len(E) + 1 \in V
  <2>1. 1 \in 1..(n + 1) /\ n + 1 \in 1..(n + 1) /\ 0 + 1 = 1
    BY <1>3
  <2>2. at[1] + 1 = 1 /\ at[n + 1] + 1 = Len(E) + 1
    BY <1>4
  <2> QED
    BY <1>3, <2>1, <2>2
<1>7. ASSUME NEW i \in 1..Len(E), i \in V
      PROVE  E[i] # Q /\ (IF E[i] = BS THEN i + 2 \in V ELSE i + 1 \in V)
  <2>1. PICK k \in 1..(n + 1) : i = at[k] + 1
    BY <1>7
  <2>2. k # n + 1
    BY <1>3, <1>4, <2>1
  <2>3. k \in 1..n
    BY <1>3, <2>2
  <2>4. at[k + 1] + 1 \in V
    <3>1. at[k + 1] + 1 \in 1..(Len(E) + 1)
      BY <1>3, <1>5, <2>3
    <3> QED
      BY <1>5, <2>3, <3>1
  <2> HIDE DEF V
  <2>5. CASE t[k] \in Special
    <3>1. E[i] = BS /\ i + 2 = at[k + 1] + 1
      BY <1>5, <2>1, <2>3, <2>5
    <3> QED
      BY <2>4, <3>1 DEF Q, BS
  <2>6. CASE t[k] \notin Special
    <3>1. E[i] = t[k] /\ i + 1 = at[k + 1] + 1
      BY <1>5, <2>1, <2>3, <2>6
    <3>2. E[i] # Q /\ E[i] # BS
      BY <2>6, <3>1 DEF Special
    <3> QED
      BY <2>4, <3>1, <3>2
  <2> QED
    BY <2>5, <2>6
<1>8. ASSUME NEW i \in 1..Len(E), i \notin V
      PROVE  i - 1 \in V /\ E[i - 1] = BS
  <2>1. PICK k \in 1..n : i = at[k] + 1 \/ (t[k] \in Special /\ i = at[k] + 2)
    BY <1>1, <1>2, EscapedFrom
  <2>2. i # at[k] + 1
    BY <1>3, <1>5, <1>8
  <2>3. t[k] \in Special /\ i = at[k] + 2
    BY <2>1, <2>2
  <2>4. at[k] \in Nat /\ i - 1 = at[k] + 1 /\ i - 1 \in 1..(Len(E) + 1)
    BY <1>3, <1>5, <2>3
  <2>5. at[k] + 1 \in V
    BY <1>5, <2>4
  <2>6. E[at[k] + 1] = BS
    BY <1>5, <2>3
  <2> HIDE DEF V
  <2> QED
    BY <2>4, <2>5, <2>6
<1>9. V \in SUBSET (1..(Len(E) + 1))
  OBVIOUS
<1> HIDE DEF V
<1>10. Wellformed(E)
  BY <1>6, <1>7, <1>8, <1>9 DEF Wellformed
<1> QED
  BY <1>10 DEF E

\* Escaping hides no name of a field at the end of a text, and makes none.
LEMMA EscapeKeepsEnd ==
  ASSUME NEW t \in Text, NEW key, key \notin {Q, BS, "n"}, EndsInKey(json_escape(t), {key})
  PROVE  EndsInKey(t, {key})
<1> DEFINE E == json_escape(t)
           n == Len(t)
<1>1. E \in Text /\ \E at : Escaped(E, t, at)
  BY EscapeLaid
<1>2. PICK at : Escaped(E, t, at)
  BY <1>1
<1>3. E # <<>> /\ E[Len(E)] = key /\ (Len(E) = 1 \/ E[Len(E) - 1] = Q)
  BY DEF EndsInKey, Last
<1> HIDE DEF E
<1>4. n \in Nat /\ Len(E) \in Nat /\ Len(E) # 0
  BY <1>1, <1>3 DEF Text
<1>5. at \in [1..(n + 1) -> Nat] /\ at[1] = 0 /\ at[n + 1] = Len(E)
  BY <1>2 DEF Escaped
<1>6. ASSUME NEW k \in 1..n
      PROVE  /\ at[k] \in Nat
             /\ t[k] \notin Special => at[k + 1] = at[k] + 1 /\ E[at[k] + 1] = t[k]
             /\ t[k] \in Special =>
                  /\ at[k + 1] = at[k] + 2
                  /\ E[at[k] + 2] = IF t[k] = NL THEN "n" ELSE t[k]
  <2>1. k \in 1..(n + 1)
    BY <1>4
  <2> QED
    BY <1>2, <1>5, <2>1 DEF Escaped
<1>7. n # 0 /\ n \in 1..n /\ t # <<>>
  <2>1. n # 0
    BY <1>4, <1>5
  <2> QED
    BY <1>4, <2>1
<1> HIDE DEF n
<1>8. t[n] \notin Special
  <2>1. SUFFICES ASSUME t[n] \in Special PROVE FALSE
    OBVIOUS
  <2>2. E[Len(E)] = IF t[n] = NL THEN "n" ELSE t[n]
    BY <1>5, <1>6, <1>7, <2>1
  <2> QED
    BY <1>3, <2>1, <2>2 DEF Special
<1>9. t[n] = key /\ at[n] + 1 = Len(E) /\ at[n] \in Nat
  BY <1>3, <1>5, <1>6, <1>7, <1>8
<1>10. CASE n = 1
  BY <1>9, <1>10, <1>7 DEF EndsInKey, Last, n
<1>11. CASE n # 1
  <2> DEFINE k == n - 1
  <2>1. k \in 1..n /\ k + 1 = n
    BY <1>4, <1>7, <1>11
  <2> HIDE DEF k
  <2>2. at[k] \in Nat /\ at[n] \in {at[k] + 1, at[k] + 2}
    BY <1>6, <2>1
  <2>3. E[at[n]] = Q
    <3>1. Len(E) # 1 /\ Len(E) - 1 = at[n]
      <4>1. \A x, y, z \in Nat : x + 1 = y /\ (x = z + 1 \/ x = z + 2) => y # 1 /\ y - 1 = x
        OBVIOUS
      <4> QED
        BY <1>4, <1>9, <2>2, <4>1
    <3> QED
      BY <1>3, <3>1
  <2>4. t[k] \in Special
    <3>1. SUFFICES ASSUME t[k] \notin Special PROVE FALSE
      OBVIOUS
    <3>2. E[at[n]] = t[k]
      BY <1>6, <2>1, <3>1
    <3> QED
      BY <2>3, <3>1, <3>2 DEF Special
  <2>5. t[k] = Q
    <3>1. E[at[n]] = IF t[k] = NL THEN "n" ELSE t[k]
      BY <1>6, <2>1, <2>4
    <3>2. "n" # Q
      BY DEF Q
    <3> QED
      BY <2>3, <3>1, <3>2
  <2>6. t # <<>> /\ t[Len(t)] = key /\ t[Len(t) - 1] = Q
    BY <1>7, <1>9, <2>5 DEF k, n
  <2> QED
    BY <2>6 DEF EndsInKey, Last
<1> QED
  BY <1>10, <1>11

\* What json_unescape reads from each place on.
Meant(x) == IF x = "n" THEN NL ELSE x
Unread(T, f) ==
  f = [i \in 1..(Len(T) + 1) |->
         IF i > Len(T) THEN <<>>
         ELSE IF T[i] # BS \/ i = Len(T) THEN <<T[i]>> \o f[i + 1]
         ELSE <<Meant(T[i + 1])>> \o f[i + 2]]

LEMMA UnreadExists ==
  ASSUME NEW T \in Text
  PROVE  \E f : Unread(T, f)
<1> DEFINE n == Len(T)
           Next1(e, i) == IF i > n THEN <<>>
                          ELSE IF T[i] # BS \/ i = n THEN <<T[i]>> \o e[i + 1]
                          ELSE <<Meant(T[i + 1])>> \o e[i + 2]
           Good(m) == \E e : e = [i \in (n + 1 - m)..(n + 1) |-> Next1(e, i)]
           S == {m \in 0..n : ~Good(m)}
<1>1. n \in Nat
  BY DEF Text
<1>2. Good(0)
  <2> DEFINE e == [i \in (n + 1 - 0)..(n + 1) |-> <<>>]
  <2>1. \A i \in (n + 1 - 0)..(n + 1) : Next1(e, i) = <<>>
    BY <1>1
  <2> HIDE DEF Next1
  <2>2. e = [i \in (n + 1 - 0)..(n + 1) |-> Next1(e, i)]
    BY <2>1
  <2> QED
    BY <2>2
<1>3. ASSUME NEW m \in 0..(n - 1), Good(m) PROVE Good(m + 1)
  <2> DEFINE lo == n + 1 - m
             D == lo..(n + 1)
             L == (lo - 1)..(n + 1)
  <2>1. PICK e : e = [i \in D |-> Next1(e, i)]
    BY <1>3
  <2> DEFINE g == [i \in L |-> IF i = lo - 1 THEN Next1(e, i) ELSE e[i]]
  <2>2. lo \in Nat /\ lo - 1 \in Nat \ {0}
    BY <1>1
  <2>3. ASSUME NEW i \in L PROVE g[i] = Next1(g, i)
    <3>0. \A j \in L : g[j] = IF j = lo - 1 THEN Next1(e, j) ELSE e[j]
      OBVIOUS
    <3>1. /\ i \in Nat
          /\ i <= n => i + 1 \in L /\ i + 1 # lo - 1
          /\ i < n => i + 2 \in L /\ i + 2 # lo - 1
      BY <1>1, <2>2
    <3> HIDE DEF g, lo
    <3>2. CASE i > n
      <4>1. Next1(g, i) = <<>> /\ Next1(e, i) = <<>>
        BY <3>2
      <4>2. i # lo - 1 => e[i] = Next1(e, i)
        <5>1. i # lo - 1 => i \in D
          BY <2>2
        <5> HIDE DEF D, Next1
        <5> QED
          BY <2>1, <5>1
      <4> QED
        BY <3>0, <4>1, <4>2
    <3>3. CASE i <= n
      <4>1. g[i + 1] = e[i + 1] /\ (i # n => g[i + 2] = e[i + 2])
        <5>1. i # n => i < n
          BY <1>1, <3>1, <3>3
        <5> HIDE DEF L, Next1
        <5> QED
          BY <3>0, <3>1, <3>3, <5>1
      <4>2. Next1(g, i) = Next1(e, i)
        BY <4>1, Zenon
      <4>3. i # lo - 1 => i \in D
        BY <2>2
      <4>4. i # lo - 1 => e[i] = Next1(e, i)
        BY <2>1, <4>3
      <4> QED
        BY <3>0, <4>2, <4>4
    <3> QED
      BY <1>1, <3>1, <3>2, <3>3
  <2>4. g = [i \in L |-> g[i]]
    OBVIOUS
  <2> HIDE DEF g, Next1
  <2>5. g = [i \in L |-> Next1(g, i)]
    BY <2>3, <2>4
  <2>6. n + 1 - (m + 1) = lo - 1
    BY <1>1
  <2> QED
    BY <2>5, <2>6
<1>4. \A m \in 0..n : Good(m)
  <2> HIDE DEF Good
  <2>1. SUFFICES ASSUME S # {} PROVE FALSE
    OBVIOUS
  <2>2. PICK m \in S : \A k \in S : m <= k
    <3>1. S \subseteq Nat
      OBVIOUS
    <3> HIDE DEF S
    <3> QED
      BY <2>1, <3>1, LeastNumber
  <2>3. m - 1 \in 0..(n - 1) /\ m - 1 + 1 = m /\ ~(m <= m - 1) /\ m - 1 \in 0..n
    BY <1>1, <1>2
  <2>4. Good(m - 1)
    BY <1>1, <2>2, <2>3
  <2> QED
    BY <1>3, <2>3, <2>4
<1> QED
  <2>1. n \in 0..n /\ n + 1 - n = 1
    BY <1>1
  <2> HIDE DEF Next1
  <2>2. Good(n)
    BY <1>4, <2>1
  <2> QED
    BY <2>1, <2>2 DEF Unread, Next1

LEMMA UnescapeIsUnread ==
  ASSUME NEW T \in Text
  PROVE  \E f : Unread(T, f) /\ json_unescape(T) = f[1]
BY UnreadExists DEF Unread, Meant, json_unescape

\* json_unescape takes back what json_escape did, to any text.
LEMMA UnescapeOfEscape ==
  ASSUME NEW t \in Text
  PROVE  json_unescape(json_escape(t)) = t
<1> DEFINE E == json_escape(t)
           n == Len(t)
<1>1. E \in Text /\ \E at : Escaped(E, t, at)
  BY EscapeLaid
<1>2. PICK at : Escaped(E, t, at)
  BY <1>1
<1>3. PICK f : Unread(E, f) /\ json_unescape(E) = f[1]
  BY <1>1, UnescapeIsUnread
<1> HIDE DEF E
<1>4. n \in Nat /\ Len(E) \in Nat /\ t \in Seq(Token) /\ DOMAIN t = 1..n /\ \A k \in 1..n : t[k] \in Token
  BY <1>1 DEF Text
<1>5. at \in [1..(n + 1) -> Nat] /\ at[1] = 0 /\ at[n + 1] = Len(E)
  BY <1>2 DEF Escaped
<1>6. \A i \in 1..(Len(E) + 1) :
        f[i] = IF i > Len(E) THEN <<>>
               ELSE IF E[i] # BS \/ i = Len(E) THEN <<E[i]>> \o f[i + 1]
               ELSE <<Meant(E[i + 1])>> \o f[i + 2]
  BY <1>3 DEF Unread
<1> DEFINE rest(k) == SubSeq(t, k, n)
           Good(m) == f[at[n + 1 - m] + 1] = rest(n + 1 - m)
           S == {m \in 0..n : ~Good(m)}
<1>7. Good(0)
  <2>1. rest(n + 1) = <<>>
    <3>1. n + 1 \in Int /\ n \in Int /\ n < n + 1
      BY <1>4
    <3> QED
      BY <3>1, SubSeqEmpty
  <2>2. f[Len(E) + 1] = <<>>
    <3> DEFINE i == Len(E) + 1
    <3>1. i \in 1..(Len(E) + 1) /\ i > Len(E)
      BY <1>4
    <3> HIDE DEF i
    <3>2. f[i] = <<>>
      BY <1>6, <3>1
    <3> QED
      BY <3>2 DEF i
  <2>3. n + 1 - 0 = n + 1
    BY <1>4
  <2> HIDE DEF rest
  <2> QED
    BY <1>5, <2>1, <2>2, <2>3
<1>8. ASSUME NEW k \in 1..n, f[at[k + 1] + 1] = rest(k + 1)
      PROVE  f[at[k] + 1] = rest(k)
  <2>1. rest(k) = <<t[k]>> \o rest(k + 1)
    <3> DEFINE a == rest(k)
               b == <<t[k]>> \o rest(k + 1)
    <3>1. a \in Seq(Token) /\ Len(a) = n - k + 1 /\ \A i \in 1..(n - k + 1) : a[i] = t[k + i - 1]
      BY <1>4, SubSeqProperties
    <3>2. rest(k + 1) \in Seq(Token) /\ Len(rest(k + 1)) = n - k
          /\ \A i \in 1..(n - k) : rest(k + 1)[i] = t[k + i]
      <4>1. k + 1 \in Int /\ n \in Int /\ \A i \in (k + 1)..n : t[i] \in Token
        BY <1>4
      <4>2. /\ rest(k + 1) \in Seq(Token)
            /\ Len(rest(k + 1)) = IF k + 1 <= n THEN n - (k + 1) + 1 ELSE 0
            /\ \A i \in 1..(n - (k + 1) + 1) : rest(k + 1)[i] = t[k + 1 + i - 1]
        BY <4>1, SubSeqProperties
      <4> HIDE DEF rest
      <4>3. n - (k + 1) + 1 = n - k /\ (IF k + 1 <= n THEN n - (k + 1) + 1 ELSE 0) = n - k
        <5>1. n - (k + 1) + 1 = n - k /\ k \in Nat /\ n \in Nat /\ k <= n
          BY <1>4
        <5> HIDE DEF n
        <5>2. CASE k = n
          BY <5>1, <5>2
        <5>3. CASE k # n
          BY <5>1, <5>3
        <5> QED
          BY <5>2, <5>3
      <4>4. ASSUME NEW i \in 1..(n - k) PROVE rest(k + 1)[i] = t[k + i]
        <5>1. k + 1 + i - 1 = k + i
          BY <1>4
        <5>2. rest(k + 1)[i] = t[k + 1 + i - 1]
          BY <4>2, <4>3
        <5> QED
          BY <5>1, <5>2
      <4> QED
        BY <4>2, <4>3, <4>4
    <3>3. t[k] \in Token /\ <<t[k]>> \in Seq(Token) /\ Len(<<t[k]>>) = 1 /\ <<t[k]>>[1] = t[k]
      BY <1>4, OneToken DEF Text
    <3> HIDE DEF rest
    <3>4. /\ b \in Seq(Token) /\ Len(b) = 1 + (n - k) /\ b[1] = t[k]
          /\ \A i \in 1..(n - k) : b[1 + i] = rest(k + 1)[i]
      <4> DEFINE c1 == <<t[k]>>
                 c2 == rest(k + 1)
      <4>2. c1 \in Seq(Token) /\ c2 \in Seq(Token) /\ Len(c1) = 1 /\ Len(c2) = n - k /\ c1[1] = t[k] /\ 1 \in 1..1
        BY <3>2, <3>3
      <4> HIDE DEF c1, c2
      <4>3. /\ c1 \o c2 \in Seq(Token) /\ Len(c1 \o c2) = 1 + (n - k) /\ (c1 \o c2)[1] = t[k]
            /\ \A j \in 1..(n - k) : (c1 \o c2)[1 + j] = c2[j]
        <5>1. /\ c1 \o c2 \in Text /\ Len(c1 \o c2) = Len(c1) + Len(c2)
              /\ Holds(c1 \o c2, 0, c1) /\ Holds(c1 \o c2, Len(c1), c2)
          BY <4>2, JoinText DEF Text
        <5>2. (c1 \o c2)[0 + 1] = c1[1] /\ \A j \in 1..(n - k) : (c1 \o c2)[1 + j] = c2[j]
          BY <4>2, <5>1 DEF Holds
        <5> QED
          BY <4>2, <5>1, <5>2 DEF Text
      <4> QED
        BY <4>3 DEF c1, c2
    <3> HIDE DEF a, b
    <3>5. ASSUME NEW i \in 1..Len(a) PROVE a[i] = b[i]
      <4>1. CASE i = 1
        <5>1. k + 1 - 1 = k
          BY <1>4
        <5> QED
          BY <1>4, <3>1, <3>4, <4>1, <5>1
      <4>2. CASE i # 1
        <5> DEFINE j == i - 1
        <5>1. j \in 1..(n - k) /\ 1 + j = i /\ k + i - 1 = k + j
          BY <1>4, <3>1, <4>2
        <5> HIDE DEF j
        <5>2. b[1 + j] = t[k + j]
          BY <3>2, <3>4, <5>1
        <5>3. a[i] = t[k + i - 1]
          BY <3>1
        <5> QED
          BY <5>1, <5>2, <5>3
      <4> QED
        BY <4>1, <4>2
    <3>6. Len(a) = Len(b)
      BY <1>4, <3>1, <3>4
    <3>7. a = b
      BY <3>1, <3>4, <3>5, <3>6, SeqEqual
    <3> QED
      BY <3>7 DEF a, b
  <2> HIDE DEF rest
  <2>2. k \in 1..(n + 1) /\ k + 1 \in 1..(n + 1) /\ at[k] \in Nat /\ at[k + 1] \in Nat
    BY <1>4, <1>5
  <2>3. /\ at[k + 1] <= Len(E)
        /\ t[k] \notin Special => at[k + 1] = at[k] + 1 /\ E[at[k] + 1] = t[k]
        /\ t[k] \in Special =>
             /\ at[k + 1] = at[k] + 2
             /\ E[at[k] + 1] = BS
             /\ E[at[k] + 2] = IF t[k] = NL THEN "n" ELSE t[k]
    BY <1>2 DEF Escaped
  <2> DEFINE i == at[k] + 1
  <2>4. CASE t[k] \in Special
    <3>1. /\ i \in 1..(Len(E) + 1) /\ ~(i > Len(E)) /\ i # Len(E) /\ E[i] = BS
          /\ i + 2 = at[k + 1] + 1 /\ i + 1 = at[k] + 2
      <4>1. at[k + 1] = at[k] + 2 /\ E[at[k] + 1] = BS
        BY <2>3, <2>4
      <4>2. Len(E) \in Nat /\ at[k] \in Nat /\ at[k] + 2 <= Len(E)
        BY <1>4, <2>2, <2>3, <4>1
      <4> QED
        BY <4>1, <4>2
    <3>2. Meant(E[at[k] + 2]) = t[k]
      BY <2>3, <2>4 DEF Meant, Special, Q, BS, NL
    <3> HIDE DEF i
    <3>3. f[i] = <<Meant(E[i + 1])>> \o f[i + 2]
      BY <1>6, <3>1
    <3>4. f[i] = <<t[k]>> \o rest(k + 1)
      BY <1>8, <3>1, <3>2, <3>3
    <3> QED
      BY <2>1, <3>4 DEF i
  <2>5. CASE t[k] \notin Special
    <3>1. /\ i \in 1..(Len(E) + 1) /\ ~(i > Len(E)) /\ E[i] = t[k] /\ i + 1 = at[k + 1] + 1
      BY <1>4, <2>2, <2>3, <2>5
    <3>2. t[k] # BS
      BY <2>5 DEF Special
    <3> HIDE DEF i
    <3>3. f[i] = <<E[i]>> \o f[i + 1]
      BY <1>6, <3>1, <3>2
    <3>4. f[i] = <<t[k]>> \o rest(k + 1)
      BY <1>8, <3>1, <3>3
    <3> QED
      BY <2>1, <3>4 DEF i
  <2> QED
    BY <2>4, <2>5
<1>9. \A m \in 0..n : Good(m)
  <2>1. SUFFICES ASSUME S # {} PROVE FALSE
    OBVIOUS
  <2>2. PICK m \in S : \A k \in S : m <= k
    <3>1. S \subseteq Nat
      OBVIOUS
    <3> HIDE DEF S
    <3> QED
      BY <2>1, <3>1, LeastNumber
  <2>3. ~Good(m) /\ m \in 0..n
    OBVIOUS
  <2>4. m # 0
    BY <1>7, <2>3
  <2> DEFINE k == n + 1 - m
  <2>5. m - 1 \in 0..n /\ ~(m <= m - 1) /\ n + 1 - (m - 1) = k + 1 /\ k \in 1..n
    BY <1>4, <2>3, <2>4
  <2>6. Good(m - 1)
    BY <2>2, <2>5
  <2> HIDE DEF rest
  <2>7. f[at[k + 1] + 1] = rest(k + 1)
    BY <2>5, <2>6
  <2>8. f[at[k] + 1] = rest(k)
    BY <1>8, <2>5, <2>7
  <2> QED
    BY <2>3, <2>8
<1>10. f[1] = rest(1)
  <2>1. n \in 0..n /\ n + 1 - n = 1 /\ at[1] + 1 = 1
    BY <1>4, <1>5
  <2>2. Good(n)
    BY <1>9, <2>1
  <2> HIDE DEF rest
  <2> QED
    BY <2>1, <2>2
<1>11. SubSeq(t, 1, n) = t
  <2> DEFINE a == SubSeq(t, 1, n)
  <2>1. a \in Seq(Token) /\ Len(a) = n /\ \A i \in 1..n : a[i] = t[i]
    BY <1>4, SMT
  <2> HIDE DEF a
  <2>2. a = t
    BY <1>4, <2>1, SeqEqual
  <2> QED
    BY <2>2 DEF a
<1> QED
  BY <1>3, <1>10, <1>11 DEF E

-----------------------------------------------------------------------------
(***************************************************************************)
(* Messages: what each end takes out of what the other wrote.              *)
(***************************************************************************)

\* What stands in the field is no other field's name.
Hides(field, key) == Clear(field, Len(field), key)

\* The name of a field, as it is looked for.
Key(key) == key \in Token /\ key \notin {Q, BS, Open, Comma, Close, Colon}

LEMMA TakesString ==
  ASSUME NEW T \in Text, NEW fields \in Seq(Text), NEW at, Written(T, fields, at),
         NEW k \in 1..Len(fields), NEW key, Key(key), \A i \in 1..(k - 1) : Hides(fields[i], key),
         NEW t \in Text, Wellformed(t), fields[k] = StringField(key, t), NEW fallback
  PROVE  ExtractString(T, key, fallback) = t
<1>1. k \in 1..(Len(fields) + 1) /\ key \in Token /\ key \notin {Open, Comma, Close}
  BY DEF Key
<1>2. Clear(T, at[k], key)
  BY <1>1, ClearUpTo DEF Hides
<1>3. at[k] \in Nat \ {0} /\ Holds(T, at[k], StringField(key, t)) /\ T[at[k]] \in {Open, Comma}
  BY <1>1 DEF Written
<1>4. T[at[k]] # Q /\ T[at[k]] # key
  BY <1>1, <1>3 DEF Q, Open, Comma
<1> QED
  BY <1>1, <1>2, <1>3, <1>4, ExtractsField

LEMMA TakesNumber ==
  ASSUME NEW T \in Text, NEW fields \in Seq(Text), NEW at, Written(T, fields, at),
         NEW k \in 1..Len(fields), NEW key, Key(key), \A i \in 1..(k - 1) : Hides(fields[i], key),
         NEW number \in Numbers, fields[k] = IntField(key, <<number>>), NEW fallback
  PROVE  ExtractInt(T, key, fallback) = <<number>>
<1>1. k \in 1..(Len(fields) + 1) /\ key \in Token /\ key \notin {Open, Comma, Close}
  BY DEF Key
<1>2. Clear(T, at[k], key)
  BY <1>1, ClearUpTo DEF Hides
<1>3. at[k] \in Nat \ {0} /\ Holds(T, at[k], IntField(key, <<number>>)) /\ T[at[k]] \in {Open, Comma}
  BY <1>1 DEF Written
<1>4. T[at[k]] # Q /\ T[at[k]] # key
  BY <1>1, <1>3 DEF Q, Open, Comma
<1> QED
  BY <1>1, <1>2, <1>3, <1>4, ExtractsNumber

LEMMA TakesNothing ==
  ASSUME NEW T \in Text, NEW fields \in Seq(Text), NEW at, Written(T, fields, at),
         NEW key, Key(key), \A i \in 1..Len(fields) : Hides(fields[i], key), NEW fallback
  PROVE  ExtractString(T, key, fallback) = fallback
<1>1. /\ Len(fields) + 1 \in 1..(Len(fields) + 1) /\ Len(fields) + 1 - 1 = Len(fields)
      /\ key \in Token /\ key \notin {Open, Comma, Close}
  <2>1. Len(fields) \in Nat
    OBVIOUS
  <2> QED
    BY <2>1 DEF Key
<1>2. \A i \in 1..(Len(fields) + 1 - 1) : Clear(fields[i], Len(fields[i]), key)
  BY <1>1 DEF Hides
<1>3. Clear(T, at[Len(fields) + 1], key)
  BY <1>1, <1>2, ClearUpTo
<1>4. at[Len(fields) + 1] = Len(T)
  BY DEF Written
<1> QED
  BY <1>3, <1>4, ExtractsNothing

\* A text of one word.
LEMMA WordWellformed ==
  ASSUME NEW x \in Token, x \notin {Q, BS}
  PROVE  <<x>> \in Text /\ Wellformed(<<x>>) /\ \A key : EndsInKey(<<x>>, {key}) => x = key
<1>1. <<x>> \in Text /\ Len(<<x>>) = 1 /\ <<x>>[1] = x
  BY OneToken
<1>2. Wellformed(<<x>>)
  <2> DEFINE t == <<x>>
             V == {1, 2}
  <2>1. t[1] = x /\ Len(t) = 1 /\ x # Q /\ x # BS
    BY <1>1
  <2> HIDE DEF t
  <2>2. V \in SUBSET (1..(Len(t) + 1)) /\ Len(t) + 1 \in V /\ 1 \in V
    BY <2>1
  <2>3. \A i \in 1..Len(t) : /\ i \in V => t[i] # Q /\ (IF t[i] = BS THEN i + 2 \in V ELSE i + 1 \in V)
                             /\ i \notin V => i - 1 \in V /\ t[i - 1] = BS
    BY <2>1
  <2>4. Wellformed(t)
    BY <2>2, <2>3 DEF Wellformed
  <2> QED
    BY <2>4 DEF t
<1>3. \A key : EndsInKey(<<x>>, {key}) => x = key
  BY <1>1 DEF EndsInKey, Last
<1> QED
  BY <1>1, <1>2, <1>3

\* A name from Names.
LEMMA NamesAreTexts ==
  ASSUME NEW n \in Names
  PROVE  n \in Text /\ n # Missing /\ Wellformed(n)
<1>1. n \in Seq({n[i] : i \in DOMAIN n}) /\ n # Missing /\ EndOfString(n \o <<Q>>, 1) = Len(n) + 1
  BY UploadAssumption DEF Quotable
<1>2. {n[i] : i \in DOMAIN n} \subseteq Token
  BY DEF Token
<1>3. n \in Text
  BY <1>1, <1>2, SeqMonotonic DEF Text
<1> QED
  BY <1>1, <1>3, WellformedIfEnd

LEMMA StringFieldIsText ==
  ASSUME NEW key \in Token, NEW t \in Text
  PROVE  StringField(key, t) \in Text
<1> DEFINE head == <<Q, key, Q, Colon, Q>>
<1>1. head \in Text
  <2>1. Q \in Token /\ Colon \in Token
    BY WordsAreTokens DEF Words
  <2> QED
    BY <2>1, SMT DEF Text
<1> HIDE DEF head
<1>2. head \o t \in Text
  BY <1>1, JoinText
<1>3. (head \o t) \o <<Q>> \in Text
  BY <1>2, OneQuote, JoinText
<1> QED
  BY <1>3 DEF StringField, head

LEMMA IntFieldIsText ==
  ASSUME NEW key \in Token, NEW t \in Text
  PROVE  IntField(key, t) \in Text
<1> DEFINE head == <<Q, key, Q, Colon>>
<1>1. head \in Text
  <2>1. Q \in Token /\ Colon \in Token
    BY WordsAreTokens DEF Words
  <2> QED
    BY <2>1, SMT DEF Text
<1> HIDE DEF head
<1>2. head \o t \in Text
  BY <1>1, JoinText
<1> QED
  BY <1>2 DEF IntField, head

\* The scan ends at a position.
LEMMA ScanIsNumber ==
  ASSUME NEW T \in Text, NEW e, Scan(T, e)
  PROVE  \A i \in 1..(Len(T) + 2) : e[i] \in Nat
<1> DEFINE n == Len(T)
           Good(m) == e[n + 2 - m] \in Nat
           S == {m \in 0..(n + 1) : ~Good(m)}
<1>1. n \in Nat
  BY DEF Text
<1>2. \A i \in 1..(n + 2) : e[i] = IF i > n \/ T[i] = Q THEN i
                                   ELSE IF T[i] = BS THEN e[i + 2] ELSE e[i + 1]
  BY DEF Scan
<1>3. \A m \in 0..(n + 1) : Good(m)
  <2>1. SUFFICES ASSUME S # {} PROVE FALSE
    OBVIOUS
  <2>2. PICK m \in S : \A k \in S : m <= k
    <3>1. S \subseteq Nat
      OBVIOUS
    <3> HIDE DEF S
    <3> QED
      BY <2>1, <3>1, LeastNumber
  <2>3. m \in 0..(n + 1) /\ ~Good(m)
    OBVIOUS
  <2> DEFINE i == n + 2 - m
  <2>4. i \in 1..(n + 2) /\ i \in Nat
    BY <1>1, <2>3
  <2>5. e[i] \notin Nat
    BY <2>3
  <2> HIDE DEF i
  <2>6. ~(i > n) /\ e[i] \in {e[i + 1], e[i + 2]}
    BY <1>2, <2>4, <2>5
  <2>7. /\ m - 1 \in 0..(n + 1) /\ ~(m <= m - 1) /\ n + 2 - (m - 1) = i + 1
        /\ m - 2 \in 0..(n + 1) /\ ~(m <= m - 2) /\ n + 2 - (m - 2) = i + 2
    BY <1>1, <2>3, <2>6 DEF i
  <2>8. e[i + 1] \in Nat /\ e[i + 2] \in Nat
    <3>1. Good(m - 1) /\ Good(m - 2)
      BY <2>2, <2>7
    <3> QED
      BY <2>7, <3>1
  <2> QED
    BY <2>5, <2>6, <2>8
<1> SUFFICES ASSUME NEW i \in 1..(n + 2) PROVE e[i] \in Nat
  OBVIOUS
<1>4. n + 2 - i \in 0..(n + 1) /\ n + 2 - (n + 2 - i) = i
  BY <1>1
<1>5. Good(n + 2 - i)
  BY <1>3, <1>4
<1> QED
  BY <1>4, <1>5

\* A string::find returns a position of the text.
LEMMA FindIsNumber ==
  ASSUME NEW T \in Text, NEW x, NEW from \in Nat
  PROVE  Find(T, <<x>>, from) \in 0..Len(T)
<1> DEFINE P == <<x>>
           places == {i \in from..(Len(T) - Len(P) + 1) : \A k \in DOMAIN P : T[i + k - 1] = P[k]}
<1>1. Len(T) \in Nat /\ Len(P) = 1
  BY SMT DEF Text
<1> HIDE DEF P
<1>2. places \subseteq from..Len(T)
  BY <1>1
<1> HIDE DEF places
<1>3. ASSUME places # {} PROVE Min(places) \in places
  <2>1. places \subseteq Nat
    BY <1>1, <1>2
  <2>2. PICK m \in places : \A k \in places : m <= k
    BY <1>3, <2>1, LeastNumber
  <2>3. Min(places) = m
    BY <2>1, <2>2, LeastIsMin
  <2> QED
    BY <2>3
<1>4. Find(T, P, from) = IF from = 0 \/ places = {} THEN 0 ELSE Min(places)
  BY DEF Find, places
<1>5. \A i \in from..Len(T) : i \in 0..Len(T)
  BY <1>1
<1>6. Find(T, P, from) \in 0..Len(T)
  <2>1. 0 \in 0..Len(T)
    BY <1>1
  <2> QED
    BY <1>2, <1>3, <1>4, <1>5, <2>1
<1> QED
  BY <1>6 DEF P

\* What is taken out of a text is a text.
LEMMA ExtractedIsText ==
  ASSUME NEW T \in Text, NEW key, NEW fallback \in Text
  PROVE  ExtractString(T, key, fallback) \in Text /\ ExtractInt(T, key, fallback) \in Text
<1>1. Len(T) \in Nat /\ \A i \in 1..Len(T) : T[i] \in Token
  BY DEF Text
<1>2. ValueOf(T, key) \in Nat
  <2> DEFINE name1 == Find(T, <<Q, key, Q>>, 1)
             places == {i \in 1..(Len(T) - 2) : T[i] = Q /\ T[i + 1] = key /\ T[i + 2] = Q}
  <2>1. name1 \in Nat
    <3>1. name1 = IF places = {} THEN 0 ELSE Min(places)
      BY FindPlaces
    <3>2. places \subseteq Nat
      BY <1>1
    <3> HIDE DEF places, name1
    <3>3. ASSUME places # {} PROVE Min(places) \in Nat
      <4>1. PICK m \in places : \A k \in places : m <= k
        BY <3>2, <3>3, LeastNumber
      <4>2. Min(places) = m
        BY <3>2, <4>1, LeastIsMin
      <4> QED
        BY <3>2, <4>2
    <3> QED
      BY <3>1, <3>3
  <2> DEFINE from == IF name1 = 0 THEN 0 ELSE name1 + 3
             colon == Find(T, <<Colon>>, from)
  <2>2. from \in Nat
    BY <2>1
  <2> HIDE DEF name1, from
  <2>3. colon \in Nat
    <3>1. colon \in 0..Len(T)
      BY <2>2, FindIsNumber
    <3> HIDE DEF colon
    <3> QED
      BY <1>1, <3>1
  <2>4. ValueOf(T, key) = IF colon = 0 THEN 0 ELSE colon + 1
    BY DEF ValueOf, name1, from
  <2> HIDE DEF colon
  <2> QED
    BY <2>3, <2>4
<1>3. ExtractString(T, key, fallback) \in Text
  <2> DEFINE quote == Find(T, <<Q>>, ValueOf(T, key))
             end == EndOfString(T, quote + 1)
  <2>1. ExtractString(T, key, fallback) =
          IF quote = 0 \/ end > Len(T) THEN fallback ELSE SubSeq(T, quote + 1, end - 1)
    BY DEF ExtractString
  <2>2. quote \in 0..Len(T)
    BY <1>2, FindIsNumber
  <2> HIDE DEF quote
  <2>3. end \in Nat
    <3>1. PICK e : Scan(T, e) /\ end = e[quote + 1]
      BY EndIsScan
    <3>2. quote + 1 \in 1..(Len(T) + 2)
      BY <1>1, <2>2
    <3> QED
      BY <3>1, <3>2, ScanIsNumber
  <2> HIDE DEF end
  <2>4. ASSUME end <= Len(T)
        PROVE  SubSeq(T, quote + 1, end - 1) \in Text
    <3>1. quote + 1 \in Int /\ end - 1 \in Int /\ \A i \in (quote + 1)..(end - 1) : i \in 1..Len(T)
      BY <1>1, <2>2, <2>3, <2>4
    <3>2. \A i \in (quote + 1)..(end - 1) : T[i] \in Token
      BY <1>1, <3>1
    <3> QED
      BY <3>1, <3>2, SubSeqProperties DEF Text
  <2> QED
    BY <1>1, <2>1, <2>3, <2>4
<1>4. ExtractInt(T, key, fallback) \in Text
  <2> DEFINE value == ValueOf(T, key)
  <2>1. ExtractInt(T, key, fallback) \in {fallback, <<T[value]>>}
        /\ (ExtractInt(T, key, fallback) = fallback \/ T[value] \in Numbers)
    BY DEF ExtractInt
  <2>2. \A x \in Numbers : x \in Token
    BY WordsAreTokens DEF Words, Numbers
  <2> HIDE DEF value
  <2> QED
    BY <2>1, <2>2, OneToken
<1> QED
  BY <1>3, <1>4

\* The names of the fields.
Keys == {"name", "executable", "executable_b64", "min_cores", "client_callback_address",
         "submission_id", "sender", "username", "request", "action", "job_name",
         "response_status", "forward_payload"}

LEMMA KeysAreKeys == \A key \in Keys : Key(key) /\ key \in Token /\ key \notin {Q, BS, Colon, "n"}
<1> TAKE key \in Keys
<1>1. key \in Words
  BY DEF Keys, Words
<1>2. key \notin {Q, BS, Open, Comma, Close, Colon, "n"}
  BY DEF Keys, Q, BS, Open, Comma, Close, Colon
<1> QED
  BY <1>1, <1>2, WordsAreTokens DEF Key

LEMMA TextHides ==
  ASSUME NEW k2 \in Keys, NEW key \in Keys, k2 # key, NEW t \in Text, Wellformed(t),
         ~EndsInKey(t, {key})
  PROVE  Hides(StringField(k2, t), key)
BY KeysAreKeys, FieldIsClear DEF Hides

LEMMA WordHides ==
  ASSUME NEW k2 \in Keys, NEW key \in Keys, k2 # key, NEW x \in Token, x \notin {Q, BS, key}
  PROVE  Hides(StringField(k2, <<x>>), key)
<1>1. <<x>> \in Text /\ Wellformed(<<x>>) /\ (EndsInKey(<<x>>, {key}) => x = key)
  BY WordWellformed
<1> QED
  BY <1>1, TextHides

LEMMA NumberHides ==
  ASSUME NEW k2 \in Keys, NEW key \in Keys, k2 # key, NEW x \in Token
  PROVE  Hides(IntField(k2, <<x>>), key)
BY KeysAreKeys, NumberIsClear DEF Hides

LEMMA ThreeAndTwo ==
  ASSUME NEW a \in Text, NEW b \in Text, NEW c \in Text, NEW d \in Text, NEW e \in Text
  PROVE  LET s == <<a, b, c>> \o (<<d>> \o <<e>>)
         IN  /\ s \in Seq(Text) /\ Len(s) = 5
             /\ s[1] = a /\ s[2] = b /\ s[3] = c /\ s[4] = d /\ s[5] = e
BY SMT

LEMMA ThreeAndOne ==
  ASSUME NEW a \in Text, NEW b \in Text, NEW c \in Text, NEW d \in Text
  PROVE  LET s == <<a, b, c>> \o (<<d>> \o <<>>)
         IN  /\ s \in Seq(Text) /\ Len(s) = 4
             /\ s[1] = a /\ s[2] = b /\ s[3] = c /\ s[4] = d
BY SMT

LEMMA FiveAndTwo ==
  ASSUME NEW a \in Text, NEW b \in Text, NEW c \in Text, NEW d \in Text, NEW e \in Text,
         NEW f \in Text, NEW g \in Text
  PROVE  LET s == <<a, b, c, d, e>> \o <<f>> \o <<g>>
         IN  /\ s \in Seq(Text) /\ Len(s) = 7 /\ s # <<>>
             /\ s[1] = a /\ s[2] = b /\ s[3] = c /\ s[4] = d /\ s[5] = e /\ s[6] = f /\ s[7] = g
BY SMT

LEMMA FiveAndOne ==
  ASSUME NEW a \in Text, NEW b \in Text, NEW c \in Text, NEW d \in Text, NEW e \in Text,
         NEW g \in Text
  PROVE  LET s == <<a, b, c, d, e>> \o <<>> \o <<g>>
         IN  /\ s \in Seq(Text) /\ Len(s) = 6 /\ s # <<>>
             /\ s[1] = a /\ s[2] = b /\ s[3] = c /\ s[4] = d /\ s[5] = e /\ s[6] = g
BY SMT

LEMMA EightFields ==
  ASSUME NEW a \in Text, NEW b \in Text, NEW c \in Text, NEW d \in Text, NEW e \in Text,
         NEW f \in Text, NEW g \in Text, NEW h \in Text
  PROVE  LET s == <<a, b, c, d, e, f, g, h>>
         IN  /\ s \in Seq(Text) /\ Len(s) = 8 /\ s # <<>>
             /\ s[1] = a /\ s[2] = b /\ s[3] = c /\ s[4] = d /\ s[5] = e /\ s[6] = f /\ s[7] = g
             /\ s[8] = h
BY SMT

LEMMA ThreeFields ==
  ASSUME NEW a \in Text, NEW b \in Text, NEW c \in Text
  PROVE  LET s == <<a, b, c>> IN s \in Seq(Text) /\ s # <<>>
BY SMT

\* The client's payload, field by field.
ClientFields(n, u) ==
  <<StringField("name", n), StringField("executable", <<"path">>), IntField("min_cores", <<"2">>)>>
    \o (<<StringField("client_callback_address", <<"address">>)>>
          \o IF u THEN <<StringField("executable_b64", <<"code">>)>> ELSE <<>>)

LEMMA ClientFieldsAre ==
  ASSUME NEW n \in Text, NEW u \in BOOLEAN
  PROVE  LET s == ClientFields(n, u)
         IN  /\ s \in Seq(Text) /\ Len(s) = IF u THEN 5 ELSE 4
             /\ s[1] = StringField("name", n)
             /\ s[2] = StringField("executable", <<"path">>)
             /\ s[3] = IntField("min_cores", <<"2">>)
             /\ s[4] = StringField("client_callback_address", <<"address">>)
             /\ u => s[5] = StringField("executable_b64", <<"code">>)
<1>1. \A w \in {"path", "2", "address", "code", "name", "executable", "min_cores",
                "client_callback_address", "executable_b64"} : w \in Token
  BY WordsAreTokens DEF Words
<1>2. <<"path">> \in Text /\ <<"2">> \in Text /\ <<"address">> \in Text /\ <<"code">> \in Text
  BY <1>1, OneToken
<1> DEFINE a == StringField("name", n)
           b == StringField("executable", <<"path">>)
           c == IntField("min_cores", <<"2">>)
           d == StringField("client_callback_address", <<"address">>)
           e == StringField("executable_b64", <<"code">>)
<1>3. a \in Text /\ b \in Text /\ c \in Text /\ d \in Text /\ e \in Text
  BY <1>1, <1>2, StringFieldIsText, IntFieldIsText
<1>4. ClientFields(n, u) = <<a, b, c>> \o (<<d>> \o IF u THEN <<e>> ELSE <<>>)
  BY DEF ClientFields
<1> HIDE DEF a, b, c, d, e
<1>5. CASE u
  BY <1>3, <1>4, <1>5, ThreeAndTwo DEF a, b, c, d, e
<1>6. CASE ~u
  BY <1>3, <1>4, <1>6, ThreeAndOne DEF a, b, c, d, e
<1> QED
  BY <1>5, <1>6

LEMMA ClientPayloadWritten ==
  ASSUME NEW n \in Text, NEW u \in BOOLEAN
  PROVE  /\ ClientPayload(n, u) \in Text
         /\ \E at : Written(ClientPayload(n, u), ClientFields(n, u), at)
<1>1. \A w \in {"path", "2", "address", "code", "name", "executable", "min_cores",
                "client_callback_address", "executable_b64"} : w \in Token
  BY WordsAreTokens DEF Words
<1>2. <<"path">> \in Text /\ <<"2">> \in Text /\ <<"address">> \in Text /\ <<"code">> \in Text
  BY <1>1, OneToken
<1> DEFINE a == StringField("name", n)
           b == StringField("executable", <<"path">>)
           c == IntField("min_cores", <<"2">>)
           d == StringField("client_callback_address", <<"address">>)
           e == StringField("executable_b64", <<"code">>)
           f == <<a, b, c>>
           x == <<d>> \o IF u THEN <<e>> ELSE <<>>
<1>3. a \in Text /\ b \in Text /\ c \in Text /\ d \in Text /\ e \in Text
  BY <1>1, <1>2, StringFieldIsText, IntFieldIsText
<1>4. ClientFields(n, u) = f \o x
  BY DEF ClientFields
<1>5. ClientPayload(n, u) = Attach(Object(f), x)
  BY DEF ClientPayload, JobFile
<1> HIDE DEF a, b, c, d, e
<1>6. f \in Seq(Text) /\ f # <<>>
  BY <1>3, ThreeFields
<1>7. x \in Seq(Text)
  <2>1. CASE u
    BY <1>3, <2>1, SMT
  <2>2. CASE ~u
    BY <1>3, <2>2, SMT
  <2> QED
    BY <2>1, <2>2
<1> HIDE DEF f, x
<1>8. Object(f) \in Text /\ \E at : Written(Object(f), f, at)
  BY <1>6, ObjectWritten
<1>9. /\ Attach(Object(f), x) \in Text
      /\ \E at : Written(Attach(Object(f), x), f \o x, at)
  BY <1>6, <1>7, <1>8, AttachWritten
<1> QED
  BY <1>4, <1>5, <1>9

\* What the primary takes out of it.
LEMMA Received ==
  ASSUME NEW n \in Names, NEW u \in BOOLEAN
  PROVE  LET j == ReceivedJob(ClientPayload(n, u))
         IN  /\ j.name = n
             /\ ~EndsInKey(n, {"client_callback_address"}) => j.callback = <<"address">>
             /\ ~EndsInKey(n, {"executable"}) => j.executable = <<"path">>
             /\ ~EndsInKey(n, {"min_cores"}) => j.min_cores = <<"2">>
             /\ ~EndsInKey(n, {"executable_b64"}) => j.code = IF u THEN <<"code">> ELSE <<>>
             /\ {j.name, j.executable, j.code, j.min_cores, j.callback} \subseteq Text
<1> DEFINE P == ClientPayload(n, u)
           fields == ClientFields(n, u)
           j == ReceivedJob(P)
<1>1. n \in Text /\ Wellformed(n)
  BY NamesAreTexts
<1>2. P \in Text /\ \E at : Written(P, fields, at)
  BY <1>1, ClientPayloadWritten
<1>3. PICK at : Written(P, fields, at)
  BY <1>2
<1>4. /\ fields \in Seq(Text) /\ Len(fields) = IF u THEN 5 ELSE 4
      /\ fields[1] = StringField("name", n)
      /\ fields[2] = StringField("executable", <<"path">>)
      /\ fields[3] = IntField("min_cores", <<"2">>)
      /\ fields[4] = StringField("client_callback_address", <<"address">>)
      /\ u => fields[5] = StringField("executable_b64", <<"code">>)
  BY <1>1, ClientFieldsAre
<1>5. /\ j.name = ExtractString(P, "name", Missing)
      /\ j.executable = ExtractString(P, "executable", Missing)
      /\ j.code = ExtractString(P, "executable_b64", <<>>)
      /\ j.min_cores = ExtractInt(P, "min_cores", Missing)
      /\ j.callback = ExtractString(P, "client_callback_address", <<"peer">>)
  BY DEF ReceivedJob
<1> HIDE DEF P, fields, j
<1>6. \A w \in {"path", "2", "address", "code", "missing", "peer"} :
        w \in Token /\ w \notin {Q, BS, "executable", "min_cores", "executable_b64", "client_callback_address"}
  BY WordsAreTokens DEF Words, Q, BS
<1>7. \A w \in {"path", "2", "address", "code", "missing", "peer"} : <<w>> \in Text /\ Wellformed(<<w>>)
  BY <1>6, WordWellformed
<1>8. {"name", "executable", "executable_b64", "min_cores", "client_callback_address"} \subseteq Keys
      /\ \A key \in Keys : Key(key)
  BY KeysAreKeys DEF Keys
<1>9. ASSUME NEW key \in {"executable", "min_cores", "executable_b64", "client_callback_address"},
             ~EndsInKey(n, {key})
      PROVE  /\ Hides(fields[1], key)
             /\ key # "executable" => Hides(fields[2], key)
             /\ key # "min_cores" => Hides(fields[3], key)
             /\ key # "client_callback_address" => Hides(fields[4], key)
  <2>1. key \in Keys /\ key # "name"
    BY <1>8
  <2>2. Hides(fields[1], key)
    BY <1>1, <1>4, <1>8, <1>9, <2>1, TextHides
  <2>3. key # "executable" => Hides(fields[2], key)
    BY <1>4, <1>6, <1>8, <2>1, WordHides
  <2>4. key # "min_cores" => Hides(fields[3], key)
    BY <1>4, <1>6, <1>8, <2>1, NumberHides
  <2>5. key # "client_callback_address" => Hides(fields[4], key)
    BY <1>4, <1>6, <1>8, <2>1, WordHides
  <2> QED
    BY <2>2, <2>3, <2>4, <2>5
<1>10. /\ 1 \in 1..Len(fields) /\ 2 \in 1..Len(fields) /\ 3 \in 1..Len(fields) /\ 4 \in 1..Len(fields)
       /\ u => 5 \in 1..Len(fields)
       /\ ~u => \A i \in 1..Len(fields) : i \in {1, 2, 3, 4}
       /\ \A i \in 1..(1 - 1) : FALSE
       /\ \A i \in 1..(2 - 1) : i = 1
       /\ \A i \in 1..(3 - 1) : i \in {1, 2}
       /\ \A i \in 1..(4 - 1) : i \in {1, 2, 3}
       /\ \A i \in 1..(5 - 1) : i \in {1, 2, 3, 4}
  <2>1. CASE u
    <3>1. Len(fields) = 5
      BY <1>4, <2>1
    <3> QED
      BY <2>1, <3>1
  <2>2. CASE ~u
    <3>1. Len(fields) = 4
      BY <1>4, <2>2
    <3> QED
      BY <2>2, <3>1
  <2> QED
    BY <2>1, <2>2
<1>11. j.name = n
  <2>1. /\ P \in Text /\ Written(P, fields, at) /\ fields \in Seq(Text)
        /\ 1 \in 1..Len(fields) /\ fields[1] = StringField("name", n)
    BY <1>2, <1>3, <1>4, <1>10
  <2>2. Key("name") /\ n \in Text /\ Wellformed(n)
    BY <1>1, <1>8
  <2>3. \A i \in 1..(1 - 1) : Hides(fields[i], "name")
    BY <1>10
  <2>4. ExtractString(P, "name", Missing) = n
    BY <2>1, <2>2, <2>3, TakesString
  <2> QED
    BY <1>5, <2>4
<1>12. ASSUME ~EndsInKey(n, {"executable"}) PROVE j.executable = <<"path">>
  <2>1. \A i \in 1..(2 - 1) : Hides(fields[i], "executable")
    BY <1>9, <1>10, <1>12
  <2>2. /\ Key("executable") /\ <<"path">> \in Text /\ Wellformed(<<"path">>) /\ 2 \in 1..Len(fields)
        /\ fields \in Seq(Text) /\ fields[2] = StringField("executable", <<"path">>)
    BY <1>4, <1>7, <1>8, <1>10
  <2>3. ExtractString(P, "executable", Missing) = <<"path">>
    BY <1>2, <1>3, <2>1, <2>2, TakesString
  <2> QED
    BY <1>5, <2>3
<1>13. ASSUME ~EndsInKey(n, {"min_cores"}) PROVE j.min_cores = <<"2">>
  <2>1. \A i \in 1..(3 - 1) : Hides(fields[i], "min_cores")
    BY <1>9, <1>10, <1>13
  <2>2. /\ Key("min_cores") /\ "2" \in Numbers /\ 3 \in 1..Len(fields)
        /\ fields \in Seq(Text) /\ fields[3] = IntField("min_cores", <<"2">>)
    BY <1>4, <1>8, <1>10 DEF Numbers
  <2>3. ExtractInt(P, "min_cores", Missing) = <<"2">>
    BY <1>2, <1>3, <2>1, <2>2, TakesNumber
  <2> QED
    BY <1>5, <2>3
<1>14. ASSUME ~EndsInKey(n, {"client_callback_address"}) PROVE j.callback = <<"address">>
  <2>1. \A i \in 1..(4 - 1) : Hides(fields[i], "client_callback_address")
    BY <1>9, <1>10, <1>14
  <2>2. /\ Key("client_callback_address") /\ <<"address">> \in Text /\ Wellformed(<<"address">>)
        /\ 4 \in 1..Len(fields) /\ fields \in Seq(Text)
        /\ fields[4] = StringField("client_callback_address", <<"address">>)
    BY <1>4, <1>7, <1>8, <1>10
  <2>3. ExtractString(P, "client_callback_address", <<"peer">>) = <<"address">>
    BY <1>2, <1>3, <2>1, <2>2, TakesString
  <2> QED
    BY <1>5, <2>3
<1>15. ASSUME ~EndsInKey(n, {"executable_b64"}) PROVE j.code = IF u THEN <<"code">> ELSE <<>>
  <2>1. \A i \in {1, 2, 3, 4} : Hides(fields[i], "executable_b64")
    BY <1>9, <1>15
  <2>2. CASE u
    <3>1. \A i \in 1..(5 - 1) : Hides(fields[i], "executable_b64")
      BY <1>10, <2>1
    <3>2. /\ Key("executable_b64") /\ <<"code">> \in Text /\ Wellformed(<<"code">>) /\ 5 \in 1..Len(fields)
          /\ fields \in Seq(Text) /\ fields[5] = StringField("executable_b64", <<"code">>)
      BY <1>4, <1>7, <1>8, <1>10, <2>2
    <3>3. ExtractString(P, "executable_b64", <<>>) = <<"code">>
      BY <1>2, <1>3, <3>1, <3>2, TakesString
    <3> QED
      BY <1>5, <2>2, <3>3
  <2>3. CASE ~u
    <3>1. \A i \in 1..Len(fields) : Hides(fields[i], "executable_b64")
      BY <1>10, <2>1, <2>3
    <3> QED
      BY <1>2, <1>3, <1>4, <1>5, <1>8, <2>3, <3>1, TakesNothing
  <2> QED
    BY <2>2, <2>3
<1>16. {j.name, j.executable, j.code, j.min_cores, j.callback} \subseteq Text
  <2>1. Missing \in Text /\ <<"peer">> \in Text /\ <<>> \in Text
    BY <1>7 DEF Missing, Text
  <2> QED
    BY <1>2, <1>5, <2>1, ExtractedIsText
<1> QED
  BY <1>11, <1>12, <1>13, <1>14, <1>15, <1>16 DEF j, P

\* What a master forwards, field by field.
ForwardFields(j) ==
  <<IntField("submission_id", <<"1001">>),
    StringField("sender", <<"sender">>),
    StringField("name", j.name),
    StringField("username", <<"host">>),
    StringField("executable", j.executable)>>
  \o (IF j.code = <<>> THEN <<>> ELSE <<StringField("executable_b64", j.code)>>)
  \o <<IntField("min_cores", j.min_cores)>>

TextsIn(j) == {j.name, j.executable, j.code, j.min_cores} \subseteq Text

LEMMA ForwardFieldsAre ==
  ASSUME NEW j, TextsIn(j)
  PROVE  LET s == ForwardFields(j)
             m == IF j.code = <<>> THEN 6 ELSE 7
         IN  /\ s \in Seq(Text) /\ s # <<>> /\ Len(s) = m
             /\ s[1] = IntField("submission_id", <<"1001">>)
             /\ s[2] = StringField("sender", <<"sender">>)
             /\ s[3] = StringField("name", j.name)
             /\ s[4] = StringField("username", <<"host">>)
             /\ s[5] = StringField("executable", j.executable)
             /\ j.code # <<>> => s[6] = StringField("executable_b64", j.code)
             /\ s[m] = IntField("min_cores", j.min_cores)
<1>1. \A w \in {"1001", "sender", "host", "submission_id", "name", "username", "executable",
                "executable_b64", "min_cores"} : w \in Token
  BY WordsAreTokens DEF Words
<1>2. <<"1001">> \in Text /\ <<"sender">> \in Text /\ <<"host">> \in Text
  BY <1>1, OneToken
<1> DEFINE a == IntField("submission_id", <<"1001">>)
           b == StringField("sender", <<"sender">>)
           c == StringField("name", j.name)
           d == StringField("username", <<"host">>)
           e == StringField("executable", j.executable)
           f == StringField("executable_b64", j.code)
           g == IntField("min_cores", j.min_cores)
<1>3. /\ a \in Text /\ b \in Text /\ c \in Text /\ d \in Text /\ e \in Text /\ f \in Text
      /\ g \in Text
  <2>1. j.name \in Text /\ j.executable \in Text /\ j.code \in Text /\ j.min_cores \in Text
    BY DEF TextsIn
  <2> QED
    BY <1>1, <1>2, <2>1, StringFieldIsText, IntFieldIsText
<1>4. ForwardFields(j) = <<a, b, c, d, e>> \o (IF j.code = <<>> THEN <<>> ELSE <<f>>) \o <<g>>
  BY DEF ForwardFields
<1> HIDE DEF a, b, c, d, e, f, g
<1>5. CASE j.code = <<>>
  BY <1>3, <1>4, <1>5, FiveAndOne DEF a, b, c, d, e, f, g
<1>6. CASE j.code # <<>>
  BY <1>3, <1>4, <1>6, FiveAndTwo DEF a, b, c, d, e, f, g
<1> QED
  BY <1>5, <1>6

LEMMA ForwardWritten ==
  ASSUME NEW j, TextsIn(j)
  PROVE  /\ ForwardPayload(j) \in Text
         /\ \E at : Written(ForwardPayload(j), ForwardFields(j), at)
<1>1. ForwardPayload(j) = Object(ForwardFields(j))
  BY DEF ForwardPayload, ForwardFields
<1>2. ForwardFields(j) \in Seq(Text) /\ ForwardFields(j) # <<>>
  BY ForwardFieldsAre
<1> QED
  BY <1>1, <1>2, ObjectWritten

\* A node takes out what the master put in.
LEMMA ForwardedIsJob ==
  ASSUME NEW j, NEW n \in Names, NEW u \in BOOLEAN, j.name = n, j.executable = <<"path">>,
         j.code = IF u THEN <<"code">> ELSE <<>>, j.min_cores = <<"2">>,
         \A key \in JobKeys : ~EndsInKey(n, {key})
  PROVE  ForwardedJob(ForwardPayload(j)) =
           [sid |-> <<"1001">>, name |-> n, executable |-> <<"path">>,
            code |-> IF u THEN <<"code">> ELSE <<>>, min_cores |-> <<"2">>]
<1> DEFINE P == ForwardPayload(j)
           fields == ForwardFields(j)
           m == IF u THEN 7 ELSE 6
<1>1. n \in Text /\ Wellformed(n)
  BY NamesAreTexts
<1>3. /\ \A w \in {"1001", "sender", "host", "path", "2", "code"} : w \in Token /\ <<w>> \in Text /\ Wellformed(<<w>>)
      /\ \A w \in {"1001", "sender", "host", "path", "2", "code"} :
           w \notin {Q, BS, "name", "executable", "executable_b64", "min_cores"}
  <2>1. \A w \in {"1001", "sender", "host", "path", "2", "code"} :
           w \notin {Q, BS, "name", "executable", "executable_b64", "min_cores"}
    BY DEF Q, BS
  <2>2. \A w \in {"1001", "sender", "host", "path", "2", "code"} : w \in Token
    BY WordsAreTokens DEF Words
  <2> QED
    BY <2>1, <2>2, WordWellformed
<1>4. TextsIn(j)
  <2>1. <<>> \in Text
    BY DEF Text
  <2> QED
    BY <1>1, <1>3, <2>1 DEF TextsIn
<1>5. P \in Text /\ \E at : Written(P, fields, at)
  BY <1>4, ForwardWritten
<1>6. PICK at : Written(P, fields, at)
  BY <1>5
<1>7. /\ fields \in Seq(Text) /\ Len(fields) = m
      /\ fields[1] = IntField("submission_id", <<"1001">>)
      /\ fields[2] = StringField("sender", <<"sender">>)
      /\ fields[3] = StringField("name", n)
      /\ fields[4] = StringField("username", <<"host">>)
      /\ fields[5] = StringField("executable", <<"path">>)
      /\ u => fields[6] = StringField("executable_b64", <<"code">>)
      /\ fields[m] = IntField("min_cores", <<"2">>)
  <2>1. j.code = <<>> <=> ~u
    <3>1. <<"code">> # <<>>
      OBVIOUS
    <3> QED
      BY <3>1
  <2> QED
    BY <1>4, <2>1, ForwardFieldsAre
<1>8. ForwardedJob(P) =
        [sid        |-> ExtractInt(P, "submission_id", Missing),
         name       |-> ExtractString(P, "name", Missing),
         executable |-> ExtractString(P, "executable", Missing),
         code       |-> ExtractString(P, "executable_b64", <<>>),
         min_cores  |-> ExtractInt(P, "min_cores", Missing)]
  BY DEF ForwardedJob
<1> HIDE DEF P, fields
<1>9. /\ {"submission_id", "sender", "name", "username", "executable", "executable_b64", "min_cores"} \subseteq Keys
      /\ \A key \in Keys : Key(key)
  BY KeysAreKeys DEF Keys
<1>10. /\ Hides(fields[1], "name") /\ Hides(fields[2], "name")
  <2>1. Hides(IntField("submission_id", <<"1001">>), "name")
    BY <1>3, <1>9, NumberHides
  <2>2. Hides(StringField("sender", <<"sender">>), "name")
    BY <1>3, <1>9, WordHides
  <2> QED
    BY <1>7, <2>1, <2>2
<1>11. ASSUME NEW key \in JobKeys
       PROVE  /\ Hides(fields[1], key) /\ Hides(fields[2], key) /\ Hides(fields[3], key)
              /\ Hides(fields[4], key)
              /\ key # "executable" => Hides(fields[5], key)
              /\ key # "executable_b64" /\ u => Hides(fields[6], key)
              /\ key # "min_cores" => Hides(fields[m], key)
  <2>1. /\ key \in {"executable", "executable_b64", "min_cores"} /\ key \in Keys
        /\ key \notin {"submission_id", "sender", "name", "username"}
    BY <1>9 DEF JobKeys
  <2>2. Hides(fields[1], key)
    BY <1>3, <1>7, <1>9, <2>1, NumberHides
  <2>3. Hides(fields[2], key) /\ Hides(fields[4], key)
    BY <1>3, <1>7, <1>9, <2>1, WordHides
  <2>4. Hides(fields[3], key)
    BY <1>1, <1>7, <1>9, <2>1, TextHides
  <2>5. key # "executable" => Hides(fields[5], key)
    BY <1>3, <1>7, <1>9, <2>1, WordHides
  <2>6. key # "executable_b64" /\ u => Hides(fields[6], key)
    BY <1>3, <1>7, <1>9, <2>1, WordHides
  <2>7. key # "min_cores" => Hides(fields[m], key)
    BY <1>3, <1>7, <1>9, <2>1, NumberHides
  <2> QED
    BY <2>2, <2>3, <2>4, <2>5, <2>6, <2>7
<1>12. /\ \A i \in 1..(1 - 1) : FALSE
       /\ \A i \in 1..(3 - 1) : i \in {1, 2}
       /\ \A i \in 1..(5 - 1) : i \in {1, 2, 3, 4}
       /\ \A i \in 1..(6 - 1) : i \in {1, 2, 3, 4, 5}
       /\ \A i \in 1..6 : i \in {1, 2, 3, 4, 5, 6}
       /\ \A i \in 1..(7 - 1) : i \in {1, 2, 3, 4, 5, 6}
  OBVIOUS
<1>13. ExtractInt(P, "submission_id", Missing) = <<"1001">>
  <2>1. /\ Key("submission_id") /\ "1001" \in Numbers /\ 1 \in 1..Len(fields)
        /\ fields \in Seq(Text) /\ fields[1] = IntField("submission_id", <<"1001">>)
    BY <1>7, <1>9 DEF Numbers
  <2>2. \A i \in 1..(1 - 1) : Hides(fields[i], "submission_id")
    BY <1>12
  <2> QED
    BY <1>5, <1>6, <2>1, <2>2, TakesNumber
<1>14. ExtractString(P, "name", Missing) = n
  <2>1. /\ Key("name") /\ 3 \in 1..Len(fields)
        /\ fields \in Seq(Text) /\ fields[3] = StringField("name", n)
    BY <1>7, <1>9
  <2>2. \A i \in 1..(3 - 1) : Hides(fields[i], "name")
    BY <1>10, <1>12
  <2> QED
    BY <1>1, <1>5, <1>6, <2>1, <2>2, TakesString
<1>15. ExtractString(P, "executable", Missing) = <<"path">>
  <2>1. /\ Key("executable") /\ 5 \in 1..Len(fields) /\ <<"path">> \in Text /\ Wellformed(<<"path">>)
        /\ fields \in Seq(Text) /\ fields[5] = StringField("executable", <<"path">>)
    BY <1>3, <1>7, <1>9
  <2>2. \A i \in 1..(5 - 1) : Hides(fields[i], "executable")
    BY <1>11, <1>12 DEF JobKeys
  <2> QED
    BY <1>5, <1>6, <2>1, <2>2, TakesString
<1>16. ExtractString(P, "executable_b64", <<>>) = IF u THEN <<"code">> ELSE <<>>
  <2>1. Key("executable_b64") /\ fields \in Seq(Text) /\ "executable_b64" \in JobKeys
        /\ "executable_b64" \notin {"executable", "min_cores"}
    BY <1>7, <1>9 DEF JobKeys
  <2>2. CASE u
    <3>1. /\ 6 \in 1..Len(fields) /\ <<"code">> \in Text /\ Wellformed(<<"code">>)
          /\ fields[6] = StringField("executable_b64", <<"code">>)
      BY <1>3, <1>7, <2>2
    <3>2. \A i \in 1..(6 - 1) : Hides(fields[i], "executable_b64")
      BY <1>11, <1>12, <2>1
    <3>3. ExtractString(P, "executable_b64", <<>>) = <<"code">>
      BY <1>5, <1>6, <2>1, <3>1, <3>2, TakesString
    <3> QED
      BY <2>2, <3>3
  <2>3. CASE ~u
    <3>1. \A i \in 1..Len(fields) : Hides(fields[i], "executable_b64")
      BY <1>7, <1>11, <1>12, <2>1, <2>3
    <3>2. ExtractString(P, "executable_b64", <<>>) = <<>>
      BY <1>5, <1>6, <2>1, <3>1, TakesNothing
    <3> QED
      BY <2>3, <3>2
  <2> QED
    BY <2>2, <2>3
<1>17. ExtractInt(P, "min_cores", Missing) = <<"2">>
  <2>1. /\ Key("min_cores") /\ "2" \in Numbers /\ m \in 1..Len(fields)
        /\ fields \in Seq(Text) /\ fields[m] = IntField("min_cores", <<"2">>)
    BY <1>7, <1>9 DEF Numbers
  <2>2. "min_cores" \in JobKeys /\ "min_cores" \notin {"executable", "executable_b64"}
    BY DEF JobKeys
  <2>3. \A i \in 1..(m - 1) : Hides(fields[i], "min_cores")
    <3>1. CASE u
      BY <1>11, <1>12, <2>2, <3>1
    <3>2. CASE ~u
      BY <1>11, <1>12, <2>2, <3>2
    <3> QED
      BY <3>1, <3>2
  <2> HIDE DEF m
  <2> QED
    BY <1>5, <1>6, <2>1, <2>3, TakesNumber
<1> QED
  BY <1>8, <1>13, <1>14, <1>15, <1>16, <1>17 DEF P

\* Escaped, a text can stand between quotes, and ends as it did.
LEMMA EscapedText ==
  ASSUME NEW t \in Text
  PROVE  /\ json_escape(t) \in Text
         /\ Wellformed(json_escape(t))
         /\ \A key \in Keys : ~EndsInKey(t, {key}) => ~EndsInKey(json_escape(t), {key})
<1>1. \A key \in Keys : EndsInKey(json_escape(t), {key}) => EndsInKey(t, {key})
  BY KeysAreKeys, EscapeKeepsEnd
<1> QED
  BY <1>1, EscapeLaid, EscapeWellformed

\* A replicate request, field by field.
InsertFields(r) ==
  <<StringField("request", <<"replicate">>),
    StringField("action", <<"insert">>),
    IntField("submission_id", <<"1001">>),
    StringField("job_name", json_escape(r.name)),
    StringField("sender", json_escape(<<"client-tcp">>)),
    StringField("response_status", json_escape(<<"PENDING">>)),
    StringField("client_callback_address", json_escape(r.callback)),
    StringField("forward_payload", json_escape(r.payload))>>

LEMMA InsertWritten ==
  ASSUME NEW r, {r.name, r.callback, r.payload} \subseteq Text
  PROVE  /\ InsertMessage(r) \in Text
         /\ InsertFields(r) \in Seq(Text) /\ Len(InsertFields(r)) = 8
         /\ \E at : Written(InsertMessage(r), InsertFields(r), at)
         /\ LET s == InsertFields(r)
            IN  /\ s[1] = StringField("request", <<"replicate">>)
                /\ s[2] = StringField("action", <<"insert">>)
                /\ s[3] = IntField("submission_id", <<"1001">>)
                /\ s[4] = StringField("job_name", json_escape(r.name))
                /\ s[5] = StringField("sender", json_escape(<<"client-tcp">>))
                /\ s[6] = StringField("response_status", json_escape(<<"PENDING">>))
                /\ s[7] = StringField("client_callback_address", json_escape(r.callback))
                /\ s[8] = StringField("forward_payload", json_escape(r.payload))
<1>1. \A w \in {"request", "replicate", "action", "insert", "submission_id", "1001", "job_name",
                "sender", "client-tcp", "response_status", "PENDING", "client_callback_address",
                "forward_payload"} : w \in Token
  BY WordsAreTokens DEF Words
<1>2. /\ <<"replicate">> \in Text /\ <<"insert">> \in Text /\ <<"1001">> \in Text
      /\ <<"client-tcp">> \in Text /\ <<"PENDING">> \in Text
  BY <1>1, OneToken
<1>3. /\ json_escape(r.name) \in Text /\ json_escape(r.callback) \in Text
      /\ json_escape(r.payload) \in Text /\ json_escape(<<"client-tcp">>) \in Text
      /\ json_escape(<<"PENDING">>) \in Text
  <2>1. r.name \in Text /\ r.callback \in Text /\ r.payload \in Text
    OBVIOUS
  <2> QED
    BY <1>2, <2>1, EscapedText
<1> DEFINE a == StringField("request", <<"replicate">>)
           b == StringField("action", <<"insert">>)
           c == IntField("submission_id", <<"1001">>)
           d == StringField("job_name", json_escape(r.name))
           e == StringField("sender", json_escape(<<"client-tcp">>))
           f == StringField("response_status", json_escape(<<"PENDING">>))
           g == StringField("client_callback_address", json_escape(r.callback))
           h == StringField("forward_payload", json_escape(r.payload))
           s == <<a, b, c, d, e, f, g, h>>
<1>4. /\ a \in Text /\ b \in Text /\ c \in Text /\ d \in Text /\ e \in Text /\ f \in Text
      /\ g \in Text /\ h \in Text
  BY <1>1, <1>2, <1>3, StringFieldIsText, IntFieldIsText
<1>5. InsertFields(r) = s /\ InsertMessage(r) = Object(s)
  BY DEF InsertFields, InsertMessage
<1> HIDE DEF a, b, c, d, e, f, g, h
<1>6. /\ s \in Seq(Text) /\ Len(s) = 8 /\ s # <<>>
      /\ s[1] = a /\ s[2] = b /\ s[3] = c /\ s[4] = d /\ s[5] = e /\ s[6] = f /\ s[7] = g
      /\ s[8] = h
  BY <1>4, EightFields
<1> HIDE DEF s
<1>7. Object(s) \in Text /\ \E at : Written(Object(s), s, at)
  BY <1>6, ObjectWritten
<1> QED
  BY <1>5, <1>6, <1>7 DEF a, b, c, d, e, f, g, h

\* What the backup takes out of a request is the row that went in.
LEMMA Replicated ==
  ASSUME NEW r, {r.name, r.callback, r.payload} \subseteq Text,
         \A key \in RowKeys : ~EndsInKey(r.name, {key}),
         ~EndsInKey(r.callback, {"forward_payload"})
  PROVE  ReplicatedRow(InsertMessage(r)) =
           [name |-> r.name, response |-> <<"PENDING">>, callback |-> r.callback,
            payload |-> r.payload]
<1> DEFINE P == InsertMessage(r)
           fields == InsertFields(r)
           n == json_escape(r.name)
           c == json_escape(r.callback)
           p == json_escape(r.payload)
           s == json_escape(<<"client-tcp">>)
           w == json_escape(<<"PENDING">>)
<1>1. /\ P \in Text /\ fields \in Seq(Text) /\ Len(fields) = 8
      /\ \E at : Written(P, fields, at)
      /\ fields[1] = StringField("request", <<"replicate">>)
      /\ fields[2] = StringField("action", <<"insert">>)
      /\ fields[3] = IntField("submission_id", <<"1001">>)
      /\ fields[4] = StringField("job_name", n)
      /\ fields[5] = StringField("sender", s)
      /\ fields[6] = StringField("response_status", w)
      /\ fields[7] = StringField("client_callback_address", c)
      /\ fields[8] = StringField("forward_payload", p)
  BY InsertWritten
<1>2. PICK at : Written(P, fields, at)
  BY <1>1
<1>3. r.name \in Text /\ r.callback \in Text /\ r.payload \in Text
  OBVIOUS
<1>4. \A x \in {"replicate", "insert", "1001", "client-tcp", "PENDING"} :
        x \in Token /\ x \notin {Q, BS} /\ x \notin Keys
  <2>1. \A x \in {"replicate", "insert", "1001", "client-tcp", "PENDING"} :
          x \notin {Q, BS} /\ x \notin Keys
    BY DEF Keys, Q, BS
  <2>2. \A x \in {"replicate", "insert", "1001", "client-tcp", "PENDING"} : x \in Token
    BY WordsAreTokens DEF Words
  <2> QED
    BY <2>1, <2>2
<1>5. /\ <<"client-tcp">> \in Text /\ <<"PENDING">> \in Text
      /\ \A key \in Keys : ~EndsInKey(<<"client-tcp">>, {key}) /\ ~EndsInKey(<<"PENDING">>, {key})
  BY <1>4, WordWellformed
<1>6. /\ n \in Text /\ c \in Text /\ p \in Text /\ s \in Text /\ w \in Text
      /\ Wellformed(n) /\ Wellformed(c) /\ Wellformed(p) /\ Wellformed(s) /\ Wellformed(w)
      /\ \A key \in Keys : ~EndsInKey(s, {key}) /\ ~EndsInKey(w, {key})
      /\ \A key \in Keys : ~EndsInKey(r.name, {key}) => ~EndsInKey(n, {key})
      /\ \A key \in Keys : ~EndsInKey(r.callback, {key}) => ~EndsInKey(c, {key})
  BY <1>3, <1>5, EscapedText
<1>7. json_unescape(n) = r.name /\ json_unescape(c) = r.callback /\ json_unescape(p) = r.payload
      /\ json_unescape(w) = <<"PENDING">>
  BY <1>3, <1>5, UnescapeOfEscape
<1>8. ReplicatedRow(P) =
        [name     |-> json_unescape(ExtractString(P, "job_name", <<>>)),
         response |-> json_unescape(ExtractString(P, "response_status", <<>>)),
         callback |-> json_unescape(ExtractString(P, "client_callback_address", <<>>)),
         payload  |-> json_unescape(ExtractString(P, "forward_payload", <<>>))]
  BY DEF ReplicatedRow
<1> HIDE DEF P, fields, n, c, p, s, w
<1>9. /\ {"request", "action", "submission_id", "job_name", "sender", "response_status",
          "client_callback_address", "forward_payload"} \subseteq Keys
      /\ \A key \in Keys : Key(key)
  BY KeysAreKeys DEF Keys
<1>10. ASSUME NEW key \in {"job_name", "response_status", "client_callback_address", "forward_payload"}
       PROVE  Hides(fields[1], key) /\ Hides(fields[2], key) /\ Hides(fields[3], key)
  <2>1. key \in Keys /\ key \notin {"request", "action", "submission_id"}
    BY <1>9
  <2>2. Hides(fields[1], key) /\ Hides(fields[2], key)
    BY <1>1, <1>4, <1>9, <2>1, WordHides
  <2>3. Hides(fields[3], key)
    BY <1>1, <1>4, <1>9, <2>1, NumberHides
  <2> QED
    BY <2>2, <2>3
<1>11. ASSUME NEW key \in RowKeys
       PROVE  /\ Hides(fields[4], key) /\ Hides(fields[5], key)
              /\ key # "response_status" => Hides(fields[6], key)
  <2>1. key \in Keys /\ key \notin {"job_name", "sender"}
    BY <1>9 DEF RowKeys
  <2>2. Hides(fields[4], key)
    <3>1. /\ "job_name" \in Keys /\ n \in Text /\ Wellformed(n) /\ "job_name" # key
          /\ fields[4] = StringField("job_name", n)
      BY <1>1, <1>6, <1>9, <2>1
    <3>2. ~EndsInKey(n, {key})
      BY <1>6, <2>1
    <3> QED
      BY <2>1, <3>1, <3>2, TextHides
  <2>3. Hides(fields[5], key)
    <3>1. /\ "sender" \in Keys /\ s \in Text /\ Wellformed(s) /\ "sender" # key
          /\ fields[5] = StringField("sender", s)
      BY <1>1, <1>6, <1>9, <2>1
    <3>2. ~EndsInKey(s, {key})
      BY <1>6, <2>1
    <3> QED
      BY <2>1, <3>1, <3>2, TextHides
  <2>4. key # "response_status" => Hides(fields[6], key)
    <3>1. /\ "response_status" \in Keys /\ w \in Text /\ Wellformed(w)
          /\ fields[6] = StringField("response_status", w)
      BY <1>1, <1>6, <1>9
    <3>2. ~EndsInKey(w, {key})
      BY <1>6, <2>1
    <3> QED
      BY <2>1, <3>1, <3>2, TextHides
  <2> QED
    BY <2>2, <2>3, <2>4
<1>12. Hides(fields[7], "forward_payload")
  <2>1. /\ "client_callback_address" \in Keys /\ "forward_payload" \in Keys
        /\ "client_callback_address" # "forward_payload" /\ c \in Text /\ Wellformed(c)
        /\ fields[7] = StringField("client_callback_address", c)
    BY <1>1, <1>6, <1>9
  <2>2. ~EndsInKey(c, {"forward_payload"})
    BY <1>6, <2>1
  <2> QED
    BY <2>1, <2>2, TextHides
<1>13. /\ \A i \in 1..(4 - 1) : i \in {1, 2, 3}
       /\ \A i \in 1..(6 - 1) : i \in {1, 2, 3, 4, 5}
       /\ \A i \in 1..(7 - 1) : i \in {1, 2, 3, 4, 5, 6}
       /\ \A i \in 1..(8 - 1) : i \in {1, 2, 3, 4, 5, 6, 7}
  OBVIOUS
<1>14. fields \in Seq(Text) /\ 4 \in 1..Len(fields) /\ 6 \in 1..Len(fields) /\ 7 \in 1..Len(fields)
       /\ 8 \in 1..Len(fields)
  BY <1>1
<1>15. ExtractString(P, "job_name", <<>>) = n
  <2>1. Key("job_name") /\ fields[4] = StringField("job_name", n) /\ P \in Text
        /\ n \in Text /\ Wellformed(n)
    BY <1>1, <1>6, <1>9
  <2>2. \A i \in 1..(4 - 1) : Hides(fields[i], "job_name")
    BY <1>10, <1>13
  <2> QED
    BY <1>2, <1>14, <2>1, <2>2, TakesString
<1>16. ExtractString(P, "response_status", <<>>) = w
  <2>1. Key("response_status") /\ fields[6] = StringField("response_status", w) /\ P \in Text
        /\ w \in Text /\ Wellformed(w)
    BY <1>1, <1>6, <1>9
  <2>2. \A i \in 1..(6 - 1) : Hides(fields[i], "response_status")
    BY <1>10, <1>11, <1>13 DEF RowKeys
  <2> QED
    BY <1>2, <1>14, <2>1, <2>2, TakesString
<1>17. ExtractString(P, "client_callback_address", <<>>) = c
  <2>1. Key("client_callback_address") /\ fields[7] = StringField("client_callback_address", c)
        /\ P \in Text /\ c \in Text /\ Wellformed(c)
    BY <1>1, <1>6, <1>9
  <2>2. \A i \in 1..(7 - 1) : Hides(fields[i], "client_callback_address")
    BY <1>10, <1>11, <1>13 DEF RowKeys
  <2> QED
    BY <1>2, <1>14, <2>1, <2>2, TakesString
<1>18. ExtractString(P, "forward_payload", <<>>) = p
  <2>1. Key("forward_payload") /\ fields[8] = StringField("forward_payload", p) /\ P \in Text
        /\ p \in Text /\ Wellformed(p)
    BY <1>1, <1>6, <1>9
  <2>2. \A i \in 1..(8 - 1) : Hides(fields[i], "forward_payload")
    BY <1>10, <1>11, <1>12, <1>13 DEF RowKeys
  <2> QED
    BY <1>2, <1>14, <2>1, <2>2, TakesString
<1> QED
  BY <1>7, <1>8, <1>15, <1>16, <1>17, <1>18 DEF P

-----------------------------------------------------------------------------
(***************************************************************************)
(* The way of a job.                                                       *)
(***************************************************************************)

\* The client's payload comes whole or not at all, every record is what was
\* taken out of the text before it, and only then are there any.
Underway ==
  /\ name \in Names
  /\ uploaded \in BOOLEAN
  /\ payload = ClientPayload(name, uploaded)
  /\ received \in {<<>>, payload}
  /\ stage \in {"sending", "dropped", "received", "rejected", "replicated", "failed", "running", "decoding"}
  /\ \A j \in job : j = ReceivedJob(payload)
  /\ \A r \in row : \E j \in job : r = ReplicatedRow(InsertMessage(RowOf(j)))
  /\ \A t \in task : \E p \in Forwarded : t = ForwardedJob(p)
  /\ stage = "sending" => job = {}
  /\ stage \in {"sending", "received"} => row = {} /\ task = {}
  /\ stage = "rejected" => \E j \in job : ~Parses(j)

LEMMA InitUnderway ==
  ASSUME Init
  PROVE  Underway
BY DEF Init, F!Init, Underway

\* What the reader returns.
LEMMA ReceivedKept ==
  ASSUME F!FramingAssumption, IInv, [F!Next]_<<payload, F!fVars>>, received \in {<<>>, payload}
  PROVE  received' \in {<<>>, payload}
<1>1. ASSUME NEW n \in 1..(sent - got), F!ReadSome(n) PROVE received' \in {<<>>, payload}
  <2>1. n \in Nat
    OBVIOUS
  <2> QED
    BY <1>1, <2>1, ReadEnds
<1> QED
  BY <1>1 DEF F!Next, F!Send, F!Read, F!SendHeader, F!SendSome, F!Stalls, F!Breaks, F!ReadNothing, F!fVars

LEMMA NextUnderway ==
  ASSUME IInv, Underway, [Next]_vars
  PROVE  Underway'
<1>1. UNCHANGED inputs
  BY DEF Next, Send, Stalls, Breaks, Read, Receive, Replicate, Execute, Decode, vars, inputs,
         F!Send, F!SendHeader, F!SendSome, F!Stalls, F!Breaks, F!Read, F!ReadSome, F!ReadNothing
<1>2. received' \in {<<>>, payload}
  <2>1. [F!Next]_<<payload, F!fVars>>
    BY DEF Next, Send, Stalls, Breaks, Read, Receive, Replicate, Execute, Decode, F!Next,
           vars, inputs, fVars, F!fVars
  <2>2. F!FramingAssumption
    BY UploadAssumption
  <2> QED
    BY <2>1, <2>2, ReceivedKept DEF Underway
<1>3. /\ name' \in Names
      /\ uploaded' \in BOOLEAN
      /\ payload' = ClientPayload(name', uploaded')
      /\ payload' = payload
      /\ received' \in {<<>>, payload'}
  BY <1>1, <1>2 DEF Underway, inputs
<1>4. CASE UNCHANGED rVars
  BY <1>3, <1>4 DEF Underway, rVars, Forwarded
<1>5. CASE Receive
  <2>1. /\ stage = "sending" /\ row = {} /\ task = {} /\ job = {}
        /\ row' = {} /\ task' = {}
    BY <1>5 DEF Receive, Underway
  <2>2. CASE received = <<>>
    <3>1. stage' = "dropped" /\ job' = {}
      BY <1>5, <2>1, <2>2 DEF Receive
    <3> QED
      BY <1>3, <2>1, <3>1 DEF Underway
  <2>3. CASE received # <<>>
    <3>1. received = payload
      BY <2>3 DEF Underway
    <3>2. /\ job' = {ReceivedJob(payload)}
          /\ stage' = IF \A j \in job' : Parses(j) THEN "received" ELSE "rejected"
      BY <1>5, <2>3, <3>1 DEF Receive
    <3>3. stage' \in {"received", "rejected"} /\ (stage' = "rejected" => \E j \in job' : ~Parses(j))
      BY <3>2
    <3> QED
      BY <1>3, <2>1, <3>2, <3>3 DEF Underway
  <2> QED
    BY <2>2, <2>3
<1>6. CASE Replicate
  <2>1. /\ stage = "received" /\ stage' = "replicated" /\ task = {} /\ task' = {} /\ job' = job
        /\ row' = {ReplicatedRow(InsertMessage(RowOf(j))) : j \in job}
    BY <1>6 DEF Replicate, Underway
  <2> QED
    BY <1>3, <2>1 DEF Underway
<1>7. CASE Execute
  <2>1. /\ \E p \in Forwarded : task' = {ForwardedJob(p)}
        /\ stage' \in {"failed", "running", "decoding"}
        /\ job' = job /\ row' = row /\ Forwarded' = Forwarded
    BY <1>7 DEF Execute, Forwarded
  <2> QED
    BY <1>3, <2>1 DEF Underway
<1>8. CASE Send \/ Stalls \/ Breaks \/ Read \/ Decode \/ UNCHANGED vars
  BY <1>4, <1>8 DEF Send, Stalls, Breaks, Read, Decode, vars
<1> QED
  BY <1>5, <1>6, <1>7, <1>8 DEF Next

LEMMA EndsInOneKey ==
  ASSUME NEW t, NEW keys, ~EndsInKey(t, keys), NEW key \in keys
  PROVE  ~EndsInKey(t, {key})
BY DEF EndsInKey

\* The row is the job's, if the name does not end in one of the fields looked
\* for behind it.
LEMMA RowIsReplicated ==
  ASSUME Underway, NEW j \in job, ~EndsInKey(name, RowKeys)
  PROVE  ReplicatedRow(InsertMessage(RowOf(j))) =
           [name |-> j.name, response |-> <<"PENDING">>, callback |-> j.callback,
            payload |-> ForwardPayload(j)]
<1>1. j = ReceivedJob(ClientPayload(name, uploaded)) /\ name \in Names /\ uploaded \in BOOLEAN
  BY DEF Underway
<1>2. \A key \in RowKeys : ~EndsInKey(name, {key})
  BY EndsInOneKey
<1>3. /\ j.name = name
      /\ j.callback = <<"address">>
      /\ {j.name, j.executable, j.code, j.min_cores, j.callback} \subseteq Text
  <2>1. "client_callback_address" \in RowKeys
    BY DEF RowKeys
  <2> QED
    BY <1>1, <1>2, <2>1, Received
<1>4. ForwardPayload(j) \in Text
  <2>1. TextsIn(j)
    BY <1>3 DEF TextsIn
  <2> QED
    BY <2>1, ForwardWritten
<1> DEFINE r == RowOf(j)
<1>5. r.name = j.name /\ r.callback = j.callback /\ r.payload = ForwardPayload(j)
  BY DEF RowOf
<1> HIDE DEF r
<1>6. ~EndsInKey(r.callback, {"forward_payload"})
  <2>1. "address" \in Token /\ "address" \notin {Q, BS} /\ "address" # "forward_payload"
    BY WordsAreTokens DEF Words, Q, BS
  <2> QED
    BY <1>3, <1>5, <2>1, WordWellformed
<1>7. {r.name, r.callback, r.payload} \subseteq Text /\ \A key \in RowKeys : ~EndsInKey(r.name, {key})
  BY <1>2, <1>3, <1>4, <1>5
<1>8. ReplicatedRow(InsertMessage(r)) =
        [name |-> r.name, response |-> <<"PENDING">>, callback |-> r.callback, payload |-> r.payload]
  BY <1>6, <1>7, Replicated
<1> QED
  BY <1>5, <1>8 DEF r

LEMMA UnderwayReplicaIsRow == Underway => ReplicaIsRow
<1> SUFFICES ASSUME Underway, NEW r \in row, NEW j \in job, ~EndsInKey(name, RowKeys)
             PROVE  r = [name |-> j.name, response |-> <<"PENDING">>, callback |-> j.callback,
                         payload |-> ForwardPayload(j)]
  BY DEF ReplicaIsRow
<1>1. r = ReplicatedRow(InsertMessage(RowOf(j)))
  BY DEF Underway
<1> QED
  BY <1>1, RowIsReplicated

LEMMA UnderwayNodeGetsJob == Underway => NodeGetsJob
<1> SUFFICES ASSUME Underway, ~EndsInKey(name, JobKeys \cup RowKeys)
             PROVE  /\ stage # "rejected"
                    /\ \A t \in task :
                         t = [sid        |-> <<"1001">>,
                              name       |-> name,
                              executable |-> <<"path">>,
                              code       |-> IF uploaded THEN <<"code">> ELSE <<>>,
                              min_cores  |-> <<"2">>]
  BY DEF NodeGetsJob
<1>1. name \in Names /\ uploaded \in BOOLEAN /\ name # Missing
  BY NamesAreTexts DEF Underway
<1>2. \A key \in JobKeys \cup RowKeys : ~EndsInKey(name, {key})
  BY EndsInOneKey
<1>3. ~EndsInKey(name, RowKeys)
  BY DEF EndsInKey
<1>4. ASSUME NEW j \in job
      PROVE  /\ j = ReceivedJob(payload)
             /\ j.name = name
             /\ j.callback = <<"address">>
             /\ j.executable = <<"path">>
             /\ j.min_cores = <<"2">>
             /\ j.code = IF uploaded THEN <<"code">> ELSE <<>>
  <2>1. j = ReceivedJob(ClientPayload(name, uploaded)) /\ j = ReceivedJob(payload)
    BY DEF Underway
  <2>2. {"executable", "executable_b64", "min_cores"} \subseteq JobKeys /\ "client_callback_address" \in RowKeys
    BY DEF JobKeys, RowKeys
  <2>3. LET k == ReceivedJob(ClientPayload(name, uploaded))
        IN  /\ k.name = name
            /\ k.callback = <<"address">>
            /\ k.executable = <<"path">>
            /\ k.min_cores = <<"2">>
            /\ k.code = IF uploaded THEN <<"code">> ELSE <<>>
    BY <1>1, <1>2, <2>2, Received
  <2> QED
    BY <2>1, <2>3
<1>5. ASSUME NEW j \in job PROVE Parses(j)
  <2>1. DOMAIN j = {"name", "executable", "code", "min_cores", "callback"}
    BY <1>4 DEF ReceivedJob
  <2>2. /\ <<"path">> # Missing /\ <<"code">> # Missing /\ <<>> # Missing /\ <<"2">> # Missing
        /\ <<"address">> # Missing
    BY DEF Missing
  <2> QED
    BY <1>1, <1>4, <2>1, <2>2 DEF Parses
<1>6. ASSUME NEW p \in Forwarded PROVE \E j \in job : p = ForwardPayload(j)
  <2>1. ASSUME NEW r \in row PROVE \E j \in job : r.payload = ForwardPayload(j)
    <3>1. PICK j \in job : r = ReplicatedRow(InsertMessage(RowOf(j)))
      BY DEF Underway
    <3> QED
      BY <1>3, <3>1, RowIsReplicated
  <2> QED
    BY <2>1 DEF Forwarded
<1>7. ASSUME NEW t \in task
      PROVE  t = [sid |-> <<"1001">>, name |-> name, executable |-> <<"path">>,
                  code |-> IF uploaded THEN <<"code">> ELSE <<>>, min_cores |-> <<"2">>]
  <2>1. PICK p \in Forwarded : t = ForwardedJob(p)
    BY DEF Underway
  <2>2. PICK j \in job : p = ForwardPayload(j)
    BY <1>6
  <2> QED
    BY <1>1, <1>2, <1>4, <2>1, <2>2, ForwardedIsJob
<1> QED
  BY <1>5, <1>7 DEF Underway

\* What a client sends is a text, and so a sequence of its own tokens.
LEMMA InitFits == Init => Fits
<1> SUFFICES ASSUME Init
             PROVE  Fits
  OBVIOUS
<1>1. payload = ClientPayload(name, uploaded) /\ name \in Names /\ uploaded \in BOOLEAN
  BY DEF Init
<1>2. payload \in Text
  BY <1>1, NamesAreTexts, ClientPayloadWritten
<1>3. payload \in Seq({payload[i] : i \in DOMAIN payload})
  <2>1. payload \in [1..Len(payload) -> Token] /\ Len(payload) \in Nat
    BY <1>2 DEF Text
  <2>2. payload \in [1..Len(payload) -> {payload[i] : i \in DOMAIN payload}]
    BY <2>1
  <2> QED
    BY <2>1, <2>2, IsASeq
<1>4. Len(payload) < Base^HeaderLength
  BY <1>1, UploadAssumption
<1> QED
  BY <1>3, <1>4 DEF Fits

\* Nothing that is done with a job disturbs the connection it came on: the
\* client's connection carries its payload whole or not at all.
THEOREM ChannelRefinement == Spec => ChannelImplemented
<1>1. Init => F!Init /\ Fits
  BY InitFits DEF Init
<1>2. [Next]_vars => [F!Next]_<<payload, F!fVars>>
  BY DEF Next, Send, Stalls, Breaks, Read, Receive, Replicate, Execute, Decode, F!Next,
         vars, inputs, fVars, F!fVars
<1>3. F!FramingAssumption
  BY UploadAssumption
<1>4. Connection => F!ChannelImplemented
  BY <1>3, ConnectionRefinement
<1> QED
  BY <1>1, <1>2, <1>4, PTL DEF Spec, Connection, ChannelImplemented

\* What is on its way, at every stage and by either master.
THEOREM UploadInvariant == Spec => [](IInv /\ Underway)
<1>1. Init => IInv /\ Underway
  <2>1. Init => F!Init /\ Fits
    BY InitFits DEF Init
  <2>2. F!Init /\ Fits => IInv
    BY UploadAssumption, InitInOrder
  <2> QED
    BY <2>1, <2>2, InitUnderway
<1>2. IInv /\ Underway /\ [Next]_vars => (IInv /\ Underway)'
  <2>1. [Next]_vars => [F!Next]_<<payload, F!fVars>>
    BY DEF Next, Send, Stalls, Breaks, Read, Receive, Replicate, Execute, Decode, F!Next,
           vars, inputs, fVars, F!fVars
  <2>2. F!FramingAssumption
    BY UploadAssumption
  <2>3. IInv /\ [Next]_vars => IInv'
    BY <2>1, <2>2, InOrderKept
  <2> QED
    BY <2>3, NextUnderway
<1> QED
  BY <1>1, <1>2, PTL DEF Spec

\* Whatever the name is made of, its quotes, backslashes, line ends, colons
\* and braces change nothing of what the backup stores, unless it ends in the
\* name of a field that is looked for behind it.
THEOREM ReplicaIsTheRow == Spec => []ReplicaIsRow
<1>1. Underway => ReplicaIsRow
  BY UnderwayReplicaIsRow
<1> QED
  BY <1>1, UploadInvariant, PTL

\* Nor of what the node executes, by either master; and no parser refuses it.
THEOREM NodeGetsTheJob == Spec => []NodeGetsJob
<1>1. Underway => NodeGetsJob
  BY UnderwayNodeGetsJob
<1> QED
  BY <1>1, UploadInvariant, PTL
=============================================================================
