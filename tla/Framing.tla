------------------------------- MODULE Framing -------------------------------
(***************************************************************************)
(* A payload on a TCP connection: send_socket_payload at one end and       *)
(* read_socket_payload at the other (master.cpp, backup.cpp; the same      *)
(* loops are send_payload and read_payload in compute.cpp and client.cpp). *)
(* A header of eight bytes holds the length, then the payload follows; a   *)
(* send may take, and a read may return, fewer bytes than asked for, and   *)
(* either end of the connection may go at any time.                        *)
(***************************************************************************)
EXTENDS Integers, Sequences

CONSTANTS HeaderLength, \* 8
          Base          \* 256: a header byte is a digit

VARIABLES
  payload,
  sender,   \* header, body: before the header, in the loop; sent: true was
            \* returned; broken: the reader is told of the end of the connection;
            \* stalled: no more bytes will come, and the reader is not told
  sent,     \* bytes the connection has taken
  got,      \* bytes the reader has
  reader,   \* reading, whole, nothing
  received  \* what read_socket_payload returned

fVars == <<sender, sent, got, reader, received>>

\* Most significant digit first.
Header(len) == [i \in 1..HeaderLength |-> (len \div Base^(HeaderLength - i)) % Base]

Stream == Header(Len(payload)) \o payload
Total == HeaderLength + Len(payload)

\* len = (len << 8) | byte, for each byte of the header.
LengthOf(header) ==
  LET len[i \in 0..Len(header)] == IF i = 0 THEN 0 ELSE Base * len[i - 1] + header[i]
  IN  len[Len(header)]

\* Assumed of the constants by whoever gives them values.  The last two
\* conjuncts are the laws of ^, of which the prover knows nothing.
FramingAssumption ==
  /\ HeaderLength \in Nat \ {0}
  /\ Base \in Nat \ {0, 1}
  /\ Base^0 = 1
  /\ \A k \in 0..(HeaderLength - 1) : Base^(k + 1) = Base * Base^k

Init ==
  /\ sender = "header"
  /\ sent = 0
  /\ got = 0
  /\ reader = "reading"
  /\ received = <<>>

\* A header that is not taken whole ends the call: false is returned, which
\* the client does not look at.  It keeps the socket open and waits for the
\* answer to a request it has not sent (client.cpp:336-340).
SendHeader(n) ==
  /\ sender = "header"
  /\ n \in 1..HeaderLength
  /\ sent' = n
  /\ sender' = IF n < HeaderLength THEN "stalled"
               ELSE IF payload = <<>> THEN "sent" ELSE "body"
  /\ UNCHANGED <<payload, got, reader, received>>

SendSome(n) ==
  /\ sender = "body"
  /\ n \in 1..(Total - sent)
  /\ sent' = sent + n
  /\ sender' = IF sent' = Total THEN "sent" ELSE "body"
  /\ UNCHANGED <<payload, got, reader, received>>

\* A send is interrupted, with the socket left open, or the sender's host or
\* the network is gone without a FIN or RST: no reader has a receive timeout.
Stalls ==
  /\ sender \notin {"broken", "stalled"}
  /\ reader = "reading"
  /\ sender' = "stalled"
  /\ UNCHANGED <<payload, sent, got, reader, received>>

\* The sender closes the connection or dies; what the reader does not have
\* yet may be lost, even if the sender has returned true.
Breaks ==
  /\ sender # "broken"
  /\ reader = "reading"
  /\ sender' = "broken"
  /\ UNCHANGED <<payload, sent, got, reader, received>>

\* Mutant of Wanted: the second loop waits for a terminator as well.
WantedWithEnd(have) ==
  IF have < HeaderLength THEN HeaderLength
  ELSE HeaderLength + LengthOf(Header(Len(payload))) + 1

\* How far the reader's current loop goes, with `have' bytes read.
Wanted(have) ==
  IF have < HeaderLength THEN HeaderLength
  ELSE HeaderLength + LengthOf(Header(Len(payload)))

\* Mutant of ReadSome: one read is taken to return all that was asked for.
ReadSomeOnce(n) ==
  /\ reader = "reading"
  /\ n \in 1..(sent - got)
  /\ got + n <= Wanted(got)
  /\ got' = got + n
  /\ IF got' >= HeaderLength /\ (got >= HeaderLength \/ got' = Wanted(got'))
     THEN reader' = "whole" /\ received' = SubSeq(Stream, HeaderLength + 1, got')
     ELSE UNCHANGED <<reader, received>>
  /\ UNCHANGED <<payload, sender, sent>>

ReadSome(n) ==
  /\ reader = "reading"
  /\ n \in 1..(sent - got)
  /\ got + n <= Wanted(got)
  /\ got' = got + n
  /\ IF got' = Wanted(got')
     THEN reader' = "whole" /\ received' = SubSeq(Stream, HeaderLength + 1, got')
     ELSE UNCHANGED <<reader, received>>
  /\ UNCHANGED <<payload, sender, sent>>

\* read returns 0 or an error.
ReadNothing ==
  /\ reader = "reading"
  /\ sender = "broken"
  /\ reader' = "nothing"
  /\ UNCHANGED <<payload, sender, sent, got, received>>

Send == \E n \in 1..Total : SendHeader(n) \/ SendSome(n)
Read == (\E n \in 1..(sent - got) : ReadSome(n)) \/ ReadNothing

Next == Send \/ Stalls \/ Breaks \/ Read

-----------------------------------------------------------------------------
\* Whatever pieces the bytes come in and wherever the connection breaks, the
\* reader returns the payload or nothing, never a part of it or more than it,
\* and nothing only if the connection broke (master.cpp:315-358).
C == INSTANCE Channel WITH broken <- sender = "broken", finished <- reader # "reading"
ChannelImplemented == C!Spec
=============================================================================
