------------------------------- MODULE Base64 -------------------------------
(***************************************************************************)
(* How an executable travels: base64_encode in the client, base64_decode   *)
(* in the compute node, src/common/base64.hpp.  A character is its number  *)
(* in the alphabet; Pad is '='.  The decoder is a loop over the text, one  *)
(* character a step, with a bit buffer; it is modelled as that loop.       *)
(*                                                                         *)
(* buf is a uint32_t that is shifted left without a mask, so it overflows. *)
(* The loop reads its low 14 bits only; the model keeps it modulo 2^20.    *)
(***************************************************************************)
EXTENDS Integers, Sequences

CONSTANTS Bytes,     \* the bytes a file is made of
          MaxLength  \* bound: length of a file

\* Assumed of the constants by whoever gives them values.
Base64Assumption == Bytes \subseteq 0..255 /\ MaxLength \in Nat

Pad == 64
BufModulus == 2^20

VARIABLES data, \* the file
          text, \* what base64_encode made of it
          pc,   \* decoding, padding (behind the loop), done, thrown
          pos,  \* the next character of text
          buf, bits, pad, out

vars == <<data, text, pc, pos, buf, bits, pad, out>>

ByteAt(d, i) == IF i <= Len(d) THEN d[i] ELSE 0

\* Three bytes become four characters; in the last group, the characters
\* that stand for no byte of the file are '='.
Encode(d) ==
  [m \in 1..(4 * ((Len(d) + 2) \div 3)) |->
     LET first == 3 * ((m - 1) \div 4) + 1
         k     == (m - 1) % 4
         n     == 65536 * ByteAt(d, first) + 256 * ByteAt(d, first + 1)
                    + ByteAt(d, first + 2)
     IN  IF first + k - 1 > Len(d) THEN Pad ELSE (n \div 64^(3 - k)) % 64]

Files == UNION {[1..n -> Bytes] : n \in 0..MaxLength}

Init ==
  /\ data \in Files
  /\ text = Encode(data)
  /\ pc = "decoding"
  /\ pos = 1
  /\ buf = 0
  /\ bits = 0
  /\ pad = 0
  /\ out = <<>>

\* Mutant of Sextet: a byte is taken only once nine bits are there.
SextetLate(v) ==
  /\ buf' = (64 * buf + v) % BufModulus
  /\ IF bits + 6 > 8
     THEN /\ bits' = bits - 2
          /\ out' = Append(out, (buf' \div 2^bits') % 256)
     ELSE bits' = bits + 6 /\ UNCHANGED out

\* Six more bits, and a byte as soon as there are eight.
Sextet(v) ==
  /\ buf' = (64 * buf + v) % BufModulus
  /\ IF bits + 6 >= 8
     THEN /\ bits' = bits - 2
          /\ out' = Append(out, (buf' \div 2^bits') % 256)
     ELSE bits' = bits + 6 /\ UNCHANGED out

Character ==
  /\ pc = "decoding"
  /\ pos <= Len(text)
  /\ pos' = pos + 1
  /\ IF text[pos] = Pad
     THEN pad' = pad + 1 /\ UNCHANGED <<buf, bits, out>>
     ELSE Sextet(text[pos]) /\ UNCHANGED pad
  /\ UNCHANGED <<data, text, pc>>

EndOfText ==
  /\ pc = "decoding"
  /\ pos > Len(text)
  /\ pc' = "padding"
  /\ UNCHANGED <<data, text, pos, buf, bits, pad, out>>

\* Mutant of Padding: the last byte is dropped whether or not there is a '='.
PaddingAlways ==
  /\ pc = "padding"
  /\ pc' = "done"
  /\ out' = SubSeq(out, 1, Len(out) - 1)
  /\ UNCHANGED <<data, text, pos, buf, bits, pad>>

\* out.resize(out.size() - pad), or runtime_error("Invalid base64 padding").
Padding ==
  /\ pc = "padding"
  /\ IF pad > 0 /\ (pad > 2 \/ Len(out) < pad)
     THEN pc' = "thrown" /\ UNCHANGED out
     ELSE pc' = "done" /\ out' = SubSeq(out, 1, Len(out) - pad)
  /\ UNCHANGED <<data, text, pos, buf, bits, pad>>

Next == Character \/ EndOfText \/ Padding

Spec == Init /\ [][Next]_vars

-----------------------------------------------------------------------------
\* Until the padding is handled the decoder has emitted a prefix of the file,
\* as much of it as the characters it has read hold, in spite of the buffer's
\* overflow; behind the loop, the whole file (base64.hpp:77-94).
DecodesPrefix ==
  pc \in {"decoding", "padding"} =>
    /\ Len(out) = (6 * (pos - 1 - pad)) \div 8
    /\ out = SubSeq(data, 1, Len(out))
    /\ pc = "padding" => out = data

\* A file whose length is a multiple of three arrives as it was.
AlignedRoundTrip ==
  Len(data) % 3 = 0 => pc # "thrown" /\ (pc = "done" => out = data)

\* designdoc.md:79: the compute node decodes the embedded executable, that
\* is, it gets the file the client encoded.
RoundTrip == pc # "thrown" /\ (pc = "done" => out = data)
=============================================================================
