------------------------------ MODULE MCUpload ------------------------------
(***************************************************************************)
(* A small instance of Upload: every name of up to three tokens with one   *)
(* file, every small file with a plain name.  The bytes of the connection  *)
(* come in pieces of every size for the names of one token; for the other  *)
(* inputs a send or a read returns all it can.                             *)
(***************************************************************************)
EXTENDS Upload

Tokens == {BS, Q, NL, "n", Colon, Close, "executable", "executable_b64", "forward_payload"}

\* What a job file can hold as a string: no quote but behind a backslash.
SomeNames ==
  {t \in UNION {[1..n -> Tokens] : n \in 1..3} : EndOfString(t \o <<Q>>, 1) = Len(t) + 1}

Plain == <<"n">>
InPieces == name = Plain /\ data = <<77>>

MCInit ==
  /\ Init
  /\ name = Plain \/ data = <<77>>
  /\ uploaded \/ data \in {<<>>, <<77>>}

Whole(n) == n \in {0, HeaderLength, F!Total}

MCNext ==
  /\ Next
  /\ InPieces \/ (Whole(sent') /\ Whole(got'))

MCSpec == MCInit /\ [][MCNext]_vars /\ Fairness
=============================================================================
