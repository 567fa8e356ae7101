------------------------------- MODULE Channel -------------------------------
(***************************************************************************)
(* What the programs take a connection for when they exchange a payload:   *)
(* the reader gets the payload as it was sent, once, or the empty string,  *)
(* which every caller takes for "nothing arrived", and that only if the    *)
(* connection broke.                                                       *)
(***************************************************************************)
EXTENDS Sequences

VARIABLES payload, broken, finished, received

vars == <<payload, broken, finished, received>>

Init ==
  /\ broken = FALSE
  /\ finished = FALSE
  /\ received = <<>>

Break ==
  /\ ~finished
  /\ broken' = TRUE
  /\ UNCHANGED <<payload, finished, received>>

Deliver ==
  /\ ~finished
  /\ finished' = TRUE
  /\ received' = payload
  /\ UNCHANGED <<payload, broken>>

Lose ==
  /\ broken
  /\ ~finished
  /\ finished' = TRUE
  /\ UNCHANGED <<payload, broken, received>>

Next == Break \/ Deliver \/ Lose

Spec == Init /\ [][Next]_vars
=============================================================================
