----------------------------- MODULE MCPrimary -----------------------------
(* Small instances of Primary. *)
EXTENDS Primary, TLC

\* Jobs and nodes are interchangeable: no definition compares them but for
\* equality, and ids are handed out by arrival.
Symmetry == Permutations(Jobs) \cup Permutations(Nodes)
=============================================================================
