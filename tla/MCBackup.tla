------------------------------ MODULE MCBackup ------------------------------
(* Small instances of Backup. *)
EXTENDS Backup, TLC

Symmetry == Permutations(Jobs)
=============================================================================
