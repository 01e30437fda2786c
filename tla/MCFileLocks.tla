----------------------------- MODULE MCFileLocks -----------------------------
(* Constants for model checking FileLocks. *)
EXTENDS FileLocks, TLC

Symmetric == Permutations(Entries) \cup Permutations(Workers)
=============================================================================
