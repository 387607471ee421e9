------------------------------- MODULE MCCache -------------------------------
(* An instance of Cache for TLC. *)
EXTENDS Cache, TLC

ProcSymmetry == Permutations(Procs)
=============================================================================
