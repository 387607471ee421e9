--------------------------- MODULE MCEmailReports ---------------------------
(* Instances of EmailReports for TLC: the reports of one day and batch.     *)
EXTENDS EmailReports, TLC

CONSTANTS day

SameAudience == [r \in Reports |-> day]
Symmetric == Permutations(Reports) \cup Permutations(Callers) \cup Permutations(Contents)
=============================================================================
