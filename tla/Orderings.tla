------------------------------ MODULE Orderings ------------------------------
(* The sequences an Array.sort may leave.                                   *)
EXTENDS Integers, FiniteSets

(* The members of a set, none after one that it precedes. *)
Orderings(S, precedes(_, _)) ==
    {seq \in [1 .. Cardinality(S) -> S] :
        \A i, j \in 1 .. Cardinality(S) : i < j => seq[i] # seq[j] /\ ~ precedes(seq[j], seq[i])}
=============================================================================
