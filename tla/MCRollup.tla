------------------------------ MODULE MCRollup ------------------------------
(* Instances of Rollup for TLC: one campus with two batches, a student in   *)
(* each, and sets aimed at everyone or at one batch.                        *)
EXTENDS Rollup, TLC

CONSTANTS s1, s2, s3, a1, a2, a3, q1, q2, p1, p2, c1, b1, b2

Of(campus, batch) == [campus |-> campus, batch |-> batch]
BothScopes == {Everyone, Of(c1, b1), Of(c1, b2)}
BatchScopes == {Of(c1, b1), Of(c1, b2)}
OneScope == {Of(c1, b1)}
OneHome == [s \in Students |-> Of(c1, b1)]
BatchHomes == [s \in Students |-> IF s = s1 THEN Of(c1, b1) ELSE Of(c1, b2)]
FromStart == [s \in Students |-> 1]

ProcSymmetry == Permutations(Procs)

=============================================================================
