-------------------------- MODULE MCBaselineTests --------------------------
(* An instance of BaselineTests for TLC: three students of two campuses, of *)
(* whom one never opens a test; a problem solved before it, one during it. *)
EXTENDS BaselineTests

Sub(s, p, ok, at) == [student |-> s, problem |-> p, ok |-> ok, at |-> at]
Before == Sub(1, "p1", TRUE, 0)
During == Sub(1, "p2", TRUE, 1000)
Others == {Sub(1, "p2", FALSE, 700), Sub(2, "p2", TRUE, 900)}

Separate == {{"edits", "crash", "reviews"}, {"edits", "redraft", "reviews"},
             {"overlap", "reviews"}, {"boards"}}
Mirrored == [e \in Environments |->
                {Before} \cup IF e = {"boards"} THEN Others ELSE {During}]
ProblemSets == {{"p1", "p2"}, {"p2"}}
PointsOf == [p \in {"p1", "p2"} |-> DefaultPoints(IF p = "p1" THEN "EASY" ELSE "MEDIUM")]
TwoCampuses == [s \in Students |-> [campus |-> s % 2, active |-> TRUE, opens |-> s # 3]]
Anyone == {None, 0}
=============================================================================
