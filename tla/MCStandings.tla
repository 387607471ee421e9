---------------------------- MODULE MCStandings ----------------------------
(* Constants of the TLC run of Standings: a month of two weeks of two      *)
(* days; the second student moves campus on the third day.                 *)
EXTENDS Standings, TLC

CONSTANTS q1

CampusMove == [s \in Students |-> [d \in Days |-> IF (s = 2 /\ d >= 3) \/ s = 3 THEN 2 ELSE 1]]
TwoSquads == [s \in Students |-> IF s = 1 THEN 1 ELSE 2]
Minutes == [s \in Students |-> IF s = 2 THEN 600 ELSE 540]
EarlySolves == [s \in Students |-> IF s = 1 THEN {<<q1, 1>>, <<q1, 3>>}
                                  ELSE IF s = 2 THEN {<<q1, 2>>} ELSE {}]

Mixed == {{"sync", "submit", "reconcile"}, {"remove", "reset"}, {"remove", "overlap"},
          {"deploy", "status", "crash"}, {"deploy", "sync"}}
=============================================================================
