---------------------------- MODULE MCStudentSync ----------------------------
(* Instances of StudentSync for TLC.                                        *)
EXTENDS StudentSync, TLC

(* Two jobs that select the student at once, over a database that fails; an *)
(* account changed between syncs; a provider that fails, with and without   *)
(* crashes of the job; jobs of an earlier day.                              *)
OverlapOrEdit == {{"overlap", "db"}, {"edit"}, {"import"}, {"provider", "crash"}, {"provider"},
                  {"late"}}
EditDuringSync == {{"edit", "editInFlight"}}
=============================================================================
