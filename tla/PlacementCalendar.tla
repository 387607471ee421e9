-------------------------- MODULE PlacementCalendar --------------------------
(***************************************************************************)
(* What placement history promises (batch.ts, campus.ts, the models        *)
(* StudentBatchHistory and StudentCampusHistory): for each student a       *)
(* calendar of where they were on each day so far.  A day that has passed  *)
(* keeps its answer; a move changes today; the first placement of a        *)
(* student may also answer for the days since they enrolled; a home that   *)
(* is deleted is forgotten by everyone; tomorrow begins where today ends.  *)
(***************************************************************************)
EXTENDS Naturals

CONSTANTS Students, Homes, None, LastDay

VARIABLES calendar, today

Days == 1..LastDay
Blank == [d \in Days |-> None]

CalendarInit ==
    /\ today \in Days
    /\ calendar \in [Students -> [Days -> Homes \cup {None}]]
    /\ \A s \in Students, d \in Days : d > today => calendar[s][d] = calendar[s][today]

(* The calendars a student may have after one step: a home from today on,  *)
(* or a first one since some earlier day.                                  *)
Moved(c) == {[d \in Days |-> IF d >= today THEN h ELSE c[d]] : h \in Homes \cup {None}}
FirstPlaced(c) ==
    IF c = Blank
    THEN {[d \in Days |-> IF d >= from THEN h ELSE None] : from \in 1..today, h \in Homes}
    ELSE {}

Place ==
    /\ \A s \in Students : calendar'[s] \in {calendar[s]} \cup Moved(calendar[s]) \cup FirstPlaced(calendar[s])
    /\ calendar' \in [Students -> [Days -> Homes \cup {None}]]
    /\ UNCHANGED today

Forget(h) ==
    /\ calendar' = [s \in Students |-> [d \in Days |->
                        IF calendar[s][d] = h THEN None ELSE calendar[s][d]]]
    /\ UNCHANGED today

NextDay ==
    /\ today < LastDay
    /\ today' = today + 1
    /\ UNCHANGED calendar

CalendarSpec == CalendarInit /\ [][Place \/ (\E h \in Homes : Forget(h)) \/ NextDay]_<<calendar, today>>
=============================================================================
