---------------------------- MODULE AssignmentDay ----------------------------
(***************************************************************************)
(* The pure rules of an assignment day, shared by the modules that store   *)
(* or read results: which days a submission counts for, which assignment   *)
(* a student faces, and how a run of days becomes a streak (packages/      *)
(* shared/src/domain: assignment-completion, campus, scoring, streak).     *)
(* A problem is a value, a day a number, an accepted submission a pair     *)
(* <<problem, day>>; rejected submissions, solve times and languages do    *)
(* not change any result stated here.                                      *)
(***************************************************************************)
EXTENDS Integers, FiniteSets

CONSTANTS
    Problems,
    Lookback,       \* ASSIGNMENT_LOOKBACK_DAYS
    StreakNeeds,    \* solved problems that qualify a day; None: all assigned
    None            \* null

ASSUME AssignmentDayAssumption ==
    /\ Lookback \in Nat
    /\ StreakNeeds \in Nat \cup {None}
    /\ IsFiniteSet(Problems)

-----------------------------------------------------------------------------
(* The days whose submissions count as work on day d, and the days a       *)
(* submission of day d may count for.                                      *)
AssignmentWindow(d) == (d - Lookback) .. d
AssignmentDaysAffectedBy(d) == d .. (d + Lookback)

Solved(done, assigned) == {q \in assigned : \E x \in done : x[1] = q}

(* Broken variant: work of any earlier day counts as work on day d. *)
SolvedByDay(done, assigned, d) ==
    {q \in assigned : \E x \in done : x[1] = q /\ x[2] <= d}

SolvedInWindow(done, assigned, d) ==
    {q \in assigned : \E e \in AssignmentWindow(d) : <<q, e>> \in done}

-----------------------------------------------------------------------------
(* Audiences: a campus and a batch, each possibly null for "every one".    *)

(* Broken variant: a batch's set reaches its whole campus. *)
CampusApplies(scope, home) == scope.campus \in {None, home.campus}

ScopeApplies(scope, home) ==
    /\ scope.campus \in {None, home.campus}
    /\ scope.batch \in {None, home.batch}

Specificity(scope) == IF scope.campus = None THEN 0
                      ELSE IF scope.batch = None THEN 1 ELSE 2

(* Of the sets of a day, a function from identifiers to audiences, the     *)
(* most specific that reaches a student; None when none does.              *)
SelectForScope(scope, home) ==
    LET reach == {a \in DOMAIN scope : ScopeApplies(scope[a], home)}
    IN  IF reach = {} THEN None
        ELSE CHOOSE a \in reach :
               \A b \in reach : Specificity(scope[b]) <= Specificity(scope[a])

-----------------------------------------------------------------------------
SmallerOf(m, n) == IF m < n THEN m ELSE n
RequiredForStreak(n) == IF StreakNeeds = None THEN n ELSE SmallerOf(StreakNeeds, n)

Qualifies(day) == Cardinality(day.inWindow) >= RequiredForStreak(Cardinality(day.assigned))

(* computeStreaks(...).current.  days is a function from day numbers to    *)
(* [assigned, inWindow].  A day with nothing assigned is neutral, and the  *)
(* reference day is not a miss before it is over.                          *)
Streak(days, ref, enrolledFrom) ==
    LET counted == {d \in DOMAIN days : /\ days[d].assigned # {}
                                        /\ enrolledFrom <= d /\ d <= ref}
        met == {d \in counted : Qualifies(days[d])}
        missed == counted \ (met \cup {ref})
    IN  Cardinality({d \in met : \A m \in missed : m < d})
=============================================================================
