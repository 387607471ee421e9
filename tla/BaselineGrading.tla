--------------------------- MODULE BaselineGrading ---------------------------
(***************************************************************************)
(* The pure rules of baseline tests (packages/shared/src/domain/baseline.ts)*)
(* and the read side of BaselineTestsService that applies them: a grade,   *)
(* the signals that recommend a review, a student's performance from the   *)
(* mirror, the board and its ranks, the report.  A mirror is a set of      *)
(* submissions [student, problem, ok, at]; problems have points.           *)
(***************************************************************************)
EXTENDS Integers, FiniteSets, FiniteSetsExt, SequencesExt, Orderings

None == -1

Of(mirror, s, p) == {x \in mirror : x.student = s /\ x.problem = p}
Tally(S, f(_)) == MapThenSumSet(f, S)
Rounded(a, b) == (2 * a + b) \div (2 * b)

BaselinePercent(score, maxScore) == IF maxScore <= 0 THEN 0 ELSE Rounded(100 * score, maxScore)
DefaultPoints(difficulty) ==
    CASE difficulty = "EASY" -> 10 [] difficulty = "HARD" -> 30 [] OTHER -> 20

-----------------------------------------------------------------------------
(* What one problem of an attempt shows: no window, only the pace and the  *)
(* signals look at when.                                                   *)
Outcome(mine, points, startedAt, opensAt) ==
    LET accepted == {x.at : x \in {y \in mine : y.ok}}
        opened == IF opensAt = None THEN startedAt ELSE opensAt
    IN [points |-> points,
        accepted |-> accepted # {},
        attempts |-> Cardinality(mine),
        time |-> IF accepted # {} /\ Min(accepted) >= startedAt
                 THEN Min(accepted) - startedAt ELSE None,
        solvedBefore |-> \E t \in accepted : t < opened]

Solved(outcomes) == {p \in DOMAIN outcomes : outcomes[p].accepted}

GradeAttempt(outcomes) ==
    [score |-> Tally(Solved(outcomes), LAMBDA p : outcomes[p].points),
     maxScore |-> Tally(DOMAIN outcomes, LAMBDA p : outcomes[p].points),
     solved |-> Cardinality(Solved(outcomes)),
     attempted |-> Cardinality({p \in DOMAIN outcomes : outcomes[p].attempts > 0})]

(* Seconds to solve, in ascending order. *)
SolveTimes(outcomes) ==
    LET timed == SetToSeq({p \in Solved(outcomes) : outcomes[p].time # None})
    IN SortSeq([i \in DOMAIN timed |-> outcomes[timed[i]].time], <)

Middle(seq) == seq[Len(seq) \div 2 + 1]

(* The signals of assessRisk; pace is the student's own median, or None. *)
Signals(outcomes, pace) ==
    LET solved == Solved(outcomes)
        times == SolveTimes(outcomes)
        closePairs == {i \in 2 .. Len(times) : times[i] - times[i - 1] <= 120}
    IN IF solved = {} THEN {} ELSE
       {signal \in {"SOLVED_BEFORE_TEST", "IMMEDIATE_ACCEPTANCE", "RAPID_SUCCESSION",
                    "NO_FAILED_ATTEMPTS", "INCONSISTENT_WITH_HISTORY"} :
          CASE signal = "SOLVED_BEFORE_TEST" -> \E p \in DOMAIN outcomes : outcomes[p].solvedBefore
            [] signal = "IMMEDIATE_ACCEPTANCE" -> \E i \in DOMAIN times : times[i] <= 90
            [] signal = "RAPID_SUCCESSION" -> Cardinality(closePairs) >= 2
            [] signal = "NO_FAILED_ATTEMPTS" ->
                 Cardinality(solved) >= 3 /\ \A p \in solved : outcomes[p].attempts = 1
            [] OTHER -> pace # None /\ times # <<>> /\ 4 * Middle(times) < pace}

Weight(signal) ==
    CASE signal = "SOLVED_BEFORE_TEST" -> 40
      [] signal = "IMMEDIATE_ACCEPTANCE" -> 30
      [] signal = "RAPID_SUCCESSION" -> 20
      [] signal = "INCONSISTENT_WITH_HISTORY" -> 15
      [] OTHER -> 10

RiskScore(signals) == Min({100, Tally(signals, Weight)})
ReviewRecommended(outcomes, pace) == RiskScore(Signals(outcomes, pace)) >= 30

(* medianHistoricalPace: the spans between first and last solve of a day. *)
MedianPace(spans) ==
    LET positive == SortSeq(SelectSeq(spans, LAMBDA x : x > 0), <)
    IN IF Len(positive) < 3 THEN None ELSE Middle(positive)

IsTestOpen(test, now) ==
    /\ test.status = "ACTIVE"
    /\ test.opensAt # None => now >= test.opensAt
    /\ test.closesAt # None => now <= test.closesAt

-----------------------------------------------------------------------------
(* computeGeneralPerformance: a student's standing on a set of problems,   *)
(* from the whole mirror.                                                  *)
Performance(mirror, s, problems) ==
    [p \in problems |->
        LET accepted == {x.at : x \in {y \in Of(mirror, s, p) : y.ok}}
        IN [solved |-> accepted # {},
            attempts |-> Cardinality(Of(mirror, s, p)),
            first |-> IF accepted = {} THEN None ELSE Min(accepted),
            latest |-> IF accepted = {} THEN None ELSE Max(accepted)]]

CountSolved(performance) == Cardinality({p \in DOMAIN performance : performance[p].solved})
IsPerformanceKnown(mirror, synced, s) == s \in synced \/ \E x \in mirror : x.student = s

(* The students a test applies to, as a viewer of some campuses may see.   *)
(* The viewer's campuses replace the campus filter of the test.            *)
EligibleStudents(roster, test, viewer) ==
    {s \in DOMAIN roster :
        /\ roster[s].active
        /\ IF viewer.restricted THEN roster[s].campus \in viewer.campuses
           ELSE test.campus # None => roster[s].campus = test.campus}

(* One line of the board.  attempt is a record, or None. *)
BoardRow(mirror, synced, s, problems, attempt) ==
    LET performance == Performance(mirror, s, problems)
    IN [solved |-> CountSolved(performance),
        tried |-> Cardinality({p \in problems :
                     ~ performance[p].solved /\ performance[p].attempts > 0}),
        score |-> attempt.score,
        time |-> attempt.time,
        attempted |-> attempt.status # "NOT_STARTED",
        percent |-> BaselinePercent(CountSolved(performance), Cardinality(problems)),
        known |-> IsPerformanceKnown(mirror, synced, s)]

(* compareBaselineEntries without the name, which only orders ties. *)
Sooner(a, b) == a # None /\ (b = None \/ a < b)
Better(a, b) ==
    IF a.known # b.known THEN a.known
    ELSE IF a.solved # b.solved THEN a.solved > b.solved
    ELSE IF a.score # b.score THEN a.score > b.score
    ELSE Sooner(a.time, b.time)

Tied(a, b) ==
    /\ a.known = b.known /\ a.score = b.score
    /\ a.solved = b.solved /\ a.time = b.time

BoardOrder(rows) ==
    CHOOSE order \in Orderings(DOMAIN rows, LAMBDA s, t : Better(rows[s], rows[t])) : TRUE

(* The places at which a run of tied rows begins. *)
RunStarts(rows, order) ==
    {i \in DOMAIN order : i = 1 \/ ~ Tied(rows[order[i]], rows[order[i - 1]])}

(* Broken variant: the next distinct student does not skip ahead. *)
DenseRanks(rows) ==
    LET order == BoardOrder(rows)
        place(s) == CHOOSE i \in DOMAIN order : order[i] = s
    IN [s \in DOMAIN rows |-> Cardinality({i \in RunStarts(rows, order) : i <= place(s)})]

(* rankBaselineEntries over the rows in board order: a row's place, or the *)
(* rank of the row before when it ties with it.                            *)
Ranks(rows) ==
    LET order == BoardOrder(rows)
        place(s) == CHOOSE i \in DOMAIN order : order[i] = s
    IN [s \in DOMAIN rows |-> Max({i \in RunStarts(rows, order) : i <= place(s)})]

Average(S, f(_)) == IF S = {} THEN 0 ELSE Rounded(Tally(S, f), Cardinality(S))

Leaderboard(rows) ==
    LET measured == {s \in DOMAIN rows : rows[s].known}
        percents == {rows[s].percent : s \in measured}
    IN [rank |-> Ranks(rows),
        total |-> Cardinality(DOMAIN rows),
        attempted |-> Cardinality({s \in DOMAIN rows : rows[s].attempted}),
        average |-> Average(measured, LAMBDA s : rows[s].percent),
        highest |-> IF percents = {} THEN 0 ELSE Max(percents),
        lowest |-> IF percents = {} THEN 0 ELSE Min(percents),
        distribution |-> [n \in {rows[s].solved : s \in measured} |->
                            Cardinality({s \in measured : rows[s].solved = n})],
        unknown |-> Cardinality(DOMAIN rows \ measured)]

-----------------------------------------------------------------------------
(* problemStats: how the eligible students fared on one problem. *)
ProblemStats(performances, p, eligible) ==
    LET solved == {s \in eligible : performances[s][p].solved}
        tried == {s \in eligible \ solved : performances[s][p].attempts > 0}
    IN [solved |-> Cardinality(solved),
        tried |-> Cardinality(tried),
        untouched |-> Max({0, Cardinality(eligible) - Cardinality(solved) - Cardinality(tried)})]

(* report: participation from the attempts, ability from the mirror.  Its  *)
(* average runs over every eligible student, measured or not.              *)
Report(performances, attempts, problems, eligible) ==
    LET started == {s \in DOMAIN attempts : attempts[s].status # "NOT_STARTED"}
        solved(s) == CountSolved(performances[s])
        touched(s) == \E p \in problems : performances[s][p].attempts > 0
    IN [eligible |-> Cardinality(eligible),
        started |-> Cardinality(started),
        completed |-> Cardinality({s \in started : attempts[s].status = "SUBMITTED"}),
        notStarted |-> Max({0, Cardinality(eligible) - Cardinality(started)}),
        averageScore |-> Average(started, LAMBDA s : attempts[s].score),
        averagePercent |-> Average(eligible, LAMBDA s :
                              BaselinePercent(solved(s), Cardinality(problems))),
        solvedAll |-> Cardinality({s \in eligible : solved(s) = Cardinality(problems)}),
        attemptedNotSolved |-> Cardinality({s \in eligible : solved(s) = 0 /\ touched(s)}),
        notAttempted |-> Cardinality({s \in eligible : ~ touched(s)})]

(* studentResult: the line of one student, its rank from the whole board.  *)
StudentResult(mirror, s, problems, rows) ==
    [rank |-> IF s \in DOMAIN rows THEN Ranks(rows)[s] ELSE None,
     solved |-> CountSolved(Performance(mirror, s, problems))]

(* toStudentTest: the problems are withheld until the attempt has started. *)
ShownProblems(problems, attempt) == IF attempt.status = "NOT_STARTED" THEN {} ELSE problems

(* breakdown: a line for every campus with an eligible student or attempt. *)
Breakdown(roster, eligible, attempts) ==
    LET started == {s \in DOMAIN attempts : attempts[s].status # "NOT_STARTED"}
        here(c) == Cardinality({s \in eligible : roster[s].campus = c})
        sat(c) == Cardinality({s \in started : attempts[s].campus = c})
    IN [c \in {roster[s].campus : s \in eligible} \cup {attempts[s].campus : s \in started} |->
          [eligible |-> IF here(c) > 0 THEN here(c) ELSE sat(c),
           started |-> sat(c),
           notStarted |-> Max({0, here(c) - sat(c)})]]
=============================================================================
