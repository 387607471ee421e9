---------------------------- MODULE BaselineTests ----------------------------
(***************************************************************************)
(* A baseline test through its life: BaselineTestsService with requests    *)
(* that interleave between their queries.  A test row and its problem rows *)
(* (edition: the problem rows are replaced as a whole), the attempts of    *)
(* the students with their result rows, the mirror that grows beside them. *)
(***************************************************************************)
EXTENDS BaselineGrading

CONSTANTS
    Students,
    Submissions,    \* the submissions the mirror may come to hold in each environment
    Drafts,         \* the problem sets a test may be given, each not empty
    Audiences,      \* the campus a test may be set for, or None
    Points,         \* points of each problem
    Roster,         \* campus and roster status of each student, and who opens tests
    Requests,
    MaxRequests,    \* bound of the requests made
    Environments    \* what may happen (see AllEvents)

(* overlap: requests interleave; edits: a draft is edited or removed;      *)
(* redraft: a published test is set back to DRAFT; crash: a request stops; *)
(* reviews: mentors record conclusions;                                    *)
(* boards: the boards are read, and students may lose their sync state.    *)
AllEvents == {"overlap", "edits", "redraft", "crash", "reviews", "boards"}

ASSUME BaselineAssumption ==
    /\ IsFiniteSet(Students) /\ DOMAIN Roster = Students
    /\ \A e \in Environments : \A x \in Submissions[e] : x.student \in Students /\ x.ok \in BOOLEAN /\ x.at \in Nat
    /\ \A d \in Drafts : IsFiniteSet(d) /\ d # {} /\ \A p \in d : Points[p] \in Nat
    /\ MaxRequests \in Nat
    /\ Environments \subseteq SUBSET AllEvents

VARIABLES
    test,       \* the row and its problem rows
    attempt,    \* BaselineTestAttempt rows with their result rows
    mirror,     \* the submissions mirrored so far
    synced,     \* students whose lastSuccessAt is set
    req,        \* the requests under way
    made,       \* requests made so far
    verdict,    \* the verdict a mentor last recorded on each attempt
    handedIn,   \* the score the mirror gave when the student handed in
    atClose,    \* the scores the mirror gave when the test was closed
    env

vars == <<test, attempt, mirror, synced, req, made, verdict, handedIn, atClose, env>>
rows == <<test, attempt>>
evidence == <<mirror, synced>>
ghosts == <<verdict, handedIn, atClose>>

StartedAt == 500
Statuses == {"DRAFT", "SCHEDULED", "ACTIVE", "CLOSED"}
NoTest == [status |-> "NONE", problems |-> {}, edition |-> 0, campus |-> None]
NoAttempt == [status |-> "NOT_STARTED", score |-> 0, maxScore |-> 0, accepted |-> {},
              time |-> None, graded |-> FALSE, review |-> "NOT_REVIEWED", campus |-> None]
Idle == [pc |-> "idle", kind |-> "none", student |-> CHOOSE s \in Students : TRUE,
         target |-> "NONE", problems |-> {}, edition |-> 0, evidence |-> {},
         review |-> "NOT_REVIEWED", queue |-> {}]

Started(s) == attempt[s].status # "NOT_STARTED"

Init ==
    /\ env \in Environments
    /\ test = NoTest
    /\ attempt = [s \in Students |-> NoAttempt]
    /\ mirror = {}
    /\ synced = {}
    /\ req = [r \in Requests |-> Idle]
    /\ made = 0
    /\ verdict = [s \in Students |-> "NONE"]
    /\ handedIn = [s \in Students |-> 0]
    /\ atClose = [s \in Students |-> 0]

-----------------------------------------------------------------------------
Outcomes(subs, s, problems) ==
    [p \in problems |-> Outcome(Of(subs, s, p), Points[p], StartedAt, None)]

ScoreNow(s) == GradeAttempt(Outcomes(mirror, s, test.problems)).score

At(r, pc) == req[r].pc = pc
Goto(r, pc) == req' = [req EXCEPT ![r].pc = pc]
Done(r) == req' = [req EXCEPT ![r] = Idle]

Alone == \A q \in Requests : At(q, "idle")

Begin(r, x) ==
    /\ At(r, "idle")
    /\ made < MaxRequests
    /\ "overlap" \in env \/ (Alone /\ r = CHOOSE q \in Requests : TRUE)
    /\ made' = made + 1
    /\ req' = [req EXCEPT ![r] = x]

-----------------------------------------------------------------------------
(* create: a draft with the problems it was given.  The duplicate of a     *)
(* test starts the same way, with none of its attempts.                    *)
Create(d, campus) ==
    /\ test = NoTest
    /\ test' = [status |-> "DRAFT", problems |-> d, edition |-> 1, campus |-> campus]
    /\ UNCHANGED <<attempt, evidence, req, made, ghosts>>

(* update with new problems: the status is read, then the problem rows are *)
(* replaced in a transaction, which deletes the result rows on them.       *)
ReadForUpdate(r, d) ==
    /\ "edits" \in env
    /\ test.status = "DRAFT"
    /\ Begin(r, [Idle EXCEPT !.pc = "update", !.problems = d])
    /\ UNCHANGED <<rows, evidence, ghosts>>

Update(r) ==
    /\ At(r, "update")
    /\ IF test.status = "NONE" THEN UNCHANGED rows
       ELSE /\ test' = [test EXCEPT !.problems = req[r].problems, !.edition = @ + 1]
            /\ attempt' = [s \in Students |-> [attempt[s] EXCEPT !.accepted = {}]]
    /\ Done(r)
    /\ UNCHANGED <<evidence, made, ghosts>>

(* setStatus: any transition but CLOSED to ACTIVE; closing grades.         *)
ReadForStatus(r, target) ==
    /\ test.status # "NONE"
    /\ ~ (test.status = "CLOSED" /\ target = "ACTIVE")
    /\ target = "DRAFT" => "redraft" \in env
    /\ target # test.status \/ target = "CLOSED"
    /\ Begin(r, [Idle EXCEPT !.pc = "status", !.target = target])
    /\ UNCHANGED <<rows, evidence, ghosts>>

(* Broken variant: closing only changes the status. *)
CloseUngraded(r) ==
    /\ At(r, "status")
    /\ test' = IF test.status = "NONE" THEN test ELSE [test EXCEPT !.status = req[r].target]
    /\ atClose' = IF req[r].target = "CLOSED" THEN [s \in Students |-> ScoreNow(s)] ELSE atClose
    /\ Done(r)
    /\ UNCHANGED <<attempt, evidence, made, verdict, handedIn>>

WriteStatus(r) ==
    /\ At(r, "status")
    /\ IF test.status = "NONE" THEN Done(r) /\ UNCHANGED <<test, atClose>>
       ELSE /\ test' = [test EXCEPT !.status = req[r].target]
            /\ IF req[r].target = "CLOSED"
               THEN /\ atClose' = [s \in Students |-> ScoreNow(s)]
                    /\ Goto(r, "list")
               ELSE Done(r) /\ UNCHANGED atClose
    /\ UNCHANGED <<attempt, evidence, made, verdict, handedIn>>

(* remove: refused once there are attempts; the delete cascades, and no    *)
(* row comes back under an id that is gone: the edition stays behind.      *)
ReadForRemove(r) ==
    /\ "edits" \in env
    /\ test.status # "NONE"
    /\ \A s \in Students : ~ Started(s)
    /\ Begin(r, [Idle EXCEPT !.pc = "remove"])
    /\ UNCHANGED <<rows, evidence, ghosts>>

RemoveTest(r) ==
    /\ At(r, "remove")
    /\ test' = [NoTest EXCEPT !.edition = test.edition + 1]
    /\ attempt' = [s \in Students |-> NoAttempt]
    /\ verdict' = [s \in Students |-> "NONE"]
    /\ Done(r)
    /\ UNCHANGED <<evidence, made, handedIn, atClose>>

-----------------------------------------------------------------------------
(* startAttempt: refused when there is an attempt, when the test is not    *)
(* the student's or not open; the row keeps the campus it was sat under.   *)
ReadForStart(r, s) ==
    /\ Roster[s].opens
    /\ test.status = "ACTIVE"
    /\ test.campus # None => Roster[s].campus = test.campus
    /\ ~ Started(s)
    /\ Begin(r, [Idle EXCEPT !.pc = "start", !.student = s, !.problems = test.problems])
    /\ UNCHANGED <<rows, evidence, ghosts>>

(* The unique index and the foreign key turn a late create into an error.  *)
Start(r) ==
    LET s == req[r].student IN
    /\ At(r, "start")
    /\ attempt' = IF Started(s) \/ test.status = "NONE" THEN attempt
                  ELSE [attempt EXCEPT ![s] =
                        [NoAttempt EXCEPT !.status = "IN_PROGRESS",
                            !.maxScore = Tally(req[r].problems, LAMBDA p : Points[p]),
                            !.campus = Roster[s].campus]]
    /\ Done(r)
    /\ UNCHANGED <<test, evidence, made, ghosts>>

(* submitAttempt: grade, then mark the attempt as handed in. *)
ReadForSubmit(r, s) ==
    /\ attempt[s].status = "IN_PROGRESS"
    /\ Begin(r, [Idle EXCEPT !.pc = "grade", !.kind = "submit", !.student = s])
    /\ handedIn' = [handedIn EXCEPT ![s] = ScoreNow(s)]
    /\ UNCHANGED <<rows, evidence, verdict, atClose>>

MarkSubmitted(r) ==
    /\ At(r, "mark")
    /\ attempt' = IF Started(req[r].student)
                  THEN [attempt EXCEPT ![req[r].student].status = "SUBMITTED"] ELSE attempt
    /\ Done(r)
    /\ UNCHANGED <<test, evidence, made, ghosts>>

-----------------------------------------------------------------------------
(* gradeTest: the attempts of the moment, one after the other. *)
Regrade(r) ==
    /\ test.status # "NONE"
    /\ Begin(r, [Idle EXCEPT !.pc = "list"])
    /\ UNCHANGED <<rows, evidence, ghosts>>

ListAttempts(r) ==
    /\ At(r, "list")
    /\ req' = [req EXCEPT ![r].pc = "next", ![r].queue = {s \in Students : Started(s)}]
    /\ UNCHANGED <<rows, evidence, made, ghosts>>

NextAttempt(r) ==
    /\ At(r, "next")
    /\ IF req[r].queue = {} THEN Done(r)
       ELSE \E s \in req[r].queue :
              req' = [req EXCEPT ![r].pc = "grade", ![r].student = s,
                                 ![r].queue = @ \ {s}]
    /\ UNCHANGED <<rows, evidence, made, ghosts>>

AfterGrade(r) == Goto(r, IF req[r].kind = "submit" THEN "mark" ELSE "next")

(* gradeAttemptById reads the attempt, the problems and the mirror ... *)
ReadForGrade(r) ==
    LET s == req[r].student IN
    /\ At(r, "grade")
    /\ IF ~ Started(s) THEN AfterGrade(r)
       ELSE req' = [req EXCEPT ![r].pc = "write", ![r].problems = test.problems,
                               ![r].edition = test.edition, ![r].evidence = mirror,
                               ![r].review = attempt[s].review]
    /\ UNCHANGED <<rows, evidence, made, ghosts>>

(* Broken variant: the flag is raised whatever the mentor has concluded. *)
RaisedAlways(outcomes, review) ==
    IF ReviewRecommended(outcomes, None) THEN "REVIEW_REQUIRED" ELSE review

(* The machine only ever raises the flag, judging by the status it read.   *)
Raised(outcomes, review) ==
    IF ReviewRecommended(outcomes, None) /\ review = "NOT_REVIEWED"
    THEN "REVIEW_REQUIRED" ELSE review

(* Broken variant: the counters add up, the result rows do not follow. *)
GradedScoreOnly(a, outcomes, review) ==
    [a EXCEPT !.score = GradeAttempt(outcomes).score, !.graded = TRUE,
              !.maxScore = GradeAttempt(outcomes).maxScore,
              !.review = IF Raised(outcomes, review) = review THEN @ ELSE Raised(outcomes, review)]

Graded(a, outcomes, review) ==
    LET times == {outcomes[p].time : p \in Solved(outcomes)} \ {None}
    IN [a EXCEPT !.score = GradeAttempt(outcomes).score,
                 !.maxScore = GradeAttempt(outcomes).maxScore,
                 !.accepted = Solved(outcomes),
                 !.time = IF times = {} THEN None ELSE Max(times),
                 !.graded = TRUE,
                 !.review = IF Raised(outcomes, review) = review THEN @
                            ELSE Raised(outcomes, review)]

(* ... and replaces the results in one transaction.  Result rows of        *)
(* problem rows or of an attempt that are gone make it fail as a whole.    *)
WriteGrade(r) ==
    LET s == req[r].student
        outcomes == Outcomes(req[r].evidence, s, req[r].problems)
    IN
    /\ At(r, "write")
    /\ IF Started(s) /\ req[r].edition = test.edition
       THEN /\ attempt' = [attempt EXCEPT ![s] = Graded(@, outcomes, req[r].review)]
            /\ AfterGrade(r)
       ELSE Done(r) /\ UNCHANGED attempt
    /\ UNCHANGED <<test, evidence, made, ghosts>>

(* Two gradings of one attempt at a time: one fails on the unique index.   *)
GradeConflict(r) ==
    /\ At(r, "write")
    /\ \E q \in Requests \ {r} : At(q, "write") /\ req[q].student = req[r].student
    /\ Done(r)
    /\ UNCHANGED <<rows, evidence, made, ghosts>>

(* review: a mentor's conclusion, whatever it was before. *)
Review(s, status) ==
    /\ "reviews" \in env
    /\ Started(s)
    /\ "overlap" \in env \/ Alone
    /\ status # attempt[s].review
    /\ attempt' = [attempt EXCEPT ![s].review = status]
    /\ verdict' = [verdict EXCEPT ![s] = status]
    /\ UNCHANGED <<test, evidence, req, made, handedIn, atClose>>

-----------------------------------------------------------------------------
(* A sync mirrors a submission; a new handle resets the student's sync     *)
(* state; a request dies with the process.                                 *)
Sync(x) ==
    /\ x \notin mirror
    /\ mirror' = mirror \cup {x}
    /\ synced' = synced \cup {x.student}
    /\ UNCHANGED <<rows, req, made, ghosts>>

ForgetSync(s) ==
    /\ "boards" \in env
    /\ synced' = synced \ {s}
    /\ synced' # synced
    /\ UNCHANGED <<rows, mirror, req, made, ghosts>>

Crash(r) ==
    /\ "crash" \in env
    /\ ~ At(r, "idle")
    /\ Done(r)
    /\ UNCHANGED <<rows, evidence, made, ghosts>>

Step(r) ==
    \/ Update(r) \/ WriteStatus(r) \/ RemoveTest(r) \/ Start(r) \/ MarkSubmitted(r)
    \/ ListAttempts(r) \/ NextAttempt(r) \/ ReadForGrade(r) \/ WriteGrade(r)
    \/ GradeConflict(r)

Next ==
    /\ UNCHANGED env
    /\ \/ \E d \in Drafts, c \in Audiences : Create(d, c)
       \/ \E r \in Requests :
            \/ Step(r) \/ Crash(r) \/ Regrade(r) \/ ReadForRemove(r)
            \/ \E d \in Drafts : ReadForUpdate(r, d)
            \/ \E target \in Statuses : ReadForStatus(r, target)
            \/ \E s \in Students : ReadForStart(r, s) \/ ReadForSubmit(r, s)
       \/ \E s \in Students, status \in {"NOT_REVIEWED", "REVIEWED"} : Review(s, status)
       \/ \E x \in Submissions[env] : Sync(x)
       \/ \E s \in Students : ForgetSync(s)

Spec == Init /\ [][Next]_vars

-----------------------------------------------------------------------------
(* A viewer reads everything, or the campuses granted to a mentor, which   *)
(* may be several or none.                                                 *)
Admin == [restricted |-> FALSE, campuses |-> {}]
Mentor(granted) == [restricted |-> TRUE, campuses |-> granted]
Grantable == {Roster[s].campus : s \in Students} \ {None}
Viewers == {Admin} \cup {Mentor(granted) : granted \in SUBSET Grantable}
Eligible(viewer) == EligibleStudents(Roster, test, viewer)
Board(viewer) ==
    [s \in Eligible(viewer) |-> BoardRow(mirror, synced, s, test.problems, attempt[s])]
Performances == [s \in Students |-> Performance(mirror, s, test.problems)]
Result(s) == StudentResult(mirror, s, test.problems, Board(Admin))

(* Typing.                                                                 *)
TypeOK ==
    /\ test.status \in Statuses \cup {"NONE"}
    /\ \A s \in Students :
         /\ attempt[s].status \in {"NOT_STARTED", "IN_PROGRESS", "SUBMITTED"}
         /\ attempt[s].review \in {"NOT_REVIEWED", "REVIEW_REQUIRED", "REVIEWED"}
    /\ mirror \subseteq Submissions[env]
    /\ synced \subseteq Students
    /\ made \in 0 .. MaxRequests
    /\ env \in Environments

(* An attempt's score is what its result rows add up to, and they are rows *)
(* of the test's problems, while gradings, submits and reviews overlap.  A *)
(* published test set back to a draft, or an edit that overlaps a start,   *)
(* takes the rows away and leaves the score.                               *)
ScoreMatchesResults ==
    "redraft" \notin env /\ ~ ({"edits", "overlap"} \subseteq env) =>
        \A s \in Students :
            /\ attempt[s].score = Tally(attempt[s].accepted, LAMBDA p : Points[p])
            /\ attempt[s].accepted \subseteq test.problems
            /\ attempt[s].score <= attempt[s].maxScore

(* A mentor's REVIEWED is not undone by a grading, however often the       *)
(* attempt is graded again and whatever new evidence arrives: gradings     *)
(* that overlap the review can undo it (ReviewNeverUndone).                *)
ReviewKept ==
    "overlap" \notin env =>
        \A s \in Students : verdict[s] = "REVIEWED" => attempt[s].review = "REVIEWED"

(* A submitted attempt was graded, with no less than the student had when  *)
(* handing it in; a closed test was graded with no less than there was at  *)
(* the close.  A grading that overlaps may write older evidence later, a   *)
(* start that overlaps the close is not graded, a crash leaves it open.    *)
GradedInTime ==
    /\ \A s \in Students : attempt[s].status = "SUBMITTED" => attempt[s].graded
    /\ env \cap {"overlap", "redraft"} = {} =>
         \A s \in Students : attempt[s].status = "SUBMITTED" => attempt[s].score >= handedIn[s]
    /\ /\ env \cap {"overlap", "redraft", "crash"} = {} /\ test.status = "CLOSED"
       /\ Alone
       => \A s \in Students : Started(s) => attempt[s].score >= atClose[s]

(* Each viewer's board adds up by itself: the rank of a line is one more   *)
(* than the number of students on that board who did better, and the       *)
(* report divides the students and those of each problem into the same     *)
(* parts as the board.  Between boards: no line of a mentor's board that   *)
(* is part of the whole board ranks behind the student's own result, which *)
(* is taken from the whole board.  A mentor's board may rank a student     *)
(* higher, and may hold students the test is not for                       *)
(* (SameRankForEveryViewer, AudienceIntersected).                          *)
BoardsAddUp ==
    "boards" \in env => \A viewer \in Viewers :
        LET board == Board(viewer)
            ranks == Leaderboard(board)
            report == Report(Performances, attempt, test.problems, Eligible(viewer))
            stats(p) == ProblemStats(Performances, p, Eligible(viewer))
        IN /\ \A s \in DOMAIN board : ranks.rank[s] = 1 +
                 Cardinality({t \in DOMAIN board : Better(board[t], board[s])})
           /\ ranks.total = ranks.unknown +
                 Tally(DOMAIN ranks.distribution, LAMBDA n : ranks.distribution[n])
           /\ ranks.lowest <= ranks.average /\ ranks.average <= ranks.highest
           /\ report.notAttempted + report.attemptedNotSolved
                + Cardinality({s \in DOMAIN board : board[s].solved > 0}) = report.eligible
           /\ Tally(test.problems, LAMBDA p : stats(p).solved)
                = Tally(DOMAIN board, LAMBDA s : board[s].solved)
           /\ \A p \in test.problems :
                stats(p).solved + stats(p).tried + stats(p).untouched = ranks.total
           /\ Eligible(viewer) \subseteq Eligible(Admin) =>
                \A s \in DOMAIN board : ranks.rank[s] <= Result(s).rank

(* "The number here and the number in the table can never disagree": the   *)
(* rank of a student's result is the rank on every viewer's board, across  *)
(* the whole cohort before filtering.                                      *)
SameRankForEveryViewer ==
    \A viewer \in Viewers : \A s \in Eligible(viewer) :
        Leaderboard(Board(viewer)).rank[s] = Result(s).rank

(* "Intersected with the test's own audience rather than replacing it": a  *)
(* mentor's board holds students the test is for.                          *)
AudienceIntersected == \A viewer \in Viewers : Eligible(viewer) \subseteq Eligible(Admin)

(* A human's REVIEWED is never undone by a machine.                        *)
ReviewNeverUndone ==
    \A s \in Students : verdict[s] = "REVIEWED" => attempt[s].review = "REVIEWED"

(* The report's average is computed exactly as the board computes it.      *)
AveragesAgree ==
    test.problems # {} =>
        Report(Performances, attempt, test.problems, Eligible(Admin)).averagePercent
            = Leaderboard(Board(Admin)).average
=============================================================================
