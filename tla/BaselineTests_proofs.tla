------------------------ MODULE BaselineTests_proofs ------------------------
(* Proofs about BaselineTests, for any number of students, problems,       *)
(* requests and submissions: what a score stands for, what a grading may   *)
(* undo, what a hand-in and a close record, and that the boards add up.    *)
EXTENDS BaselineTests, SumsAndRanks

-----------------------------------------------------------------------------
(* The conditions under which the properties are claimed. *)
Steady == "redraft" \notin env /\ ~ ({"edits", "overlap"} \subseteq env)
Sequential == "overlap" \notin env
Calm == env \cap {"overlap", "redraft"} = {}
Safe == env \cap {"overlap", "redraft", "crash"} = {}

Worth(problems) == SumOf(Points, problems)
SolvedIn(subs, s, problems) ==
    {p \in problems : \E x \in subs : x.student = s /\ x.problem = p /\ x.ok}
Earned(subs, s, problems) == GradeAttempt(Outcomes(subs, s, problems)).score
Busy(r) == ~ At(r, "idle")

(* Types of what the steps read, beyond TypeOK. *)
AnyProblems == Drafts \cup {{}}
AnyEvidence == {subs \in SUBSET Submissions[env] : IsFiniteSet(subs)}
Reviews == {"NOT_REVIEWED", "REVIEW_REQUIRED", "REVIEWED"}
Campuses == {Roster[s].campus : s \in Students} \cup {None}
Tests == [status : Statuses \cup {"NONE"}, problems : AnyProblems, edition : Nat,
          campus : Audiences \cup {None}]
Attempts == [status : {"NOT_STARTED", "IN_PROGRESS", "SUBMITTED"}, score : Nat, maxScore : Nat,
             accepted : SUBSET UNION Drafts, time : Int, graded : BOOLEAN,
             review : Reviews, campus : Campuses]
Pcs == {"idle", "update", "status", "remove", "start", "grade", "mark", "list", "next", "write"}
Pending == [pc : Pcs, kind : {"none", "submit"}, student : Students \cup {Idle.student},
            target : Statuses \cup {"NONE"}, problems : AnyProblems, edition : Nat,
            evidence : AnyEvidence, review : Reviews, queue : SUBSET Students]

Typed ==
    /\ env \in Environments
    /\ test \in Tests
    /\ attempt \in [Students -> Attempts]
    /\ mirror \in AnyEvidence /\ synced \subseteq Students
    /\ req \in [Requests -> Pending] /\ made \in 0 .. MaxRequests
    /\ verdict \in [Students -> Reviews \cup {"NONE"}]
    /\ handedIn \in [Students -> Nat] /\ atClose \in [Students -> Nat]
    /\ \A r \in Requests :
          req[r].pc \in {"start", "grade", "write", "mark"} => req[r].student \in Students

-----------------------------------------------------------------------------
(* What a grade adds up.                                                   *)
LEMMA ProblemsFinite ==
  ASSUME BaselineAssumption, NEW problems \in AnyProblems
  PROVE  IsFiniteSet(problems) /\ \A p \in problems : Points[p] \in Nat
  BY FS_EmptySet DEF BaselineAssumption, AnyProblems

LEMMA TallyOfPoints ==
  ASSUME NEW S
  PROVE  Tally(S, LAMBDA p : Points[p]) = Worth(S)
  BY DEF Tally, MapThenSumSet, MapThenFoldSet, Worth, SumOf, PartialSums, SumsUp, Pick

(* The points of the outcomes of some problems are those of the problems.  *)
PointsTally(o, S) == Tally(S, LAMBDA p : o[p].points)

LEMMA OutcomePoints ==
  ASSUME NEW o, NEW S, IsFiniteSet(S), \A p \in S : o[p].points = Points[p]
  PROVE  PointsTally(o, S) = Worth(S)
<1> DEFINE F(g) == [t \in SUBSET S |-> IF t = {} THEN 0 ELSE o[Pick(t)].points + g[t \ {Pick(t)}]]
           sums == CHOOSE g : g = F(g)
           G == PartialSums(Points, S)
<1>1. SumsUp(G, Points, S)
  BY SumsExist
<1>2. G = F(G)
  BY <1>1 DEF SumsUp, Pick
<1>3. sums = F(sums)
  BY <1>2
<1>4. SumsUp(sums, Points, S)
  <2> HIDE DEF sums
  <2>1. \A t \in SUBSET S : t # {} => o[Pick(t)].points = Points[Pick(t)]
    BY DEF Pick
  <2> QED BY <1>3, <2>1 DEF SumsUp
<1>5. PointsTally(o, S) = sums[S]
  BY DEF PointsTally, Tally, MapThenSumSet, MapThenFoldSet, Pick
<1> HIDE DEF sums
<1>6. sums[S] = G[S]
  BY <1>1, <1>4, SumsAgree
<1> QED BY <1>5, <1>6 DEF Worth, SumOf

LEMMA OutcomeOf ==
  ASSUME NEW mine, NEW points, NEW a, NEW b
  PROVE  /\ Outcome(mine, points, a, b).points = points
         /\ Outcome(mine, points, a, b).accepted <=> \E x \in mine : x.ok
<1> DEFINE accepted == {x.at : x \in {y \in mine : y.ok}}
           ok == accepted # {}
<1>1. ok <=> \E x \in mine : x.ok
  OBVIOUS
<1>2. Outcome(mine, points, a, b).accepted = ok
  BY DEF Outcome
<1>3. Outcome(mine, points, a, b).points = points
  BY DEF Outcome
<1> HIDE DEF ok
<1> QED BY <1>1, <1>2, <1>3

(* A grading sums the points of the problems the student has solved.       *)
LEMMA GradeSums ==
  ASSUME BaselineAssumption, NEW subs, NEW s, NEW problems \in AnyProblems
  PROVE  /\ Solved(Outcomes(subs, s, problems)) = SolvedIn(subs, s, problems)
         /\ Earned(subs, s, problems) = Worth(SolvedIn(subs, s, problems))
         /\ GradeAttempt(Outcomes(subs, s, problems)).maxScore = Worth(problems)
<1> DEFINE o == Outcomes(subs, s, problems)
<1>1. DOMAIN o = problems
  BY DEF Outcomes
<1>2. \A p \in problems : /\ o[p].points = Points[p]
                          /\ o[p].accepted <=> \E x \in subs : x.student = s /\ x.problem = p /\ x.ok
  <2> SUFFICES ASSUME NEW p \in problems
               PROVE  /\ o[p].points = Points[p]
                      /\ o[p].accepted <=> \E x \in subs : x.student = s /\ x.problem = p /\ x.ok
    OBVIOUS
  <2>1. o[p] = Outcome(Of(subs, s, p), Points[p], StartedAt, None)
    BY DEF Outcomes
  <2> HIDE DEF o
  <2>2. o[p].points = Points[p]
    BY <2>1, OutcomeOf
  <2>3. o[p].accepted <=> \E x \in Of(subs, s, p) : x.ok
    BY <2>1, OutcomeOf
  <2> QED BY <2>2, <2>3 DEF Of
<1> HIDE DEF o
<1>3. Solved(o) = SolvedIn(subs, s, problems)
  BY <1>1, <1>2 DEF Solved, SolvedIn
<1>4. IsFiniteSet(problems) /\ IsFiniteSet(Solved(o)) /\ Solved(o) \in SUBSET problems
  <2>1. Solved(o) \in SUBSET problems
    BY <1>1 DEF Solved
  <2> QED BY <2>1, ProblemsFinite, FS_Subset
<1>5. PointsTally(o, Solved(o)) = Worth(Solved(o))
  BY <1>2, <1>4, OutcomePoints
<1>6. PointsTally(o, problems) = Worth(problems)
  BY <1>2, <1>4, OutcomePoints
<1>7. /\ GradeAttempt(o).score = PointsTally(o, Solved(o))
      /\ GradeAttempt(o).maxScore = PointsTally(o, DOMAIN o)
  BY DEF GradeAttempt, PointsTally, Tally, MapThenSumSet, MapThenFoldSet
<1> QED BY <1>1, <1>3, <1>5, <1>6, <1>7 DEF Earned, o

LEMMA ScoreBounds ==
  ASSUME BaselineAssumption, NEW subs, NEW s, NEW problems \in AnyProblems
  PROVE  /\ SolvedIn(subs, s, problems) \subseteq problems
         /\ Earned(subs, s, problems) \in Nat /\ Worth(problems) \in Nat
         /\ Earned(subs, s, problems) <= Worth(problems)
<1>1. SolvedIn(subs, s, problems) \in SUBSET problems
  BY DEF SolvedIn
<1>2. IsFiniteSet(problems) /\ \A p \in problems : Points[p] \in Nat
  BY ProblemsFinite
<1> QED BY <1>1, <1>2, GradeSums, SumNat, SumOfPart DEF Worth

(* More evidence never takes from a score.                                 *)
LEMMA EarnedGrows ==
  ASSUME BaselineAssumption, NEW subs, NEW more, subs \subseteq more, NEW s,
         NEW problems \in AnyProblems
  PROVE  Earned(subs, s, problems) <= Earned(more, s, problems)
<1> DEFINE S == SolvedIn(more, s, problems)
<1>1. SolvedIn(subs, s, problems) \in SUBSET S /\ S \in SUBSET problems
  BY DEF SolvedIn
<1> HIDE DEF S
<1>2. IsFiniteSet(S) /\ \A p \in S : Points[p] \in Nat
  BY <1>1, ProblemsFinite, FS_Subset
<1> QED BY <1>1, <1>2, GradeSums, SumOfPart DEF Worth, S

-----------------------------------------------------------------------------
(* Typing.                                                                 *)
(* Times are integers: whole seconds after the start, or None.             *)
LEMMA TimeTyped ==
  ASSUME NEW mine, IsFiniteSet(mine), \A x \in mine : x.at \in Nat, NEW points
  PROVE  Outcome(mine, points, StartedAt, None).time \in Int
<1> DEFINE ok == {x \in mine : x.ok}
           at == [x \in mine |-> x.at]
           accepted == {x.at : x \in {y \in mine : y.ok}}
<1>1. accepted = {at[x] : x \in ok}
  OBVIOUS
<1>2. IsFiniteSet(accepted)
  <2>1. IsFiniteSet(ok)
    BY FS_Subset
  <2> HIDE DEF at
  <2>2. IsFiniteSet({at[x] : x \in ok})
    BY <2>1, ImageFinite
  <2> HIDE DEF accepted
  <2> QED BY <2>2, <1>1
<1>3. accepted \subseteq Int
  OBVIOUS
<1>4. Outcome(mine, points, StartedAt, None).time =
        IF accepted # {} /\ Min(accepted) >= StartedAt THEN Min(accepted) - StartedAt ELSE None
  BY DEF Outcome
<1> HIDE DEF accepted
<1>5. accepted # {} => Min(accepted) \in Int
  BY <1>2, <1>3, FiniteMin
<1> QED BY <1>4, <1>5 DEF StartedAt, None

LEMMA OutcomeTimes ==
  ASSUME BaselineAssumption, env \in Environments, NEW subs \in AnyEvidence, NEW s,
         NEW problems \in AnyProblems, NEW p \in problems
  PROVE  Outcomes(subs, s, problems)[p].time \in Int
<1> DEFINE mine == Of(subs, s, p)
<1>1. IsFiniteSet(mine) /\ \A x \in mine : x.at \in Nat
  <2>1. mine \in SUBSET subs /\ IsFiniteSet(subs) /\ \A x \in subs : x.at \in Nat
    BY DEF Of, AnyEvidence, BaselineAssumption
  <2> HIDE DEF mine
  <2> QED BY <2>1, FS_Subset
<1>2. Outcomes(subs, s, problems)[p] = Outcome(mine, Points[p], StartedAt, None)
  BY DEF Outcomes
<1> HIDE DEF mine
<1> QED BY <1>1, <1>2, TimeTyped

LEMMA GradedTyped ==
  ASSUME BaselineAssumption, env \in Environments, NEW subs \in AnyEvidence, NEW s,
         NEW problems \in AnyProblems, NEW a \in Attempts, NEW review \in Reviews
  PROVE  LET o == Outcomes(subs, s, problems)
             new == Graded(a, o, review)
         IN /\ new \in Attempts
            /\ new.status = a.status
            /\ new.score = Earned(subs, s, problems)
            /\ new.maxScore = Worth(problems)
            /\ new.accepted = SolvedIn(subs, s, problems)
            /\ new.graded
            /\ new.review = IF Raised(o, review) = review THEN a.review ELSE Raised(o, review)
<1> DEFINE o == Outcomes(subs, s, problems)
           times == {o[p].time : p \in Solved(o)} \ {None}
           time == IF times = {} THEN None ELSE Max(times)
           raised == IF Raised(o, review) = review THEN a.review ELSE Raised(o, review)
<1>1. /\ GradeAttempt(o).score = Earned(subs, s, problems) /\ Earned(subs, s, problems) \in Nat
      /\ GradeAttempt(o).maxScore = Worth(problems) /\ Worth(problems) \in Nat
      /\ Solved(o) = SolvedIn(subs, s, problems) /\ SolvedIn(subs, s, problems) \subseteq problems
  BY GradeSums, ScoreBounds DEF Earned
<1>2. problems \subseteq UNION Drafts
  BY DEF AnyProblems
<1>3. time \in Int
  <2> DEFINE timeOf == [p \in problems |-> o[p].time]
             all == {timeOf[p] : p \in Solved(o)}
  <2>1. \A p \in problems : o[p].time \in Int
    BY OutcomeTimes
  <2> HIDE DEF o
  <2>2. times = all \ {None} /\ all \subseteq Int
    BY <1>1, <2>1
  <2> HIDE DEF timeOf
  <2>3. IsFiniteSet(Solved(o))
    BY <1>1, ProblemsFinite, FS_Subset
  <2>4. IsFiniteSet(all)
    BY <2>3, ImageFinite
  <2> HIDE DEF all, times
  <2>5. IsFiniteSet(times) /\ times \subseteq Int
    BY <2>2, <2>4, FS_Subset
  <2>6. times # {} => Max(times) \in Int
    BY <2>5, FiniteMax
  <2> QED BY <2>6 DEF None
<1>4. raised \in Reviews
  BY DEF Raised, Reviews, Attempts
<1>5. Graded(a, o, review) =
        [a EXCEPT !.score = Earned(subs, s, problems), !.maxScore = Worth(problems),
                  !.accepted = SolvedIn(subs, s, problems), !.time = time,
                  !.graded = TRUE, !.review = raised]
  BY <1>1 DEF Graded
<1> DEFINE new == Graded(a, o, review)
<1> HIDE DEF time, raised, times, o
<1>6. /\ new.status = a.status /\ new.score = Earned(subs, s, problems)
      /\ new.maxScore = Worth(problems) /\ new.accepted = SolvedIn(subs, s, problems)
      /\ new.graded /\ new.review = raised
  BY <1>5 DEF Attempts
<1>7. new \in Attempts
  <2>1. /\ Earned(subs, s, problems) \in Nat /\ Worth(problems) \in Nat
        /\ SolvedIn(subs, s, problems) \in SUBSET UNION Drafts
    BY <1>1, <1>2
  <2>2. a.status \in {"NOT_STARTED", "IN_PROGRESS", "SUBMITTED"} /\ a.campus \in Campuses
    BY DEF Attempts
  <2>3. new = [status |-> a.status, score |-> Earned(subs, s, problems),
               maxScore |-> Worth(problems), accepted |-> SolvedIn(subs, s, problems),
               time |-> time, graded |-> TRUE, review |-> raised, campus |-> a.campus]
    BY <1>5 DEF Attempts
  <2> HIDE DEF new
  <2> QED BY <2>1, <2>2, <2>3, <1>3, <1>4 DEF Attempts
<1> HIDE DEF new
<1> QED BY <1>6, <1>7 DEF new, raised, o

LEMMA TypingInit == ASSUME BaselineAssumption, Init PROVE Typed
<1>1. NoTest \in Tests
  BY DEF NoTest, Tests, AnyProblems, None
<1>2. NoAttempt \in Attempts
  BY DEF NoAttempt, Attempts, Reviews, Campuses, None
<1>3. {} \in AnyEvidence
  BY FS_EmptySet DEF AnyEvidence
<1>4. Idle \in Pending /\ Idle.pc = "idle"
  BY <1>3 DEF Idle, Pending, Pcs, AnyProblems, Reviews
<1> HIDE DEF NoTest, NoAttempt, Idle
<1> QED BY <1>1, <1>2, <1>3, <1>4 DEF Init, Typed, Reviews, BaselineAssumption

LEMMA IdleTyped == ASSUME Typed PROVE Idle \in Pending /\ Idle.pc = "idle"
<1>1. {} \in AnyEvidence
  BY FS_EmptySet DEF AnyEvidence
<1> QED BY <1>1 DEF Idle, Pending, Pcs, AnyProblems, Reviews

LEMMA EditedTest ==
  ASSUME NEW x \in Tests, NEW p \in AnyProblems
  PROVE  [x EXCEPT !.problems = p, !.edition = x.edition + 1] \in Tests
<1>1. x.edition + 1 \in Nat
  BY DEF Tests
<1>2. \A n \in Nat : [x EXCEPT !.problems = p, !.edition = n] \in Tests
  BY DEF Tests
<1> QED BY <1>1, <1>2

LEMMA NewAttempt ==
  ASSUME NEW m \in Nat, NEW c \in Campuses
  PROVE  LET new == [NoAttempt EXCEPT !.status = "IN_PROGRESS", !.maxScore = m, !.campus = c]
         IN  new \in Attempts
<1>1. NoAttempt \in Attempts
  BY DEF NoAttempt, Attempts, Reviews, Campuses, None
<1> HIDE DEF NoAttempt
<1> QED BY <1>1 DEF Attempts

(* A step that changes one request, and nothing else that has a type. *)
LEMMA RequestTyped ==
  ASSUME Typed, NEW r \in Requests, NEW x \in Pending, req' = [req EXCEPT ![r] = x],
         x.pc \in {"start", "grade", "write", "mark"} => x.student \in Students
  PROVE  /\ req' \in [Requests -> Pending]
         /\ \A q \in Requests :
               req'[q].pc \in {"start", "grade", "write", "mark"} => req'[q].student \in Students
         /\ req'[r] = x /\ \A q \in Requests : q # r => req'[q] = req[q]
  BY DEF Typed

LEMMA DoneTyped ==
  ASSUME Typed, NEW r \in Requests, Done(r)
  PROVE  /\ req' \in [Requests -> Pending]
         /\ \A q \in Requests :
               req'[q].pc \in {"start", "grade", "write", "mark"} => req'[q].student \in Students
         /\ req'[r] = Idle /\ \A q \in Requests : q # r => req'[q] = req[q]
<1>1. Idle \in Pending /\ Idle.pc = "idle"
  BY IdleTyped
<1> HIDE DEF Idle
<1> QED BY <1>1, RequestTyped DEF Done

LEMMA GotoTyped ==
  ASSUME Typed, NEW r \in Requests, NEW pc \in Pcs, Goto(r, pc),
         pc \in {"start", "grade", "write", "mark"} => req[r].student \in Students
  PROVE  /\ req' \in [Requests -> Pending]
         /\ \A q \in Requests :
               req'[q].pc \in {"start", "grade", "write", "mark"} => req'[q].student \in Students
         /\ req'[r] = [req[r] EXCEPT !.pc = pc] /\ \A q \in Requests : q # r => req'[q] = req[q]
<1> DEFINE x == [req[r] EXCEPT !.pc = pc]
<1>1. x \in Pending /\ x.pc = pc /\ x.student = req[r].student
  BY DEF Typed, Pending
<1>2. req' = [req EXCEPT ![r] = x]
  BY DEF Goto
<1> HIDE DEF x
<1> QED BY <1>1, <1>2, RequestTyped DEF x

(* The typing of the next state, given that of its requests.               *)
LEMMA TypingOf ==
  ASSUME Typed, UNCHANGED env, test' \in Tests, attempt' \in [Students -> Attempts],
         mirror' \in AnyEvidence, synced' \subseteq Students, req' \in [Requests -> Pending],
         \A q \in Requests :
               req'[q].pc \in {"start", "grade", "write", "mark"} => req'[q].student \in Students,
         made' \in 0 .. MaxRequests, verdict' \in [Students -> Reviews \cup {"NONE"}],
         handedIn' \in [Students -> Nat], atClose' \in [Students -> Nat]
  PROVE  Typed'
<1>1. AnyEvidence' = AnyEvidence /\ Pending' = Pending
  BY DEF AnyEvidence, Pending
<1> HIDE DEF AnyEvidence
<1> QED BY <1>1 DEF Typed

LEMMA BeginTyped ==
  ASSUME Typed, BaselineAssumption, NEW r \in Requests, NEW x \in Pending, Begin(r, x),
         x.pc \in {"start", "grade", "write", "mark"} => x.student \in Students
  PROVE  /\ made' \in 0 .. MaxRequests
         /\ req' \in [Requests -> Pending]
         /\ \A q \in Requests :
               req'[q].pc \in {"start", "grade", "write", "mark"} => req'[q].student \in Students
         /\ req'[r] = x /\ \A q \in Requests : q # r => req'[q] = req[q]
<1>1. made' \in 0 .. MaxRequests
  BY DEF Begin, Typed, BaselineAssumption
<1> QED BY <1>1, RequestTyped DEF Begin

(* What each kind of request begins with.                                  *)
LEMMA BeginsTyped ==
  ASSUME Typed
  PROVE  /\ \A d \in Drafts : [Idle EXCEPT !.pc = "update", !.problems = d] \in Pending
         /\ \A t \in Statuses : [Idle EXCEPT !.pc = "status", !.target = t] \in Pending
         /\ [Idle EXCEPT !.pc = "remove"] \in Pending /\ [Idle EXCEPT !.pc = "list"] \in Pending
         /\ \A s \in Students :
               /\ [Idle EXCEPT !.pc = "start", !.student = s, !.problems = test.problems] \in Pending
               /\ [Idle EXCEPT !.pc = "grade", !.kind = "submit", !.student = s] \in Pending
<1>1. {} \in AnyEvidence
  BY FS_EmptySet DEF AnyEvidence
<1>2. test.problems \in AnyProblems
  BY DEF Typed, Tests
<1> HIDE DEF AnyEvidence
<1> QED BY <1>1, <1>2 DEF Idle, Pending, Pcs, AnyProblems, Reviews

LEMMA ScoreNowTyped ==
  ASSUME BaselineAssumption, Typed
  PROVE  \A s \in Students : ScoreNow(s) = Earned(mirror, s, test.problems) /\ ScoreNow(s) \in Nat
<1>1. test.problems \in AnyProblems
  BY DEF Typed, Tests
<1> QED BY <1>1, ScoreBounds DEF ScoreNow, Earned

-----------------------------------------------------------------------------
LEMMA TypingStep ==
  ASSUME BaselineAssumption, Typed, [Next]_vars
  PROVE  Typed'
<1> USE DEF rows, evidence, ghosts
<1>1. ASSUME UNCHANGED env, NEW d \in Drafts, NEW c \in Audiences, Create(d, c) PROVE Typed'
  <2>1. test' \in Tests
    BY <1>1 DEF Create, Tests, AnyProblems, Statuses
  <2> QED BY <1>1, <2>1, TypingOf DEF Create, Typed
<1>2. ASSUME UNCHANGED env, NEW r \in Requests, NEW d \in Drafts, ReadForUpdate(r, d) PROVE Typed'
  <2> DEFINE x == [Idle EXCEPT !.pc = "update", !.problems = d]
  <2>1. x \in Pending /\ x.pc = "update"
    BY BeginsTyped DEF Idle
  <2>2. Begin(r, x)
    BY <1>2 DEF ReadForUpdate
  <2> HIDE DEF x
  <2>3. /\ made' \in 0 .. MaxRequests /\ req' \in [Requests -> Pending]
        /\ \A q \in Requests :
              req'[q].pc \in {"start", "grade", "write", "mark"} => req'[q].student \in Students
    BY <2>1, <2>2, BeginTyped
  <2> QED BY <1>2, <2>3, TypingOf DEF ReadForUpdate, Typed
<1>3. ASSUME UNCHANGED env, NEW r \in Requests, Update(r) PROVE Typed'
  <2>1. test' \in Tests /\ attempt' \in [Students -> Attempts]
    <3>1. CASE test.status = "NONE"
      BY <1>3, <3>1 DEF Update, Typed
    <3>2. CASE test.status # "NONE"
      <4>1. test' = [test EXCEPT !.problems = req[r].problems, !.edition = test.edition + 1]
            /\ attempt' = [s \in Students |-> [attempt[s] EXCEPT !.accepted = {}]]
        BY <1>3, <3>2 DEF Update
      <4>2. test \in Tests /\ req[r].problems \in AnyProblems
        BY DEF Typed, Pending
      <4>5. test' \in Tests
        BY <4>1, <4>2, EditedTest
      <4>4. \A s \in Students : [attempt[s] EXCEPT !.accepted = {}] \in Attempts
        BY DEF Typed, Attempts
      <4> QED BY <4>1, <4>4, <4>5
    <3> QED BY <3>1, <3>2
  <2>2. /\ req' \in [Requests -> Pending]
        /\ \A q \in Requests :
              req'[q].pc \in {"start", "grade", "write", "mark"} => req'[q].student \in Students
    BY <1>3, DoneTyped DEF Update
  <2> QED BY <1>3, <2>1, <2>2, TypingOf DEF Update, Typed
<1>4. ASSUME UNCHANGED env, NEW r \in Requests, NEW t \in Statuses, ReadForStatus(r, t) PROVE Typed'
  <2> DEFINE x == [Idle EXCEPT !.pc = "status", !.target = t]
  <2>1. x \in Pending /\ x.pc = "status"
    BY BeginsTyped DEF Idle
  <2>2. Begin(r, x)
    BY <1>4 DEF ReadForStatus
  <2> HIDE DEF x
  <2>3. /\ made' \in 0 .. MaxRequests /\ req' \in [Requests -> Pending]
        /\ \A q \in Requests :
              req'[q].pc \in {"start", "grade", "write", "mark"} => req'[q].student \in Students
    BY <2>1, <2>2, BeginTyped
  <2> QED BY <1>4, <2>3, TypingOf DEF ReadForStatus, Typed
<1>5. ASSUME UNCHANGED env, NEW r \in Requests, WriteStatus(r) PROVE Typed'
  <2>1. test' \in Tests /\ atClose' \in [Students -> Nat]
    <3>1. test \in Tests /\ req[r].target \in Statuses \cup {"NONE"} /\ atClose \in [Students -> Nat]
      BY DEF Typed, Pending
    <3>2. test' = test \/ test' = [test EXCEPT !.status = req[r].target]
      BY <1>5 DEF WriteStatus
    <3>3. atClose' = atClose \/ atClose' = [s \in Students |-> ScoreNow(s)]
      BY <1>5 DEF WriteStatus
    <3> QED BY <3>1, <3>2, <3>3, ScoreNowTyped DEF Tests
  <2>2. /\ req' \in [Requests -> Pending]
        /\ \A q \in Requests :
              req'[q].pc \in {"start", "grade", "write", "mark"} => req'[q].student \in Students
    <3>1. Done(r) \/ Goto(r, "list")
      BY <1>5 DEF WriteStatus
    <3>2. "list" \in Pcs /\ "list" \notin {"start", "grade", "write", "mark"}
      BY DEF Pcs
    <3> QED BY <3>1, <3>2, DoneTyped, GotoTyped
  <2> QED BY <1>5, <2>1, <2>2, TypingOf DEF WriteStatus, Typed
<1>6. ASSUME UNCHANGED env, NEW r \in Requests, ReadForRemove(r) PROVE Typed'
  <2> DEFINE x == [Idle EXCEPT !.pc = "remove"]
  <2>1. x \in Pending /\ x.pc = "remove"
    BY BeginsTyped DEF Idle
  <2>2. Begin(r, x)
    BY <1>6 DEF ReadForRemove
  <2> HIDE DEF x
  <2>3. /\ made' \in 0 .. MaxRequests /\ req' \in [Requests -> Pending]
        /\ \A q \in Requests :
              req'[q].pc \in {"start", "grade", "write", "mark"} => req'[q].student \in Students
    BY <2>1, <2>2, BeginTyped
  <2> QED BY <1>6, <2>3, TypingOf DEF ReadForRemove, Typed
<1>7. ASSUME UNCHANGED env, NEW r \in Requests, RemoveTest(r) PROVE Typed'
  <2>1. test' \in Tests
    BY <1>7 DEF RemoveTest, NoTest, Tests, AnyProblems, None, Typed
  <2>2. NoAttempt \in Attempts
    BY DEF NoAttempt, Attempts, Reviews, Campuses, None
  <2>3. /\ req' \in [Requests -> Pending]
        /\ \A q \in Requests :
              req'[q].pc \in {"start", "grade", "write", "mark"} => req'[q].student \in Students
    BY <1>7, DoneTyped DEF RemoveTest
  <2> HIDE DEF NoAttempt
  <2>4. attempt' \in [Students -> Attempts] /\ verdict' \in [Students -> Reviews \cup {"NONE"}]
    BY <1>7, <2>2 DEF RemoveTest
  <2> QED BY <1>7, <2>1, <2>3, <2>4, TypingOf DEF RemoveTest, Typed
<1>8. ASSUME UNCHANGED env, NEW r \in Requests, NEW s \in Students, ReadForStart(r, s) PROVE Typed'
  <2> DEFINE x == [Idle EXCEPT !.pc = "start", !.student = s, !.problems = test.problems]
  <2>1. x \in Pending /\ x.student = s
    BY BeginsTyped DEF Idle
  <2>2. Begin(r, x)
    BY <1>8 DEF ReadForStart
  <2> HIDE DEF x
  <2>3. /\ made' \in 0 .. MaxRequests /\ req' \in [Requests -> Pending]
        /\ \A q \in Requests :
              req'[q].pc \in {"start", "grade", "write", "mark"} => req'[q].student \in Students
    BY <2>1, <2>2, BeginTyped
  <2> QED BY <1>8, <2>3, TypingOf DEF ReadForStart, Typed
<1>9. ASSUME UNCHANGED env, NEW r \in Requests, Start(r) PROVE Typed'
  <2>1. attempt' \in [Students -> Attempts]
    <3>1. attempt \in [Students -> Attempts] /\ req[r].student \in Students
          /\ req[r].problems \in AnyProblems
      BY <1>9 DEF Typed, Start, At, Pending
    <3> DEFINE s == req[r].student
               new == [NoAttempt EXCEPT !.status = "IN_PROGRESS",
                          !.maxScore = Tally(req[r].problems, LAMBDA p : Points[p]),
                          !.campus = Roster[s].campus]
    <3>2. Tally(req[r].problems, LAMBDA p : Points[p]) \in Nat
      <4> DEFINE P == req[r].problems
      <4> HIDE DEF P
      <4>1. Tally(P, LAMBDA p : Points[p]) = Worth(P)
        BY TallyOfPoints
      <4>2. Worth(P) \in Nat
        BY <3>1, ScoreBounds DEF P
      <4> QED BY <4>1, <4>2 DEF P
    <3>3. new \in Attempts
      <4>2. Roster[s].campus \in Campuses
        BY <3>1 DEF Campuses
      <4> QED BY <4>2, <3>2, NewAttempt
    <3>4. attempt' = attempt \/ attempt' = [attempt EXCEPT ![s] = new]
      BY <1>9 DEF Start
    <3> HIDE DEF new
    <3> QED BY <3>1, <3>3, <3>4
  <2>2. /\ req' \in [Requests -> Pending]
        /\ \A q \in Requests :
              req'[q].pc \in {"start", "grade", "write", "mark"} => req'[q].student \in Students
    BY <1>9, DoneTyped DEF Start
  <2> QED BY <1>9, <2>1, <2>2, TypingOf DEF Start, Typed
<1>10. ASSUME UNCHANGED env, NEW r \in Requests, NEW s \in Students, ReadForSubmit(r, s) PROVE Typed'
  <2> DEFINE x == [Idle EXCEPT !.pc = "grade", !.kind = "submit", !.student = s]
  <2>1. x \in Pending /\ x.student = s
    BY BeginsTyped DEF Idle
  <2>2. Begin(r, x)
    BY <1>10 DEF ReadForSubmit
  <2> HIDE DEF x
  <2>3. /\ made' \in 0 .. MaxRequests /\ req' \in [Requests -> Pending]
        /\ \A q \in Requests :
              req'[q].pc \in {"start", "grade", "write", "mark"} => req'[q].student \in Students
    BY <2>1, <2>2, BeginTyped
  <2>4. handedIn' \in [Students -> Nat]
    BY <1>10, ScoreNowTyped DEF ReadForSubmit, Typed
  <2> QED BY <1>10, <2>3, <2>4, TypingOf DEF ReadForSubmit, Typed
<1>11. ASSUME UNCHANGED env, NEW r \in Requests, MarkSubmitted(r) PROVE Typed'
  <2>1. attempt' \in [Students -> Attempts]
    <3>1. attempt \in [Students -> Attempts] /\ req[r].student \in Students
      BY <1>11 DEF Typed, MarkSubmitted, At
    <3>2. attempt' = attempt \/ attempt' = [attempt EXCEPT ![req[r].student].status = "SUBMITTED"]
      BY <1>11 DEF MarkSubmitted
    <3> QED BY <3>1, <3>2 DEF Attempts
  <2>2. /\ req' \in [Requests -> Pending]
        /\ \A q \in Requests :
              req'[q].pc \in {"start", "grade", "write", "mark"} => req'[q].student \in Students
    BY <1>11, DoneTyped DEF MarkSubmitted
  <2> QED BY <1>11, <2>1, <2>2, TypingOf DEF MarkSubmitted, Typed
<1>12. ASSUME UNCHANGED env, NEW r \in Requests, Regrade(r) PROVE Typed'
  <2> DEFINE x == [Idle EXCEPT !.pc = "list"]
  <2>1. x \in Pending /\ x.pc = "list"
    BY BeginsTyped DEF Idle
  <2>2. Begin(r, x)
    BY <1>12 DEF Regrade
  <2> HIDE DEF x
  <2>3. /\ made' \in 0 .. MaxRequests /\ req' \in [Requests -> Pending]
        /\ \A q \in Requests :
              req'[q].pc \in {"start", "grade", "write", "mark"} => req'[q].student \in Students
    BY <2>1, <2>2, BeginTyped
  <2> QED BY <1>12, <2>3, TypingOf DEF Regrade, Typed
<1>13. ASSUME UNCHANGED env, NEW r \in Requests, ListAttempts(r) PROVE Typed'
  <2> DEFINE x == [req[r] EXCEPT !.pc = "next", !.queue = {s \in Students : Started(s)}]
  <2>1. x \in Pending /\ x.pc = "next"
    <3>1. ASSUME NEW y \in Pending, NEW queue \in SUBSET Students
          PROVE  LET z == [y EXCEPT !.pc = "next", !.queue = queue]
                 IN  z \in Pending /\ z.pc = "next"
      BY DEF Pending, Pcs
    <3>2. req[r] \in Pending /\ {s \in Students : Started(s)} \in SUBSET Students
      BY DEF Typed
    <3> QED BY <3>1, <3>2
  <2>2. req' = [req EXCEPT ![r] = x]
    BY <1>13 DEF ListAttempts
  <2> HIDE DEF x
  <2>3. /\ req' \in [Requests -> Pending]
        /\ \A q \in Requests :
              req'[q].pc \in {"start", "grade", "write", "mark"} => req'[q].student \in Students
    BY <2>1, <2>2, RequestTyped
  <2> QED BY <1>13, <2>3, TypingOf DEF ListAttempts, Typed
<1>14. ASSUME UNCHANGED env, NEW r \in Requests, NextAttempt(r) PROVE Typed'
  <2>1. /\ req' \in [Requests -> Pending]
        /\ \A q \in Requests :
              req'[q].pc \in {"start", "grade", "write", "mark"} => req'[q].student \in Students
    <3>1. CASE req[r].queue = {}
      BY <1>14, <3>1, DoneTyped DEF NextAttempt
    <3>2. CASE req[r].queue # {}
      <4>1. PICK s \in req[r].queue :
               req' = [req EXCEPT ![r].pc = "grade", ![r].student = s, ![r].queue = @ \ {s}]
        BY <1>14, <3>2 DEF NextAttempt
      <4> DEFINE x == [req[r] EXCEPT !.pc = "grade", !.student = s, !.queue = @ \ {s}]
      <4>2. x \in Pending /\ x.student \in Students
        <5>1. ASSUME NEW y \in Pending, NEW t \in Students
              PROVE  LET z == [y EXCEPT !.pc = "grade", !.student = t, !.queue = y.queue \ {t}]
                     IN  z \in Pending /\ z.student = t
          BY DEF Pending, Pcs
        <5>2. req[r] \in Pending /\ s \in Students
          BY DEF Typed, Pending
        <5> QED BY <5>1, <5>2
      <4>3. req' = [req EXCEPT ![r] = x]
        BY <4>1
      <4> HIDE DEF x
      <4> QED BY <4>2, <4>3, RequestTyped
    <3> QED BY <3>1, <3>2
  <2> QED BY <1>14, <2>1, TypingOf DEF NextAttempt, Typed
<1>15. ASSUME UNCHANGED env, NEW r \in Requests, ReadForGrade(r) PROVE Typed'
  <2>1. req[r].student \in Students
    BY <1>15 DEF ReadForGrade, Typed, At
  <2>2. /\ req' \in [Requests -> Pending]
        /\ \A q \in Requests :
              req'[q].pc \in {"start", "grade", "write", "mark"} => req'[q].student \in Students
    <3>1. CASE ~ Started(req[r].student)
      <4>1. Goto(r, "mark") \/ Goto(r, "next")
        BY <1>15, <3>1 DEF ReadForGrade, AfterGrade
      <4> QED BY <4>1, <2>1, GotoTyped DEF Pcs
    <3>2. CASE Started(req[r].student)
      <4> DEFINE x == [req[r] EXCEPT !.pc = "write", !.problems = test.problems,
                                     !.edition = test.edition, !.evidence = mirror,
                                     !.review = attempt[req[r].student].review]
      <4>1. /\ test.problems \in AnyProblems /\ test.edition \in Nat /\ mirror \in AnyEvidence
            /\ attempt[req[r].student].review \in Reviews /\ req[r] \in Pending
        BY <2>1 DEF Typed, Tests, Attempts
      <4>2. x \in Pending /\ x.student \in Students
        BY <4>1, <2>1 DEF Pending, Pcs
      <4>3. req' = [req EXCEPT ![r] = x]
        BY <1>15, <3>2 DEF ReadForGrade
      <4> HIDE DEF x
      <4> QED BY <4>2, <4>3, RequestTyped
    <3> QED BY <3>1, <3>2
  <2> QED BY <1>15, <2>2, TypingOf DEF ReadForGrade, Typed
<1>16. ASSUME UNCHANGED env, NEW r \in Requests, WriteGrade(r) PROVE Typed'
  <2>1. /\ req[r].student \in Students /\ req[r].problems \in AnyProblems
        /\ req[r].evidence \in AnyEvidence /\ req[r].review \in Reviews
        /\ env \in Environments
    BY <1>16 DEF WriteGrade, Typed, At, Pending
  <2> DEFINE s == req[r].student
             o == Outcomes(req[r].evidence, s, req[r].problems)
  <2>2. Graded(attempt[s], o, req[r].review) \in Attempts
    BY <2>1, GradedTyped DEF Typed
  <2>3. attempt' \in [Students -> Attempts]
    <3>1. attempt' = attempt \/ attempt' = [attempt EXCEPT ![s] = Graded(attempt[s], o, req[r].review)]
      BY <1>16 DEF WriteGrade
    <3> HIDE DEF o
    <3> QED BY <3>1, <2>1, <2>2 DEF Typed
  <2>4. /\ req' \in [Requests -> Pending]
        /\ \A q \in Requests :
              req'[q].pc \in {"start", "grade", "write", "mark"} => req'[q].student \in Students
    <3>1. Done(r) \/ Goto(r, "mark") \/ Goto(r, "next")
      BY <1>16 DEF WriteGrade, AfterGrade
    <3> QED BY <3>1, <2>1, DoneTyped, GotoTyped DEF Pcs
  <2> QED BY <1>16, <2>3, <2>4, TypingOf DEF WriteGrade, Typed
<1>17. ASSUME UNCHANGED env, NEW r \in Requests, GradeConflict(r) \/ Crash(r) PROVE Typed'
  <2>1. Done(r) /\ UNCHANGED <<rows, evidence, made, ghosts>>
    BY <1>17 DEF GradeConflict, Crash
  <2> QED BY <1>17, <2>1, DoneTyped, TypingOf DEF Typed
<1>18. ASSUME UNCHANGED env, NEW s \in Students, NEW c \in {"NOT_REVIEWED", "REVIEWED"}, Review(s, c)
       PROVE  Typed'
  <2>1. attempt[s] \in Attempts /\ c \in Reviews
    BY <1>18 DEF Typed, Reviews
  <2>2. [attempt[s] EXCEPT !.review = c] \in Attempts
    BY <2>1 DEF Attempts
  <2>3. attempt' \in [Students -> Attempts] /\ verdict' \in [Students -> Reviews \cup {"NONE"}]
    BY <1>18, <2>1, <2>2 DEF Review, Typed
  <2> QED BY <1>18, <2>3, TypingOf DEF Review, Typed
<1>19. ASSUME UNCHANGED env, NEW x \in Submissions[env], Sync(x) PROVE Typed'
  <2>1. mirror' \in AnyEvidence /\ synced' \subseteq Students
    BY <1>19, FS_AddElement DEF Sync, Typed, AnyEvidence, BaselineAssumption
  <2> QED BY <1>19, <2>1, TypingOf DEF Sync, Typed
<1>20. ASSUME UNCHANGED env, NEW s \in Students, ForgetSync(s) PROVE Typed'
  BY <1>20, TypingOf DEF ForgetSync, Typed
<1>21. ASSUME UNCHANGED vars PROVE Typed'
  BY <1>21, TypingOf DEF vars, Typed
<1> QED BY <1>1, <1>2, <1>3, <1>4, <1>5, <1>6, <1>7, <1>8, <1>9, <1>10, <1>11, <1>12, <1>13,
           <1>14, <1>15, <1>16, <1>17, <1>18, <1>19, <1>20, <1>21 DEF Next, Step

-----------------------------------------------------------------------------
(* Rows that are not there hold nothing, and before the test there is no   *)
(* request about it and nothing was handed in.                             *)
Empty(a) ==
    a.score = 0 /\ a.maxScore = 0 /\ a.accepted = {} /\ ~ a.graded /\ a.review = "NOT_REVIEWED"

Blank ==
    /\ \A s \in Students : Started(s) \/ Empty(attempt[s])
    /\ test.status = "NONE" => \A s \in Students : ~ Started(s)
    /\ test = NoTest => Alone /\ \A s \in Students : handedIn[s] = 0
    /\ \A r \in Requests : At(r, "status") => req[r].target \in Statuses

LEMMA IdlePc == Idle.pc = "idle" /\ Idle.kind = "none"
  BY DEF Idle

(* The requests after a step of r. *)
LEMMA AfterDone ==
  ASSUME Typed, NEW r \in Requests, Done(r)
  PROVE  /\ req'[r].pc = "idle" /\ req'[r].kind = "none"
         /\ \A q \in Requests : q # r => req'[q] = req[q]
  BY DoneTyped, IdlePc

LEMMA AfterGoto ==
  ASSUME Typed, NEW r \in Requests, NEW pc \in Pcs, Goto(r, pc)
  PROVE  LET x == req'[r] IN
         /\ x.pc = pc /\ x.kind = req[r].kind /\ x.student = req[r].student
         /\ x.target = req[r].target /\ x.problems = req[r].problems /\ x.edition = req[r].edition
         /\ x.evidence = req[r].evidence /\ x.review = req[r].review /\ x.queue = req[r].queue
         /\ \A q \in Requests : q # r => req'[q] = req[q]
<1> DEFINE y == [req[r] EXCEPT !.pc = pc]
<1>1. req' = [req EXCEPT ![r] = y]
  BY DEF Goto
<1>2. req'[r] = y /\ \A q \in Requests : q # r => req'[q] = req[q]
  BY <1>1 DEF Typed
<1>3. req[r] \in Pending
  BY DEF Typed
<1>4. /\ y.pc = pc /\ y.kind = req[r].kind /\ y.student = req[r].student
      /\ y.target = req[r].target /\ y.problems = req[r].problems /\ y.edition = req[r].edition
      /\ y.evidence = req[r].evidence /\ y.review = req[r].review /\ y.queue = req[r].queue
  BY <1>3 DEF Pending
<1> HIDE DEF y
<1> QED BY <1>2, <1>4

LEMMA AfterBegin ==
  ASSUME Typed, NEW r \in Requests, NEW x, Begin(r, x)
  PROVE  /\ req'[r] = x /\ At(r, "idle")
         /\ \A q \in Requests : q # r => req'[q] = req[q]
         /\ Sequential => Alone
  BY DEF Begin, Typed, Sequential, At

LEMMA AfterListing ==
  ASSUME Typed, NEW r \in Requests, ListAttempts(r)
  PROVE  /\ req'[r].pc = "next" /\ req'[r].kind = req[r].kind
         /\ req'[r].queue = {s \in Students : Started(s)}
         /\ \A q \in Requests : q # r => req'[q] = req[q]
<1> DEFINE y(queue) == [req[r] EXCEPT !.pc = "next", !.queue = queue]
<1>1. req' = [req EXCEPT ![r] = y({s \in Students : Started(s)})]
  BY DEF ListAttempts
<1>2. \A queue : y(queue).pc = "next" /\ y(queue).kind = req[r].kind /\ y(queue).queue = queue
  <2>1. req[r] \in Pending
    BY DEF Typed
  <2> QED BY <2>1 DEF Pending
<1> HIDE DEF y
<1> QED BY <1>1, <1>2 DEF Typed

LEMMA AfterNext ==
  ASSUME Typed, NEW r \in Requests, NextAttempt(r)
  PROVE  \/ /\ req[r].queue = {} /\ Done(r)
         \/ \E s \in req[r].queue :
              /\ req'[r].pc = "grade" /\ req'[r].kind = req[r].kind
              /\ req'[r].student = s /\ req'[r].queue = req[r].queue \ {s}
              /\ \A q \in Requests : q # r => req'[q] = req[q]
<1>1. CASE req[r].queue = {}
  BY <1>1 DEF NextAttempt
<1>2. CASE req[r].queue # {}
  <2>1. PICK s \in req[r].queue :
           req' = [req EXCEPT ![r].pc = "grade", ![r].student = s, ![r].queue = @ \ {s}]
    BY <1>2 DEF NextAttempt
  <2> DEFINE y(queue) == [req[r] EXCEPT !.pc = "grade", !.student = s, !.queue = queue]
  <2>2. req' = [req EXCEPT ![r] = y(req[r].queue \ {s})]
    BY <2>1
  <2>3. \A queue : /\ y(queue).pc = "grade" /\ y(queue).kind = req[r].kind
                   /\ y(queue).student = s /\ y(queue).queue = queue
    <3>1. req[r] \in Pending
      BY DEF Typed
    <3> QED BY <3>1 DEF Pending
  <2> HIDE DEF y
  <2> QED BY <2>2, <2>3 DEF Typed
<1> QED BY <1>1, <1>2

LEMMA AfterReading ==
  ASSUME Typed, NEW r \in Requests, ReadForGrade(r)
  PROVE  LET s == req[r].student IN
         /\ s \in Students
         /\ \/ /\ ~ Started(s) /\ AfterGrade(r)
            \/ /\ Started(s)
               /\ req'[r].pc = "write" /\ req'[r].kind = req[r].kind /\ req'[r].student = s
               /\ req'[r].problems = test.problems /\ req'[r].edition = test.edition
               /\ req'[r].evidence = mirror /\ req'[r].review = attempt[s].review
               /\ req'[r].queue = req[r].queue
               /\ \A q \in Requests : q # r => req'[q] = req[q]
<1> DEFINE s == req[r].student
<1>1. s \in Students
  BY DEF ReadForGrade, Typed, At
<1>2. CASE ~ Started(s)
  BY <1>1, <1>2 DEF ReadForGrade
<1>3. CASE Started(s)
  <2> DEFINE y(p, e, m, v) == [req[r] EXCEPT !.pc = "write", !.problems = p, !.edition = e,
                                             !.evidence = m, !.review = v]
  <2>1. req' = [req EXCEPT ![r] = y(test.problems, test.edition, mirror, attempt[s].review)]
    BY <1>3 DEF ReadForGrade
  <2>2. \A p, e, m, v :
           LET x == y(p, e, m, v)
           IN  /\ x.pc = "write" /\ x.kind = req[r].kind /\ x.student = s /\ x.queue = req[r].queue
               /\ x.problems = p /\ x.edition = e /\ x.evidence = m /\ x.review = v
    <3>1. req[r] \in Pending
      BY DEF Typed
    <3> QED BY <3>1 DEF Pending
  <2> HIDE DEF y
  <2> QED BY <1>1, <1>3, <2>1, <2>2 DEF Typed
<1> QED BY <1>2, <1>3

(* The attempts after a step. *)
LEMMA AfterStart ==
  ASSUME BaselineAssumption, Typed, NEW r \in Requests, Start(r)
  PROVE  LET s == req[r].student
             a == attempt'[s]
         IN  /\ s \in Students
             /\ \/ (Started(s) \/ test.status = "NONE") /\ attempt' = attempt
                \/ /\ ~ Started(s) /\ test.status # "NONE"
                   /\ a.status = "IN_PROGRESS" /\ a.maxScore = Worth(req[r].problems)
                   /\ a.score = 0 /\ a.accepted = {} /\ ~ a.graded /\ a.review = "NOT_REVIEWED"
                   /\ \A t \in Students : t # s => attempt'[t] = attempt[t]
<1> DEFINE s == req[r].student
           P == req[r].problems
           new(m, c) == [NoAttempt EXCEPT !.status = "IN_PROGRESS", !.maxScore = m, !.campus = c]
<1>1. s \in Students
  BY DEF Start, Typed, At
<1>2. CASE Started(s) \/ test.status = "NONE"
  BY <1>1, <1>2 DEF Start
<1>3. CASE ~ (Started(s) \/ test.status = "NONE")
  <2> HIDE DEF P
  <2>1. Tally(P, LAMBDA p : Points[p]) = Worth(P)
    BY TallyOfPoints
  <2> HIDE DEF new
  <2>2. attempt' = [attempt EXCEPT ![s] = new(Tally(P, LAMBDA p : Points[p]), Roster[s].campus)]
    BY <1>3 DEF Start, P, new
  <2>3. attempt' = [attempt EXCEPT ![s] = new(Worth(P), Roster[s].campus)]
    BY <2>1, <2>2
  <2>4. \A m, c : LET a == new(m, c) IN
           /\ a.status = "IN_PROGRESS" /\ a.maxScore = m
           /\ a.score = 0 /\ a.accepted = {} /\ ~ a.graded /\ a.review = "NOT_REVIEWED"
    BY DEF new, NoAttempt
  <2>5. attempt'[s] = new(Worth(P), Roster[s].campus)
        /\ \A t \in Students : t # s => attempt'[t] = attempt[t]
    BY <2>3, <1>1 DEF Typed
  <2> QED BY <1>1, <1>3, <2>4, <2>5 DEF P
<1> QED BY <1>2, <1>3

LEMMA AfterMark ==
  ASSUME Typed, NEW r \in Requests, MarkSubmitted(r)
  PROVE  LET s == req[r].student
             a == attempt'[s]
         IN  /\ s \in Students
             /\ \/ ~ Started(s) /\ attempt' = attempt
                \/ /\ Started(s) /\ a.status = "SUBMITTED"
                   /\ a.score = attempt[s].score /\ a.maxScore = attempt[s].maxScore
                   /\ a.accepted = attempt[s].accepted /\ a.graded = attempt[s].graded
                   /\ a.review = attempt[s].review
                   /\ \A t \in Students : t # s => attempt'[t] = attempt[t]
<1> DEFINE s == req[r].student
           y == [attempt[s] EXCEPT !.status = "SUBMITTED"]
<1>1. s \in Students /\ attempt[s] \in Attempts
  BY DEF MarkSubmitted, Typed, At
<1>2. CASE ~ Started(s)
  BY <1>1, <1>2 DEF MarkSubmitted
<1>3. CASE Started(s)
  <2>1. attempt' = [attempt EXCEPT ![s] = y]
    BY <1>3 DEF MarkSubmitted
  <2>2. /\ y.status = "SUBMITTED" /\ y.score = attempt[s].score /\ y.maxScore = attempt[s].maxScore
        /\ y.accepted = attempt[s].accepted /\ y.graded = attempt[s].graded
        /\ y.review = attempt[s].review
    BY <1>1 DEF Attempts
  <2> HIDE DEF y
  <2> QED BY <1>1, <1>3, <2>1, <2>2 DEF Typed
<1> QED BY <1>2, <1>3

(* The status a grading leaves: raised where it read NOT_REVIEWED. *)
LEMMA AfterWrite ==
  ASSUME BaselineAssumption, Typed, NEW r \in Requests, WriteGrade(r)
  PROVE  LET x == req[r]
             s == req[r].student
             a == attempt'[s]
         IN  /\ s \in Students /\ x.problems \in AnyProblems
             /\ \/ ~ (Started(s) /\ x.edition = test.edition) /\ attempt' = attempt /\ Done(r)
                \/ /\ Started(s) /\ x.edition = test.edition /\ AfterGrade(r)
                   /\ a.status = attempt[s].status /\ a.graded
                   /\ a.score = Earned(x.evidence, s, x.problems)
                   /\ a.maxScore = Worth(x.problems)
                   /\ a.accepted = SolvedIn(x.evidence, s, x.problems)
                   /\ a.review = attempt[s].review
                        \/ (x.review = "NOT_REVIEWED" /\ a.review = "REVIEW_REQUIRED")
                   /\ \A t \in Students : t # s => attempt'[t] = attempt[t]
<1> DEFINE x == req[r]
           s == req[r].student
           o == Outcomes(x.evidence, s, x.problems)
           new == Graded(attempt[s], o, x.review)
<1>1. /\ s \in Students /\ x.problems \in AnyProblems /\ x.evidence \in AnyEvidence
      /\ x.review \in Reviews /\ env \in Environments /\ attempt[s] \in Attempts
  BY DEF WriteGrade, Typed, At, Pending
<1>2. CASE ~ (Started(s) /\ x.edition = test.edition)
  BY <1>1, <1>2 DEF WriteGrade
<1>3. CASE Started(s) /\ x.edition = test.edition
  <2>1. attempt' = [attempt EXCEPT ![s] = new] /\ AfterGrade(r)
    BY <1>3 DEF WriteGrade
  <2>2. /\ new.status = attempt[s].status /\ new.graded
        /\ new.score = Earned(x.evidence, s, x.problems)
        /\ new.maxScore = Worth(x.problems)
        /\ new.accepted = SolvedIn(x.evidence, s, x.problems)
        /\ new.review = IF Raised(o, x.review) = x.review THEN attempt[s].review
                        ELSE Raised(o, x.review)
    BY <1>1, GradedTyped
  <2>3. new.review = attempt[s].review
          \/ (x.review = "NOT_REVIEWED" /\ new.review = "REVIEW_REQUIRED")
    <3> HIDE DEF o
    <3> QED BY <2>2 DEF Raised
  <2> HIDE DEF new
  <2>4. attempt'[s] = new /\ \A t \in Students : t # s => attempt'[t] = attempt[t]
    BY <2>1, <1>1 DEF Typed
  <2> HIDE DEF o
  <2> QED BY <1>1, <1>3, <2>1, <2>2, <2>3, <2>4
<1> QED BY <1>2, <1>3

LEMMA AfterReview ==
  ASSUME Typed, NEW s \in Students, NEW c, Review(s, c)
  PROVE  LET a == attempt'[s] IN
         /\ Started(s) /\ a.review = c /\ a.status = attempt[s].status
         /\ a.score = attempt[s].score /\ a.maxScore = attempt[s].maxScore
         /\ a.accepted = attempt[s].accepted /\ a.graded = attempt[s].graded
         /\ verdict'[s] = c
         /\ \A t \in Students : t # s => attempt'[t] = attempt[t] /\ verdict'[t] = verdict[t]
         /\ Sequential => Alone
<1> DEFINE y == [attempt[s] EXCEPT !.review = c]
<1>1. attempt' = [attempt EXCEPT ![s] = y] /\ attempt[s] \in Attempts /\ Started(s)
  BY DEF Review, Typed
<1>2. /\ y.review = c /\ y.status = attempt[s].status
      /\ y.score = attempt[s].score /\ y.maxScore = attempt[s].maxScore
      /\ y.accepted = attempt[s].accepted /\ y.graded = attempt[s].graded
  BY <1>1 DEF Attempts
<1> HIDE DEF y
<1>3. verdict'[s] = c /\ \A t \in Students : t # s => verdict'[t] = verdict[t]
  BY DEF Review, Typed
<1>4. Sequential => Alone
  BY DEF Review, Sequential
<1> QED BY <1>1, <1>2, <1>3, <1>4 DEF Typed

LEMMA AfterUpdate ==
  ASSUME Typed, NEW r \in Requests, Update(r)
  PROVE  \/ test.status = "NONE" /\ test' = test /\ attempt' = attempt
         \/ /\ test.status # "NONE" /\ test'.status = test.status
            /\ test'.problems = req[r].problems /\ test'.edition = test.edition + 1
            /\ \A s \in Students : LET a == attempt'[s] IN
                  /\ a.status = attempt[s].status /\ a.accepted = {}
                  /\ a.score = attempt[s].score /\ a.maxScore = attempt[s].maxScore
                  /\ a.graded = attempt[s].graded /\ a.review = attempt[s].review
<1>1. CASE test.status = "NONE"
  BY <1>1 DEF Update, rows
<1>2. CASE test.status # "NONE"
  <2> DEFINE y(p, e) == [test EXCEPT !.problems = p, !.edition = e]
             z(s) == [attempt[s] EXCEPT !.accepted = {}]
  <2>1. test' = y(req[r].problems, test.edition + 1) /\ attempt' = [s \in Students |-> z(s)]
    BY <1>2 DEF Update
  <2>2. \A p, e : y(p, e).status = test.status /\ y(p, e).problems = p /\ y(p, e).edition = e
    <3>1. test \in Tests
      BY DEF Typed
    <3> QED BY <3>1 DEF Tests
  <2>3. \A s \in Students :
           /\ z(s).status = attempt[s].status /\ z(s).accepted = {}
           /\ z(s).score = attempt[s].score /\ z(s).maxScore = attempt[s].maxScore
           /\ z(s).graded = attempt[s].graded /\ z(s).review = attempt[s].review
    <3>1. \A s \in Students : attempt[s] \in Attempts
      BY DEF Typed
    <3> QED BY <3>1 DEF Attempts
  <2> HIDE DEF y
  <2>4. /\ test'.status = test.status /\ test'.problems = req[r].problems
        /\ test'.edition = test.edition + 1
    BY <2>1, <2>2
  <2> HIDE DEF z
  <2>5. \A s \in Students : attempt'[s] = z(s)
    BY <2>1
  <2>6. \A s \in Students : LET a == attempt'[s] IN
           /\ a.status = attempt[s].status /\ a.accepted = {}
           /\ a.score = attempt[s].score /\ a.maxScore = attempt[s].maxScore
           /\ a.graded = attempt[s].graded /\ a.review = attempt[s].review
    BY <2>3, <2>5
  <2> QED BY <1>2, <2>4, <2>6
<1> QED BY <1>1, <1>2

LEMMA AfterStatus ==
  ASSUME Typed, Blank, NEW r \in Requests, WriteStatus(r)
  PROVE  \/ test.status = "NONE" /\ test' = test /\ UNCHANGED atClose /\ Done(r)
         \/ /\ test.status # "NONE" /\ test'.status = req[r].target /\ req[r].target \in Statuses
            /\ test'.problems = test.problems /\ test'.edition = test.edition
            /\ \/ /\ req[r].target = "CLOSED" /\ Goto(r, "list")
                  /\ atClose' = [s \in Students |-> ScoreNow(s)]
               \/ req[r].target # "CLOSED" /\ Done(r) /\ UNCHANGED atClose
<1>1. CASE test.status = "NONE"
  BY <1>1 DEF WriteStatus
<1>2. CASE test.status # "NONE"
  <2> DEFINE y(t) == [test EXCEPT !.status = t]
  <2>1. test' = y(req[r].target) /\ req[r].target \in Statuses
    BY <1>2 DEF WriteStatus, Blank, At
  <2>2. \A t : y(t).status = t /\ y(t).problems = test.problems /\ y(t).edition = test.edition
    <3>1. test \in Tests
      BY DEF Typed
    <3> QED BY <3>1 DEF Tests
  <2> HIDE DEF y
  <2> QED BY <1>2, <2>1, <2>2 DEF WriteStatus
<1> QED BY <1>1, <1>2

LEMMA AfterRemove ==
  ASSUME Typed, NEW r \in Requests, RemoveTest(r)
  PROVE  /\ test'.status = "NONE" /\ test'.problems = {} /\ test'.edition = test.edition + 1
         /\ test'.edition # 0
         /\ \A s \in Students : attempt'[s].status = "NOT_STARTED" /\ Empty(attempt'[s])
         /\ \A s \in Students : verdict'[s] = "NONE"
<1> DEFINE y(e) == [NoTest EXCEPT !.edition = e]
<1>1. test' = y(test.edition + 1) /\ attempt' = [s \in Students |-> NoAttempt]
      /\ verdict' = [s \in Students |-> "NONE"]
  BY DEF RemoveTest
<1>2. \A e : y(e).status = "NONE" /\ y(e).problems = {} /\ y(e).edition = e
  BY DEF NoTest
<1>3. NoAttempt.status = "NOT_STARTED" /\ Empty(NoAttempt)
  BY DEF NoAttempt, Empty
<1>4. test.edition + 1 # 0
  <2>1. test.edition \in Nat
    BY DEF Typed, Tests
  <2> QED BY <2>1
<1> HIDE DEF y, NoAttempt
<1> QED BY <1>1, <1>2, <1>3, <1>4

LEMMA BlankInit == ASSUME BaselineAssumption, Init PROVE Blank
<1>1. Idle.pc = "idle"
  BY IdlePc
<1>2. NoAttempt.status = "NOT_STARTED" /\ Empty(NoAttempt)
  BY DEF NoAttempt, Empty
<1> HIDE DEF Idle, NoAttempt
<1> QED BY <1>1, <1>2 DEF Init, Blank, Alone, At, Started

(* Steps that leave the rows alone: they need a test, and what they ask of *)
(* it is a status it may have.                                             *)
LEMMA BlankQuiet ==
  ASSUME Blank, UNCHANGED rows, test # NoTest \/ (UNCHANGED req /\ UNCHANGED handedIn),
         \A r \in Requests : At(r, "status")' => req'[r].target \in Statuses
  PROVE  Blank'
  BY DEF Blank, rows, Alone, At, Started

LEMMA SomeTest == ASSUME test.status # "NONE" PROVE test # NoTest
  BY DEF NoTest

LEMMA BusyTest ==
  ASSUME Typed, Blank, NEW r \in Requests, Busy(r)
  PROVE  test # NoTest
  BY DEF Blank, Busy, Alone

LEMMA BlankStep ==
  ASSUME BaselineAssumption, Typed, Blank, [Next]_vars
  PROVE  Blank'
<1> USE DEF ghosts
<1> DEFINE Asked == \A r \in Requests : At(r, "status")' => req'[r].target \in Statuses
<1>1. ASSUME NEW d \in Drafts, NEW c \in Audiences, Create(d, c) PROVE Blank'
  <2>1. test' # NoTest /\ test.status = "NONE" /\ attempt' = attempt /\ req' = req
    BY <1>1 DEF Create, NoTest
  <2> QED BY <2>1 DEF Blank, At, Started
<1>2. ASSUME NEW r \in Requests, NEW d \in Drafts, ReadForUpdate(r, d) PROVE Blank'
  <2>1. /\ req'[r] = [Idle EXCEPT !.pc = "update", !.problems = d]
        /\ \A q \in Requests : q # r => req'[q] = req[q]
    BY <1>2, AfterBegin DEF ReadForUpdate
  <2>2. [Idle EXCEPT !.pc = "update", !.problems = d].pc = "update"
    BY DEF Idle
  <2>3. Asked
    BY <2>1, <2>2 DEF At, Blank
  <2> QED BY <1>2, <2>3, SomeTest, BlankQuiet DEF ReadForUpdate
<1>3. ASSUME NEW r \in Requests, Update(r) PROVE Blank'
  <2>1. test # NoTest
    BY <1>3, BusyTest DEF Update, Busy, At
  <2>2. Asked
    BY <1>3, AfterDone DEF Update, At, Blank
  <2>3. CASE UNCHANGED rows
    BY <2>1, <2>2, <2>3, BlankQuiet
  <2>4. CASE ~ UNCHANGED rows
    <3>1. test'.status = test.status /\ test.status # "NONE"
      BY <1>3, <2>4, AfterUpdate DEF rows
    <3>2. \A s \in Students : LET a == attempt'[s] IN
             /\ a.status = attempt[s].status /\ a.accepted = {}
             /\ a.score = attempt[s].score /\ a.maxScore = attempt[s].maxScore
             /\ a.graded = attempt[s].graded /\ a.review = attempt[s].review
      BY <1>3, <2>4, AfterUpdate DEF rows
    <3>3. \A s \in Students : Started(s)' \/ Empty(attempt'[s])
      BY <3>2 DEF Blank, Started, Empty
    <3>4. test' # NoTest
      BY <3>1 DEF NoTest
    <3> QED BY <2>2, <3>1, <3>3, <3>4 DEF Blank
  <2> QED BY <2>3, <2>4
<1>4. ASSUME NEW r \in Requests, NEW t \in Statuses, ReadForStatus(r, t) PROVE Blank'
  <2>1. /\ req'[r] = [Idle EXCEPT !.pc = "status", !.target = t]
        /\ \A q \in Requests : q # r => req'[q] = req[q]
    BY <1>4, AfterBegin DEF ReadForStatus
  <2>2. [Idle EXCEPT !.pc = "status", !.target = t].target = t
    BY DEF Idle
  <2>3. Asked
    BY <2>1, <2>2 DEF At, Blank
  <2> QED BY <1>4, <2>3, SomeTest, BlankQuiet DEF ReadForStatus
<1>5. ASSUME NEW r \in Requests, WriteStatus(r) PROVE Blank'
  <2>1. test # NoTest
    BY <1>5, BusyTest DEF WriteStatus, Busy, At
  <2>2. Asked
    <3>1. Done(r) \/ Goto(r, "list")
      BY <1>5 DEF WriteStatus
    <3> QED BY <3>1, AfterDone, AfterGoto DEF At, Blank, Pcs
  <2>3. CASE test' = test
    BY <1>5, <2>1, <2>2, <2>3, BlankQuiet DEF WriteStatus, rows
  <2>4. CASE test' # test
    <3>1. test'.status # "NONE" /\ test.status # "NONE"
      BY <1>5, <2>4, AfterStatus DEF Statuses
    <3>2. test' # NoTest
      BY <3>1 DEF NoTest
    <3> QED BY <1>5, <2>2, <3>1, <3>2 DEF WriteStatus, Blank, Started
  <2> QED BY <2>3, <2>4
<1>6. ASSUME NEW r \in Requests, ReadForRemove(r) PROVE Blank'
  <2>1. /\ req'[r] = [Idle EXCEPT !.pc = "remove"]
        /\ \A q \in Requests : q # r => req'[q] = req[q]
    BY <1>6, AfterBegin DEF ReadForRemove
  <2>2. [Idle EXCEPT !.pc = "remove"].pc = "remove"
    BY DEF Idle
  <2>3. Asked
    BY <2>1, <2>2 DEF At, Blank
  <2> QED BY <1>6, <2>3, SomeTest, BlankQuiet DEF ReadForRemove
<1>7. ASSUME NEW r \in Requests, RemoveTest(r) PROVE Blank'
  <2>1. Asked
    BY <1>7, AfterDone DEF RemoveTest, At, Blank
  <2>2. test'.edition # 0 /\ \A s \in Students : attempt'[s].status = "NOT_STARTED" /\ Empty(attempt'[s])
    BY <1>7, AfterRemove
  <2>3. test' # NoTest
    BY <2>2 DEF NoTest
  <2> QED BY <2>1, <2>2, <2>3 DEF Blank, Started
<1>8. ASSUME NEW r \in Requests, NEW s \in Students, ReadForStart(r, s) PROVE Blank'
  <2>1. /\ req'[r] = [Idle EXCEPT !.pc = "start", !.student = s, !.problems = test.problems]
        /\ \A q \in Requests : q # r => req'[q] = req[q]
    BY <1>8, AfterBegin DEF ReadForStart
  <2>2. [Idle EXCEPT !.pc = "start", !.student = s, !.problems = test.problems].pc = "start"
    BY DEF Idle
  <2>3. Asked
    BY <2>1, <2>2 DEF At, Blank
  <2> QED BY <1>8, <2>3, SomeTest, BlankQuiet DEF ReadForStart
<1>9. ASSUME NEW r \in Requests, Start(r) PROVE Blank'
  <2>1. test # NoTest /\ test' = test
    BY <1>9, BusyTest DEF Start, Busy, At
  <2>2. Asked
    BY <1>9, AfterDone DEF Start, At, Blank
  <2>3. CASE attempt' = attempt
    BY <2>1, <2>2, <2>3, BlankQuiet DEF rows
  <2>4. CASE attempt' # attempt
    <3> DEFINE s == req[r].student
    <3>1. s \in Students /\ test.status # "NONE" /\ attempt'[s].status = "IN_PROGRESS"
          /\ \A t \in Students : t # s => attempt'[t] = attempt[t]
      BY <1>9, <2>4, AfterStart
    <3> HIDE DEF s
    <3> QED BY <2>1, <2>2, <3>1 DEF Blank, Started
  <2> QED BY <2>3, <2>4
<1>10. ASSUME NEW r \in Requests, NEW s \in Students, ReadForSubmit(r, s) PROVE Blank'
  <2>1. /\ req'[r] = [Idle EXCEPT !.pc = "grade", !.kind = "submit", !.student = s]
        /\ \A q \in Requests : q # r => req'[q] = req[q]
    BY <1>10, AfterBegin DEF ReadForSubmit
  <2>2. [Idle EXCEPT !.pc = "grade", !.kind = "submit", !.student = s].pc = "grade"
    BY DEF Idle
  <2>3. Asked
    BY <2>1, <2>2 DEF At, Blank
  <2>4. test # NoTest
    <3>1. test.status # "NONE"
      BY <1>10 DEF ReadForSubmit, Blank, Started
    <3> QED BY <3>1, SomeTest
  <2> QED BY <1>10, <2>3, <2>4, BlankQuiet DEF ReadForSubmit
<1>11. ASSUME NEW r \in Requests, MarkSubmitted(r) PROVE Blank'
  <2>1. test # NoTest /\ test' = test
    BY <1>11, BusyTest DEF MarkSubmitted, Busy, At
  <2>2. Asked
    BY <1>11, AfterDone DEF MarkSubmitted, At, Blank
  <2>3. CASE attempt' = attempt
    BY <2>1, <2>2, <2>3, BlankQuiet DEF rows
  <2>4. CASE attempt' # attempt
    <3> DEFINE s == req[r].student
    <3>1. s \in Students /\ Started(s) /\ attempt'[s].status = "SUBMITTED"
          /\ \A t \in Students : t # s => attempt'[t] = attempt[t]
      BY <1>11, <2>4, AfterMark
    <3> HIDE DEF s
    <3> QED BY <2>1, <2>2, <3>1 DEF Blank, Started
  <2> QED BY <2>3, <2>4
<1>12. ASSUME NEW r \in Requests, Regrade(r) PROVE Blank'
  <2>1. /\ req'[r] = [Idle EXCEPT !.pc = "list"]
        /\ \A q \in Requests : q # r => req'[q] = req[q]
    BY <1>12, AfterBegin DEF Regrade
  <2>2. [Idle EXCEPT !.pc = "list"].pc = "list"
    BY DEF Idle
  <2>3. Asked
    BY <2>1, <2>2 DEF At, Blank
  <2> QED BY <1>12, <2>3, SomeTest, BlankQuiet DEF Regrade
<1>13. ASSUME NEW r \in Requests, ListAttempts(r) PROVE Blank'
  <2>1. Asked
    BY <1>13, AfterListing DEF At, Blank
  <2> QED BY <1>13, <2>1, BusyTest, BlankQuiet DEF ListAttempts, Busy, At
<1>14. ASSUME NEW r \in Requests, NextAttempt(r) PROVE Blank'
  <2>1. Asked
    BY <1>14, AfterNext, AfterDone DEF At, Blank
  <2> QED BY <1>14, <2>1, BusyTest, BlankQuiet DEF NextAttempt, Busy, At
<1>15. ASSUME NEW r \in Requests, ReadForGrade(r) PROVE Blank'
  <2>1. Asked
    <3>1. AfterGrade(r) => Goto(r, "mark") \/ Goto(r, "next")
      BY DEF AfterGrade
    <3> QED BY <1>15, <3>1, AfterReading, AfterGoto DEF At, Blank, Pcs
  <2> QED BY <1>15, <2>1, BusyTest, BlankQuiet DEF ReadForGrade, Busy, At
<1>16. ASSUME NEW r \in Requests, WriteGrade(r) PROVE Blank'
  <2>1. test # NoTest /\ test' = test
    BY <1>16, BusyTest DEF WriteGrade, Busy, At
  <2>2. Asked
    <3>1. Done(r) \/ Goto(r, "mark") \/ Goto(r, "next")
      BY <1>16 DEF WriteGrade, AfterGrade
    <3> QED BY <3>1, AfterDone, AfterGoto DEF At, Blank, Pcs
  <2>3. CASE attempt' = attempt
    BY <2>1, <2>2, <2>3, BlankQuiet DEF rows
  <2>4. CASE attempt' # attempt
    <3> DEFINE s == req[r].student
    <3>1. s \in Students /\ Started(s) /\ attempt'[s].status = attempt[s].status
          /\ \A t \in Students : t # s => attempt'[t] = attempt[t]
      BY <1>16, <2>4, AfterWrite
    <3> HIDE DEF s
    <3> QED BY <2>1, <2>2, <3>1 DEF Blank, Started
  <2> QED BY <2>3, <2>4
<1>17. ASSUME NEW r \in Requests, GradeConflict(r) \/ Crash(r) PROVE Blank'
  <2>1. Busy(r) /\ Done(r) /\ UNCHANGED rows
    BY <1>17 DEF GradeConflict, Crash, Busy, At
  <2>2. Asked
    BY <2>1, AfterDone DEF At, Blank
  <2> QED BY <2>1, <2>2, BusyTest, BlankQuiet
<1>18. ASSUME NEW s \in Students, NEW c \in {"NOT_REVIEWED", "REVIEWED"}, Review(s, c)
       PROVE  Blank'
  <2>1. test' = test /\ req' = req /\ handedIn' = handedIn /\ Started(s)
    BY <1>18 DEF Review
  <2>2. attempt'[s].status = attempt[s].status
        /\ \A t \in Students : t # s => attempt'[t] = attempt[t]
    BY <1>18, AfterReview
  <2> QED BY <2>1, <2>2 DEF Blank, Started, Alone, At
<1>19. ASSUME UNCHANGED <<rows, req, handedIn>> PROVE Blank'
  BY <1>19, BlankQuiet DEF Blank, At
<1>20. ASSUME NEW x \in Submissions[env], Sync(x) PROVE Blank'
  BY <1>19, <1>20 DEF Sync
<1>21. ASSUME NEW s \in Students, ForgetSync(s) PROVE Blank'
  BY <1>19, <1>21 DEF ForgetSync
<1>22. ASSUME UNCHANGED vars PROVE Blank'
  BY <1>19, <1>22 DEF vars, rows
<1> QED BY <1>1, <1>2, <1>3, <1>4, <1>5, <1>6, <1>7, <1>8, <1>9, <1>10, <1>11, <1>12, <1>13,
           <1>14, <1>15, <1>16, <1>17, <1>18, <1>20, <1>21, <1>22 DEF Next, Step

-----------------------------------------------------------------------------
(* The steps of a request, and those of nobody's. *)
RequestStep(r) ==
    \/ Step(r) \/ Crash(r) \/ Regrade(r) \/ ReadForRemove(r)
    \/ \E d \in Drafts : ReadForUpdate(r, d)
    \/ \E target \in Statuses : ReadForStatus(r, target)
    \/ \E s \in Students : ReadForStart(r, s) \/ ReadForSubmit(r, s)

LEMMA Steps ==
  ASSUME [Next]_vars
  PROVE  /\ env' = env
         /\ \/ UNCHANGED <<rows, req, ghosts>> /\ mirror \subseteq mirror'
            \/ \E d \in Drafts, c \in Audiences : Create(d, c)
            \/ \E s \in Students, c \in {"NOT_REVIEWED", "REVIEWED"} : Review(s, c)
            \/ \E r \in Requests : RequestStep(r)
<1>1. CASE UNCHANGED vars
  BY <1>1 DEF vars, rows, ghosts
<1>2. CASE Next
  <2>1. ASSUME NEW x \in Submissions[env], Sync(x)
        PROVE  UNCHANGED <<rows, req, ghosts>> /\ mirror \subseteq mirror'
    BY <2>1 DEF Sync
  <2>2. ASSUME NEW s \in Students, ForgetSync(s)
        PROVE  UNCHANGED <<rows, req, ghosts>> /\ mirror \subseteq mirror'
    BY <2>2 DEF ForgetSync
  <2> QED BY <1>2, <2>1, <2>2 DEF Next, RequestStep
<1> QED BY <1>1, <1>2

(* Where a step may take a request, and from where. *)
Came(r) ==
    /\ At(r, "start")' => \E s \in Students : ReadForStart(r, s) /\ req'[r].problems = test.problems
    /\ At(r, "write")' =>
          LET s == req[r].student IN
          /\ ReadForGrade(r) /\ s \in Students /\ Started(s) /\ At(r, "grade")
          /\ req'[r].student = s /\ req'[r].kind = req[r].kind
          /\ req'[r].problems = test.problems /\ req'[r].edition = test.edition
          /\ req'[r].evidence = mirror /\ req'[r].review = attempt[s].review
          /\ req'[r].queue = req[r].queue
    /\ At(r, "update")' => "edits" \in env /\ test.status = "DRAFT" /\ At(r, "idle")
    /\ At(r, "remove")' => "edits" \in env /\ At(r, "idle")
    /\ At(r, "status")' =>
          /\ req'[r].target = "DRAFT" => "redraft" \in env
          /\ At(r, "idle") /\ req'[r].kind = "none"
    /\ At(r, "mark")' =>
          /\ (ReadForGrade(r) /\ ~ Started(req[r].student)) \/ (WriteGrade(r) /\ Started(req[r].student))
          /\ AfterGrade(r) /\ req'[r].kind = "submit" /\ req'[r].kind = req[r].kind
          /\ req'[r].student = req[r].student
    /\ At(r, "next")' =>
          \/ ListAttempts(r) /\ req'[r].kind = req[r].kind
          \/ /\ (ReadForGrade(r) /\ ~ Started(req[r].student)) \/ (WriteGrade(r) /\ Started(req[r].student))
             /\ AfterGrade(r) /\ req[r].kind # "submit" /\ req'[r].kind = req[r].kind
             /\ req'[r].student = req[r].student /\ req'[r].queue = req[r].queue
    /\ At(r, "grade")' =>
          \/ /\ At(r, "idle") /\ req'[r].kind = "submit" /\ req'[r].student \in Students
             /\ ReadForSubmit(r, req'[r].student)
          \/ /\ NextAttempt(r) /\ req'[r].kind = req[r].kind
             /\ req'[r].student \in req[r].queue
             /\ req'[r].queue = req[r].queue \ {req'[r].student}
    /\ At(r, "list")' =>
          \/ Regrade(r) /\ req'[r].kind = "none"
          \/ WriteStatus(r) /\ req'[r].kind = req[r].kind /\ test'.status = "CLOSED"
    /\ At(r, "idle")' => Busy(r)

Moved(r) ==
    /\ \A q \in Requests : q # r => req'[q] = req[q]
    /\ Busy(r) \/ (UNCHANGED rows /\ (Sequential => Alone))
    /\ req'[r].pc \in Pcs

LEMMA GradeMoves ==
  ASSUME Typed, NEW r \in Requests, AfterGrade(r)
  PROVE  /\ \A q \in Requests : q # r => req'[q] = req[q]
         /\ req'[r].kind = req[r].kind /\ req'[r].student = req[r].student
         /\ req'[r].queue = req[r].queue
         /\ req'[r].pc = IF req[r].kind = "submit" THEN "mark" ELSE "next"
<1>1. "mark" \in Pcs /\ "next" \in Pcs
  BY DEF Pcs
<1>2. CASE req[r].kind = "submit"
  <2>1. Goto(r, "mark")
    BY <1>2 DEF AfterGrade
  <2> QED BY <1>1, <1>2, <2>1, AfterGoto
<1>3. CASE req[r].kind # "submit"
  <2>1. Goto(r, "next")
    BY <1>3 DEF AfterGrade
  <2> QED BY <1>1, <1>3, <2>1, AfterGoto
<1> QED BY <1>2, <1>3

LEMMA Moves ==
  ASSUME BaselineAssumption, Typed, Blank, NEW r \in Requests, RequestStep(r)
  PROVE  Moved(r) /\ Came(r)
<1>1. ASSUME Done(r), Busy(r) PROVE Moved(r) /\ Came(r)
  BY <1>1, AfterDone DEF Moved, Came, At, Pcs
<1>2. ASSUME NEW d \in Drafts, ReadForUpdate(r, d) PROVE Moved(r) /\ Came(r)
  <2>1. /\ req'[r] = [Idle EXCEPT !.pc = "update", !.problems = d] /\ At(r, "idle")
        /\ \A q \in Requests : q # r => req'[q] = req[q]
        /\ Sequential => Alone
    BY <1>2, AfterBegin DEF ReadForUpdate
  <2>2. [Idle EXCEPT !.pc = "update", !.problems = d].pc = "update"
    BY DEF Idle
  <2> QED BY <1>2, <2>1, <2>2 DEF Moved, Came, At, ReadForUpdate, Pcs
<1>3. ASSUME NEW t \in Statuses, ReadForStatus(r, t) PROVE Moved(r) /\ Came(r)
  <2>1. /\ req'[r] = [Idle EXCEPT !.pc = "status", !.target = t] /\ At(r, "idle")
        /\ \A q \in Requests : q # r => req'[q] = req[q]
        /\ Sequential => Alone
    BY <1>3, AfterBegin DEF ReadForStatus
  <2>2. LET x == [Idle EXCEPT !.pc = "status", !.target = t] IN
           x.pc = "status" /\ x.target = t /\ x.kind = "none"
    BY DEF Idle
  <2> QED BY <1>3, <2>1, <2>2 DEF Moved, Came, At, ReadForStatus, Pcs
<1>4. ASSUME ReadForRemove(r) PROVE Moved(r) /\ Came(r)
  <2>1. /\ req'[r] = [Idle EXCEPT !.pc = "remove"] /\ At(r, "idle")
        /\ \A q \in Requests : q # r => req'[q] = req[q]
        /\ Sequential => Alone
    BY <1>4, AfterBegin DEF ReadForRemove
  <2>2. [Idle EXCEPT !.pc = "remove"].pc = "remove"
    BY DEF Idle
  <2> QED BY <1>4, <2>1, <2>2 DEF Moved, Came, At, ReadForRemove, Pcs
<1>5. ASSUME NEW s \in Students, ReadForStart(r, s) PROVE Moved(r) /\ Came(r)
  <2> DEFINE x(p) == [Idle EXCEPT !.pc = "start", !.student = s, !.problems = p]
  <2>1. /\ req'[r] = x(test.problems) /\ At(r, "idle")
        /\ \A q \in Requests : q # r => req'[q] = req[q]
        /\ Sequential => Alone
    BY <1>5, AfterBegin DEF ReadForStart
  <2>2. \A p : x(p).pc = "start" /\ x(p).problems = p
    BY DEF Idle
  <2> HIDE DEF x
  <2>3. req'[r].pc = "start" /\ req'[r].problems = test.problems
    BY <2>1, <2>2
  <2> QED BY <1>5, <2>1, <2>3 DEF Moved, Came, At, ReadForStart, Pcs
<1>6. ASSUME NEW s \in Students, ReadForSubmit(r, s) PROVE Moved(r) /\ Came(r)
  <2> DEFINE x == [Idle EXCEPT !.pc = "grade", !.kind = "submit", !.student = s]
  <2>1. /\ req'[r] = x /\ At(r, "idle")
        /\ \A q \in Requests : q # r => req'[q] = req[q]
        /\ Sequential => Alone
    BY <1>6, AfterBegin DEF ReadForSubmit
  <2>2. x.pc = "grade" /\ x.kind = "submit" /\ x.student = s
    BY DEF Idle
  <2> HIDE DEF x
  <2>3. UNCHANGED rows
    BY <1>6 DEF ReadForSubmit
  <2> QED BY <1>6, <2>1, <2>2, <2>3 DEF Moved, Came, At, Pcs
<1>7. ASSUME Regrade(r) PROVE Moved(r) /\ Came(r)
  <2> DEFINE x == [Idle EXCEPT !.pc = "list"]
  <2>1. /\ req'[r] = x /\ At(r, "idle")
        /\ \A q \in Requests : q # r => req'[q] = req[q]
        /\ Sequential => Alone
    BY <1>7, AfterBegin DEF Regrade
  <2>2. x.pc = "list" /\ x.kind = "none"
    BY DEF Idle
  <2> HIDE DEF x
  <2>3. UNCHANGED rows
    BY <1>7 DEF Regrade
  <2> QED BY <1>7, <2>1, <2>2, <2>3 DEF Moved, Came, At, Pcs
<1>8. ASSUME WriteStatus(r) PROVE Moved(r) /\ Came(r)
  <2>1. Busy(r)
    BY <1>8 DEF WriteStatus, Busy, At
  <2>2. CASE Done(r)
    BY <1>1, <2>1, <2>2
  <2>3. CASE ~ Done(r)
    <3>1. Goto(r, "list") /\ test'.status = "CLOSED"
      BY <1>8, <2>3, AfterStatus
    <3>2. req'[r].pc = "list" /\ req'[r].kind = req[r].kind
          /\ \A q \in Requests : q # r => req'[q] = req[q]
      BY <3>1, AfterGoto DEF Pcs
    <3> QED BY <1>8, <2>1, <3>1, <3>2 DEF Moved, Came, At, Pcs
  <2> QED BY <2>2, <2>3
<1>9. ASSUME ListAttempts(r) PROVE Moved(r) /\ Came(r)
  <2>1. Busy(r)
    BY <1>9 DEF ListAttempts, Busy, At
  <2> QED BY <1>9, <2>1, AfterListing DEF Moved, Came, At, Pcs
<1>10. ASSUME NextAttempt(r) PROVE Moved(r) /\ Came(r)
  <2>1. Busy(r)
    BY <1>10 DEF NextAttempt, Busy, At
  <2>2. CASE Done(r)
    BY <1>1, <2>1, <2>2
  <2>3. CASE ~ Done(r)
    BY <1>10, <2>1, <2>3, AfterNext DEF Moved, Came, At, Pcs
  <2> QED BY <2>2, <2>3
<1>11. ASSUME ReadForGrade(r) PROVE Moved(r) /\ Came(r)
  <2>1. Busy(r) /\ At(r, "grade")
    BY <1>11 DEF ReadForGrade, Busy, At
  <2>2. CASE ~ Started(req[r].student)
    <3>1. AfterGrade(r)
      BY <1>11, <2>2, AfterReading
    <3> QED BY <1>11, <2>1, <2>2, <3>1, GradeMoves DEF Moved, Came, At, Pcs
  <2>3. CASE Started(req[r].student)
    BY <1>11, <2>1, <2>3, AfterReading DEF Moved, Came, At, Pcs
  <2> QED BY <2>2, <2>3
<1>12. ASSUME WriteGrade(r) PROVE Moved(r) /\ Came(r)
  <2>1. Busy(r)
    BY <1>12 DEF WriteGrade, Busy, At
  <2>2. CASE Done(r)
    BY <1>1, <2>1, <2>2
  <2>3. CASE ~ Done(r)
    <3>1. Started(req[r].student) /\ AfterGrade(r)
      BY <1>12, <2>3, AfterWrite
    <3> QED BY <1>12, <2>1, <3>1, GradeMoves DEF Moved, Came, At, Pcs
  <2> QED BY <2>2, <2>3
<1>13. ASSUME Update(r) \/ RemoveTest(r) \/ Start(r) \/ MarkSubmitted(r) \/ GradeConflict(r) \/ Crash(r)
       PROVE  Moved(r) /\ Came(r)
  <2>1. Busy(r) /\ Done(r)
    BY <1>13 DEF Update, RemoveTest, Start, MarkSubmitted, GradeConflict, Crash, Busy, At
  <2> QED BY <1>1, <2>1
<1> QED BY <1>2, <1>3, <1>4, <1>5, <1>6, <1>7, <1>8, <1>9, <1>10, <1>11, <1>12, <1>13
        DEF RequestStep, Step

LEMMA RowsChange ==
  ASSUME NEW r, RequestStep(r)
  PROVE  \/ UNCHANGED <<rows, verdict>>
         \/ Update(r) \/ WriteStatus(r) \/ RemoveTest(r) \/ Start(r) \/ MarkSubmitted(r) \/ WriteGrade(r)
  BY DEF RequestStep, Step, ghosts, ListAttempts, NextAttempt, ReadForGrade, GradeConflict, Crash,
         Regrade, ReadForRemove, ReadForUpdate, ReadForStatus, ReadForStart, ReadForSubmit

-----------------------------------------------------------------------------
(* Without overlap one request is under way, what it has read of the test  *)
(* and of its attempt holds, and a mentor's verdict stands.                *)
Solo ==
    Sequential =>
        /\ \A r, q \in Requests : Busy(r) /\ Busy(q) => r = q
        /\ \A r \in Requests :
              /\ At(r, "start") => test.status = "ACTIVE"
              /\ At(r, "write") => /\ Started(req[r].student)
                                   /\ req[r].review = attempt[req[r].student].review
Reviewed ==
    Sequential =>
        \A s \in Students : verdict[s] = "REVIEWED" => attempt[s].review = "REVIEWED"

LEMMA SoloInit == ASSUME BaselineAssumption, Init PROVE Solo /\ Reviewed
<1>1. Idle.pc = "idle"
  BY IdlePc
<1> HIDE DEF Idle
<1> QED BY <1>1 DEF Init, Solo, Reviewed, Busy, At

(* A step of one request leaves the others idle. *)
LEMMA OthersIdle ==
  ASSUME Solo, Sequential, NEW r \in Requests, Moved(r)
  PROVE  \A q \in Requests : q # r => At(q, "idle") /\ At(q, "idle")'
<1> SUFFICES ASSUME NEW q \in Requests, q # r PROVE At(q, "idle") /\ At(q, "idle")'
  OBVIOUS
<1>1. req'[q] = req[q]
  BY DEF Moved
<1>2. At(q, "idle")
  BY DEF Moved, Solo, Busy, Alone
<1> QED BY <1>1, <1>2 DEF At

LEMMA SoloStep ==
  ASSUME BaselineAssumption, Typed, Blank, Solo, [Next]_vars
  PROVE  Solo'
<1> SUFFICES ASSUME Sequential PROVE Solo'
  BY Steps DEF Solo, Sequential
<1>1. ASSUME UNCHANGED <<rows, req, ghosts>> PROVE Solo'
  BY <1>1 DEF rows, Solo, Busy, At, Started, Sequential
<1>2. ASSUME NEW d \in Drafts, NEW c \in Audiences, Create(d, c) PROVE Solo'
  <2>1. Alone /\ req' = req
    BY <1>2 DEF Create, Blank
  <2> QED BY <2>1 DEF Solo, Busy, At, Alone
<1>3. ASSUME NEW s \in Students, NEW c \in {"NOT_REVIEWED", "REVIEWED"}, Review(s, c) PROVE Solo'
  <2>1. Alone /\ req' = req
    BY <1>3, AfterReview DEF Review
  <2> QED BY <2>1 DEF Solo, Busy, At, Alone
<1>4. ASSUME NEW r \in Requests, RequestStep(r) PROVE Solo'
  <2>1. Moved(r) /\ Came(r)
    BY <1>4, Moves
  <2>2. \A q \in Requests : q # r => At(q, "idle")'
    BY <2>1, OthersIdle
  <2>3. At(r, "start")' => test'.status = "ACTIVE"
    BY <2>1 DEF Came, ReadForStart, rows
  <2>4. At(r, "write")' => /\ attempt'[req'[r].student].status # "NOT_STARTED"
                           /\ req'[r].review = attempt'[req'[r].student].review
    BY <2>1 DEF Came, ReadForGrade, rows, Started
  <2> QED BY <2>2, <2>3, <2>4 DEF Solo, Busy, At, Sequential, Started
<1> QED BY <1>1, <1>2, <1>3, <1>4, Steps

LEMMA ReviewedStep ==
  ASSUME BaselineAssumption, Typed, Blank, Solo, Reviewed, [Next]_vars
  PROVE  Reviewed'
<1> SUFFICES ASSUME Sequential PROVE Reviewed'
  BY Steps DEF Reviewed, Sequential
<1>1. ASSUME UNCHANGED <<attempt, verdict>> PROVE Reviewed'
  BY <1>1 DEF Reviewed
<1>2. ASSUME NEW d \in Drafts, NEW c \in Audiences, Create(d, c) PROVE Reviewed'
  BY <1>1, <1>2 DEF Create, ghosts
<1>3. ASSUME NEW s \in Students, NEW c \in {"NOT_REVIEWED", "REVIEWED"}, Review(s, c) PROVE Reviewed'
  BY <1>3, AfterReview DEF Reviewed
<1>4. ASSUME NEW r \in Requests, RequestStep(r) PROVE Reviewed'
  <2>1. CASE UNCHANGED <<rows, verdict>>
    BY <1>1, <2>1 DEF rows
  <2>2. CASE Update(r)
    <3>1. verdict' = verdict
      BY <2>2 DEF Update, ghosts
    <3>2. attempt' = attempt \/ \A s \in Students : attempt'[s].review = attempt[s].review
      BY <2>2, AfterUpdate
    <3> QED BY <3>1, <3>2 DEF Reviewed
  <2>3. CASE WriteStatus(r)
    BY <1>1, <2>3 DEF WriteStatus
  <2>4. CASE RemoveTest(r)
    BY <2>4, AfterRemove DEF Reviewed
  <2>5. CASE Start(r)
    <3> DEFINE s == req[r].student
    <3>1. verdict' = verdict
      BY <2>5 DEF Start, ghosts
    <3>2. CASE attempt' = attempt
      BY <1>1, <3>1, <3>2
    <3>3. CASE attempt' # attempt
      <4>1. s \in Students /\ ~ Started(s) /\ \A t \in Students : t # s => attempt'[t] = attempt[t]
        BY <2>5, <3>3, AfterStart
      <4> HIDE DEF s
      <4>2. attempt[s].review = "NOT_REVIEWED"
        BY <4>1 DEF Blank, Empty
      <4> QED BY <3>1, <4>1, <4>2 DEF Reviewed
    <3> QED BY <3>2, <3>3
  <2>6. CASE MarkSubmitted(r)
    <3> DEFINE s == req[r].student
    <3>1. verdict' = verdict
      BY <2>6 DEF MarkSubmitted, ghosts
    <3>2. CASE attempt' = attempt
      BY <1>1, <3>1, <3>2
    <3>3. CASE attempt' # attempt
      <4>1. s \in Students /\ attempt'[s].review = attempt[s].review
            /\ \A t \in Students : t # s => attempt'[t] = attempt[t]
        BY <2>6, <3>3, AfterMark
      <4> HIDE DEF s
      <4> QED BY <3>1, <4>1 DEF Reviewed
    <3> QED BY <3>2, <3>3
  <2>7. CASE WriteGrade(r)
    <3> DEFINE s == req[r].student
    <3>1. verdict' = verdict /\ At(r, "write")
      BY <2>7 DEF WriteGrade, ghosts
    <3>2. CASE attempt' = attempt
      BY <1>1, <3>1, <3>2
    <3>3. CASE attempt' # attempt
      <4>1. s \in Students /\ \A t \in Students : t # s => attempt'[t] = attempt[t]
        BY <2>7, <3>3, AfterWrite
      <4>2. attempt'[s].review = attempt[s].review \/ req[r].review = "NOT_REVIEWED"
        BY <2>7, <3>3, AfterWrite
      <4>3. req[r].review = attempt[s].review
        BY <3>1 DEF Solo
      <4> HIDE DEF s
      <4> QED BY <3>1, <4>1, <4>2, <4>3 DEF Reviewed
    <3> QED BY <3>2, <3>3
  <2> QED BY <1>4, <2>1, <2>2, <2>3, <2>4, <2>5, <2>6, <2>7, RowsChange
<1> QED BY <1>1, <1>2, <1>3, <1>4, Steps DEF rows, ghosts

-----------------------------------------------------------------------------
(* A draft has no attempts unless it was set back, and what a pending      *)
(* start or grading has read of the test stays so.                         *)
Open == test.status \notin {"NONE", "DRAFT"}
Settled ==
    Steady =>
        /\ Open \/ \A s \in Students : ~ Started(s)
        /\ \A r \in Requests :
              /\ At(r, "start") => Open /\ req[r].problems = test.problems
              /\ At(r, "write") => /\ Open /\ req[r].problems = test.problems
                                   /\ req[r].edition = test.edition
              /\ At(r, "update") => "edits" \in env /\ test.status = "DRAFT"
              /\ At(r, "remove") => "edits" \in env
              /\ At(r, "status") => req[r].target # "DRAFT"

(* The score of an attempt is what its result rows add up to, and what it  *)
(* is out of are the points of the test's problems.                        *)
Scores ==
    Steady =>
        \A s \in Students :
            /\ attempt[s].accepted \subseteq test.problems
            /\ attempt[s].score = Worth(attempt[s].accepted)
            /\ attempt[s].score <= attempt[s].maxScore
            /\ Started(s) => attempt[s].maxScore = Worth(test.problems)

LEMMA EmptyScores ==
  ASSUME NEW a, Empty(a)
  PROVE  a.accepted = {} /\ a.score = Worth(a.accepted) /\ a.score <= a.maxScore
  BY SumEmpty DEF Empty, Worth

LEMMA SettledInit == ASSUME BaselineAssumption, Init PROVE Settled /\ Scores
<1>1. Idle.pc = "idle"
  BY IdlePc
<1>2. NoAttempt.status = "NOT_STARTED" /\ Empty(NoAttempt)
  BY DEF NoAttempt, Empty
<1>3. \A s \in Students : attempt[s] = NoAttempt /\ ~ Started(s)
  BY <1>2 DEF Init, Started
<1> HIDE DEF Idle, NoAttempt
<1> QED BY <1>1, <1>2, <1>3, EmptyScores DEF Init, Settled, Scores, At

LEMMA SettledStep ==
  ASSUME BaselineAssumption, Typed, Blank, Solo, Settled, [Next]_vars
  PROVE  Settled'
<1> SUFFICES ASSUME Steady PROVE Settled'
  BY Steps DEF Settled, Steady
<1>1. ASSUME UNCHANGED <<rows, req, ghosts>> PROVE Settled'
  BY <1>1, Steps DEF rows, Settled, Open, At, Started
<1>2. ASSUME NEW d \in Drafts, NEW c \in Audiences, Create(d, c) PROVE Settled'
  <2>1. Alone /\ req' = req /\ attempt' = attempt /\ test.status = "NONE"
    BY <1>2 DEF Create, Blank, NoTest
  <2>2. \A s \in Students : ~ Started(s)'
    BY <2>1 DEF Blank, Started
  <2> QED BY <2>1, <2>2 DEF Settled, At, Alone
<1>3. ASSUME NEW s \in Students, NEW c \in {"NOT_REVIEWED", "REVIEWED"}, Review(s, c) PROVE Settled'
  <2>1. test' = test /\ req' = req
    BY <1>3 DEF Review
  <2>2. \A t \in Students : attempt'[t].status = attempt[t].status
    BY <1>3, AfterReview
  <2> QED BY <2>1, <2>2, Steps DEF Settled, Open, At, Started
<1>4. ASSUME NEW r \in Requests, RequestStep(r) PROVE Settled'
  <2>1. Moved(r) /\ Came(r) /\ env' = env
    BY <1>4, Moves, Steps
  <2>2. "edits" \in env => \A q \in Requests : q # r => At(q, "idle")'
    <3>1. "edits" \in env => Sequential
      BY DEF Steady, Sequential
    <3> QED BY <2>1, <3>1, OthersIdle
  (* It is enough that the test keeps its problems while it is open, and   *)
  (* that no attempt comes to a test that is not.                          *)
  <2> DEFINE Kept == /\ Open => Open' /\ test'.problems = test.problems
                                      /\ test'.edition = test.edition
                     /\ Open' \/ \A s \in Students : ~ Started(s)'
                     /\ test'.status = test.status \/ At(r, "status") \/ At(r, "remove")
  <2>3. ASSUME Kept PROVE Settled'
    <3>1. \A q \in Requests : q # r => req'[q] = req[q]
      BY <2>1 DEF Moved
    <3>2. ASSUME NEW q \in Requests, q # r
          PROVE  /\ At(q, "start")' => Open' /\ req'[q].problems = test'.problems
                 /\ At(q, "write")' => /\ Open' /\ req'[q].problems = test'.problems
                                       /\ req'[q].edition = test'.edition
                 /\ At(q, "update")' => "edits" \in env /\ test'.status = "DRAFT"
                 /\ At(q, "remove")' => "edits" \in env
                 /\ At(q, "status")' => req'[q].target # "DRAFT"
      <4>1. At(q, "update")' => At(q, "update")
        BY <3>1, <3>2 DEF At
      <4>2. ~ At(q, "update")'
        BY <2>2, <3>2, <4>1 DEF Settled, At
      <4> QED BY <2>3, <3>1, <3>2, <4>2 DEF Settled, At
    <3>3. At(r, "start")' => Open' /\ req'[r].problems = test'.problems
      <4>1. ASSUME NEW s \in Students, ReadForStart(r, s), req'[r].problems = test.problems
            PROVE  Open' /\ req'[r].problems = test'.problems
        BY <4>1, <2>3 DEF ReadForStart, Open
      <4> QED BY <2>1, <4>1 DEF Came
    <3>4. At(r, "write")' => /\ Open' /\ req'[r].problems = test'.problems
                             /\ req'[r].edition = test'.edition
      BY <2>1, <2>3 DEF Came, Settled
    <3>5. At(r, "update")' => "edits" \in env /\ test'.status = "DRAFT"
      BY <2>1, <2>3 DEF Came, At
    <3>6. At(r, "remove")' => "edits" \in env
      BY <2>1 DEF Came
    <3>7. At(r, "status")' => req'[r].target # "DRAFT"
      BY <2>1 DEF Came, Steady
    <3> HIDE DEF Kept
    <3>8. Open' \/ \A s \in Students : ~ Started(s)'
      BY <2>3 DEF Kept
    <3> QED BY <2>1, <3>2, <3>3, <3>4, <3>5, <3>6, <3>7, <3>8 DEF Settled
  <2>4. CASE UNCHANGED <<rows, verdict>>
    BY <2>3, <2>4 DEF rows, Open, Settled, Started
  <2>5. CASE Update(r)
    <3>1. ~ Open
      BY <2>5 DEF Update, Settled, Open
    <3>2. test'.status = test.status
      BY <2>5, AfterUpdate
    <3>3. \A s \in Students : attempt'[s].status = attempt[s].status
      BY <2>5, AfterUpdate
    <3> QED BY <2>3, <3>1, <3>2, <3>3 DEF Settled, Open, Started
  <2>6. CASE WriteStatus(r)
    <3>1. At(r, "status") /\ attempt' = attempt
      BY <2>6 DEF WriteStatus
    <3>2. test' = test \/ (Open' /\ test'.problems = test.problems /\ test'.edition = test.edition)
      BY <2>6, <3>1, AfterStatus DEF Settled, Open, Statuses
    <3> QED BY <2>3, <3>1, <3>2 DEF Settled, Open, Started
  <2>7. CASE RemoveTest(r)
    <3>1. At(r, "remove") /\ "edits" \in env
      BY <2>7 DEF RemoveTest, Settled
    <3>2. \A s \in Students : ~ Started(s)'
      BY <2>7, AfterRemove DEF Started
    <3>3. At(r, "idle")'
      BY <2>7, AfterDone DEF RemoveTest, At
    <3>4. \A q \in Requests : At(q, "idle")'
      BY <2>2, <3>1, <3>3
    <3> QED BY <3>2, <3>4 DEF Settled, At
  <2>8. CASE Start(r)
    <3>1. Open /\ test' = test
      BY <2>8 DEF Start, Settled
    <3> QED BY <2>3, <3>1 DEF Open
  <2>9. CASE MarkSubmitted(r)
    <3>1. test' = test
      BY <2>9 DEF MarkSubmitted
    <3>2. \A s \in Students : ~ Started(s) => ~ Started(s)'
      BY <2>9, AfterMark DEF Started
    <3> QED BY <2>3, <3>1, <3>2 DEF Settled, Open
  <2>10. CASE WriteGrade(r)
    <3>1. Open /\ test' = test
      BY <2>10 DEF WriteGrade, Settled
    <3> QED BY <2>3, <3>1 DEF Open
  <2> QED BY <1>4, <2>4, <2>5, <2>6, <2>7, <2>8, <2>9, <2>10, RowsChange
<1> QED BY <1>1, <1>2, <1>3, <1>4, Steps

LEMMA ScoresStep ==
  ASSUME BaselineAssumption, Typed, Blank, Settled, Scores, [Next]_vars
  PROVE  Scores'
<1> SUFFICES ASSUME Steady PROVE Scores'
  BY Steps DEF Scores, Steady
<1> DEFINE Counted(s) == /\ attempt'[s].accepted \subseteq test'.problems
                         /\ attempt'[s].score = Worth(attempt'[s].accepted)
                         /\ attempt'[s].score <= attempt'[s].maxScore
                         /\ Started(s)' => attempt'[s].maxScore = Worth(test'.problems)
<1>0. ASSUME \A s \in Students : Counted(s) PROVE Scores'
  BY <1>0 DEF Scores
<1>1. ASSUME UNCHANGED rows PROVE Scores'
  BY <1>1 DEF Scores, rows, Started
<1>2. ASSUME attempt' = attempt, ~ Open PROVE Scores'
  <2>1. \A s \in Students : ~ Started(s)' /\ Empty(attempt'[s])
    BY <1>2 DEF Settled, Blank, Started
  <2> QED BY <1>0, <2>1, EmptyScores
<1>3. ASSUME NEW d \in Drafts, NEW c \in Audiences, Create(d, c) PROVE Scores'
  BY <1>2, <1>3 DEF Create, NoTest, Open
<1>4. ASSUME NEW s \in Students, NEW c \in {"NOT_REVIEWED", "REVIEWED"}, Review(s, c) PROVE Scores'
  <2>1. test' = test
    BY <1>4 DEF Review
  <2>2. \A t \in Students :
           /\ attempt'[t].accepted = attempt[t].accepted /\ attempt'[t].score = attempt[t].score
           /\ attempt'[t].maxScore = attempt[t].maxScore /\ attempt'[t].status = attempt[t].status
    BY <1>4, AfterReview
  <2> QED BY <1>0, <2>1, <2>2 DEF Scores, Started
<1>5. ASSUME NEW r \in Requests, RequestStep(r) PROVE Scores'
  <2>1. CASE UNCHANGED <<rows, verdict>>
    BY <1>1, <2>1
  <2>2. CASE Update(r)
    <3>1. ~ Open
      BY <2>2 DEF Update, Settled, Open
    <3>2. CASE attempt' = attempt
      BY <1>2, <3>1, <3>2
    <3>3. CASE attempt' # attempt
      <4>1. \A s \in Students : LET a == attempt'[s] IN
               /\ a.status = attempt[s].status /\ a.accepted = {}
               /\ a.score = attempt[s].score /\ a.maxScore = attempt[s].maxScore
               /\ a.graded = attempt[s].graded /\ a.review = attempt[s].review
        BY <2>2, <3>3, AfterUpdate
      <4>2. \A s \in Students : ~ Started(s)' /\ Empty(attempt'[s])
        BY <3>1, <4>1 DEF Settled, Blank, Started, Empty
      <4> QED BY <1>0, <4>2, EmptyScores
    <3> QED BY <3>2, <3>3
  <2>3. CASE WriteStatus(r)
    <3>1. attempt' = attempt /\ test'.problems = test.problems
      BY <2>3, AfterStatus DEF WriteStatus
    <3> QED BY <3>1 DEF Scores, Started
  <2>4. CASE RemoveTest(r)
    <3>1. \A s \in Students : ~ Started(s)' /\ Empty(attempt'[s])
      BY <2>4, AfterRemove DEF Started
    <3> QED BY <1>0, <3>1, EmptyScores
  <2>5. CASE Start(r)
    <3> DEFINE s == req[r].student
    <3>1. test' = test /\ req[r].problems = test.problems /\ test.problems \in AnyProblems
      BY <2>5 DEF Start, Settled, Typed, Tests
    <3>2. CASE attempt' = attempt
      BY <1>1, <3>1, <3>2 DEF rows
    <3>3. CASE attempt' # attempt
      <4>1. /\ s \in Students /\ attempt'[s].maxScore = Worth(test.problems)
            /\ attempt'[s].score = 0 /\ attempt'[s].accepted = {}
            /\ \A t \in Students : t # s => attempt'[t] = attempt[t]
        BY <2>5, <3>1, <3>3, AfterStart
      <4>2. Worth({}) = 0 /\ 0 <= Worth(test.problems)
        BY <3>1, ScoreBounds, SumEmpty DEF Worth
      <4> HIDE DEF s
      <4>3. Counted(s)
        BY <3>1, <4>1, <4>2 DEF Started
      <4>4. \A t \in Students : t # s => Counted(t)
        BY <3>1, <4>1 DEF Scores, Started
      <4>5. \A t \in Students : Counted(t)
        <5> HIDE DEF Counted
        <5> QED BY <4>3, <4>4
      <4> QED BY <1>0, <4>5
    <3> QED BY <3>2, <3>3
  <2>6. CASE MarkSubmitted(r)
    <3> DEFINE s == req[r].student
    <3>1. test' = test
      BY <2>6 DEF MarkSubmitted
    <3>2. CASE attempt' = attempt
      BY <1>1, <3>1, <3>2 DEF rows
    <3>3. CASE attempt' # attempt
      <4>1. /\ s \in Students /\ Started(s) /\ attempt'[s].accepted = attempt[s].accepted
            /\ attempt'[s].score = attempt[s].score /\ attempt'[s].maxScore = attempt[s].maxScore
            /\ \A t \in Students : t # s => attempt'[t] = attempt[t]
        BY <2>6, <3>3, AfterMark
      <4> HIDE DEF s
      <4>2. \A t \in Students : Counted(t)
        BY <3>1, <4>1 DEF Scores, Started
      <4> QED BY <1>0, <4>2
    <3> QED BY <3>2, <3>3
  <2>7. CASE WriteGrade(r)
    <3> DEFINE s == req[r].student
               E == req[r].evidence
    <3>1. test' = test /\ req[r].problems = test.problems /\ test.problems \in AnyProblems
      BY <2>7 DEF WriteGrade, Settled, Typed, Tests
    <3>2. CASE attempt' = attempt
      BY <1>1, <3>1, <3>2 DEF rows
    <3>3. CASE attempt' # attempt
      <4>1. /\ s \in Students
            /\ attempt'[s].score = Earned(E, s, test.problems)
            /\ attempt'[s].maxScore = Worth(test.problems)
            /\ attempt'[s].accepted = SolvedIn(E, s, test.problems)
            /\ \A t \in Students : t # s => attempt'[t] = attempt[t]
        BY <2>7, <3>1, <3>3, AfterWrite
      <4> HIDE DEF s, E
      <4>2. /\ SolvedIn(E, s, test.problems) \subseteq test.problems
            /\ Earned(E, s, test.problems) = Worth(SolvedIn(E, s, test.problems))
            /\ Earned(E, s, test.problems) <= Worth(test.problems)
        BY <3>1, ScoreBounds, GradeSums
      <4>3. Counted(s)
        BY <3>1, <4>1, <4>2 DEF Started
      <4>4. \A t \in Students : t # s => Counted(t)
        BY <3>1, <4>1 DEF Scores, Started
      <4>5. \A t \in Students : Counted(t)
        <5> HIDE DEF Counted
        <5> QED BY <4>3, <4>4
      <4> QED BY <1>0, <4>5
    <3> QED BY <3>2, <3>3
  <2> QED BY <1>5, <2>1, <2>2, <2>3, <2>4, <2>5, <2>6, <2>7, RowsChange
<1> QED BY <1>1, <1>3, <1>4, <1>5, Steps

-----------------------------------------------------------------------------
(* A hand-in is marked only after it was graded. *)
Handing ==
    /\ \A r \in Requests :
          LET s == req[r].student IN
          /\ At(r, "mark") => test.status = "NONE" \/ (Started(s) /\ attempt[s].graded)
          /\ req[r].kind = "submit" /\ (At(r, "grade") \/ At(r, "write")) =>
                test.status = "NONE" \/ Started(s)
          /\ At(r, "status") \/ At(r, "list") \/ At(r, "next") => req[r].kind # "submit"
    /\ \A s \in Students : attempt[s].status = "SUBMITTED" => attempt[s].graded

LEMMA HandingInit == ASSUME BaselineAssumption, Init PROVE Handing
<1>1. Idle.pc = "idle"
  BY IdlePc
<1>2. NoAttempt.status = "NOT_STARTED"
  BY DEF NoAttempt
<1> HIDE DEF Idle, NoAttempt
<1> QED BY <1>1, <1>2 DEF Init, Handing, At

(* The attempts that are there stay, until the test goes with all of them. *)
LEMMA StaysStarted ==
  ASSUME BaselineAssumption, Typed, Blank, [Next]_vars, test # NoTest
  PROVE  /\ test.status = "NONE" => test'.status = "NONE"
         /\ test'.status = "NONE" \/ \A s \in Students :
               Started(s) => /\ Started(s)'
                             /\ attempt[s].graded => attempt'[s].graded
<1>1. ASSUME UNCHANGED rows
      PROVE  /\ test.status = "NONE" => test'.status = "NONE"
             /\ test'.status = "NONE" \/ \A s \in Students :
                   Started(s) => Started(s)' /\ (attempt[s].graded => attempt'[s].graded)
  BY <1>1 DEF rows, Started
<1>2. ASSUME NEW s \in Students, NEW c \in {"NOT_REVIEWED", "REVIEWED"}, Review(s, c)
      PROVE  /\ test.status = "NONE" => test'.status = "NONE"
             /\ \A t \in Students :
                   Started(t) => Started(t)' /\ (attempt[t].graded => attempt'[t].graded)
  BY <1>2, AfterReview DEF Started, Review
<1>3. ASSUME NEW r \in Requests, RequestStep(r)
      PROVE  /\ test.status = "NONE" => test'.status = "NONE"
             /\ test'.status = "NONE" \/ \A s \in Students :
                   Started(s) => Started(s)' /\ (attempt[s].graded => attempt'[s].graded)
  <2>1. CASE UNCHANGED <<rows, verdict>>
    BY <1>1, <2>1
  <2>2. CASE Update(r)
    BY <2>2, AfterUpdate DEF Started
  <2>3. CASE WriteStatus(r)
    BY <2>3, AfterStatus DEF WriteStatus, Started
  <2>4. CASE RemoveTest(r)
    BY <2>4, AfterRemove
  <2>5. CASE Start(r)
    <3>1. test' = test
      BY <2>5 DEF Start
    <3> QED BY <2>5, <3>1, AfterStart DEF Started
  <2>6. CASE MarkSubmitted(r)
    <3>1. test' = test
      BY <2>6 DEF MarkSubmitted
    <3> QED BY <2>6, <3>1, AfterMark DEF Started
  <2>7. CASE WriteGrade(r)
    <3>1. test' = test
      BY <2>7 DEF WriteGrade
    <3> QED BY <2>7, <3>1, AfterWrite DEF Started
  <2> QED BY <1>3, <2>1, <2>2, <2>3, <2>4, <2>5, <2>6, <2>7, RowsChange
<1> QED BY <1>1, <1>2, <1>3, Steps DEF Create

LEMMA HandingStep ==
  ASSUME BaselineAssumption, Typed, Blank, Handing, [Next]_vars
  PROVE  Handing'
<1> USE DEF At
<1>1. CASE test = NoTest
  <2>1. \A r \in Requests : ~ RequestStep(r) \/ UNCHANGED <<rows, verdict>>
    <3> SUFFICES ASSUME NEW r \in Requests, RequestStep(r) PROVE UNCHANGED <<rows, verdict>>
      OBVIOUS
    <3>1. ~ Busy(r)
      BY <1>1, BusyTest
    <3> QED BY <3>1, RowsChange DEF Busy, Update, WriteStatus, RemoveTest, Start, MarkSubmitted,
                                    WriteGrade
  <2>2. \A s \in Students : ~ Started(s)
    BY <1>1 DEF Blank, NoTest
  <2>3. attempt' = attempt
    BY <2>1, <2>2, Steps DEF rows, Create, Review
  <2>4. \A r \in Requests : ~ RequestStep(r)
    <3> SUFFICES ASSUME NEW r \in Requests, RequestStep(r) PROVE FALSE
      OBVIOUS
    <3>1. ~ Busy(r) /\ test.status = "NONE"
      BY <1>1, BusyTest DEF NoTest
    <3> QED BY <3>1, <2>2 DEF RequestStep, Step, Busy, Update, WriteStatus, RemoveTest, Start,
          MarkSubmitted, ListAttempts, NextAttempt, ReadForGrade, WriteGrade, GradeConflict, Crash,
          Regrade, ReadForRemove, ReadForUpdate, ReadForStatus, ReadForStart, ReadForSubmit, Started
  <2>5. req' = req /\ Alone
    BY <1>1, <2>2, <2>4, Steps DEF Create, Review, Blank
  <2> QED BY <2>2, <2>3, <2>5 DEF Handing, Alone, Started
<1>2. CASE test # NoTest
  <2>1. /\ test.status = "NONE" => test'.status = "NONE"
        /\ test'.status = "NONE" \/ \A s \in Students :
              Started(s) => Started(s)' /\ (attempt[s].graded => attempt'[s].graded)
    BY <1>2, StaysStarted
  <2>2. ASSUME NEW q \in Requests, req'[q] = req[q]
        PROVE  LET s == req'[q].student IN
               /\ At(q, "mark")' => test'.status = "NONE"
                     \/ (attempt'[s].status # "NOT_STARTED" /\ attempt'[s].graded)
               /\ req'[q].kind = "submit" /\ (At(q, "grade")' \/ At(q, "write")') =>
                     test'.status = "NONE" \/ attempt'[s].status # "NOT_STARTED"
               /\ At(q, "status")' \/ At(q, "list")' \/ At(q, "next")' => req'[q].kind # "submit"
    BY <2>1, <2>2 DEF Handing, Started, Typed
  <2>3. ASSUME NEW r \in Requests, RequestStep(r)
        PROVE  LET s == req'[r].student IN
               /\ At(r, "mark")' => test'.status = "NONE"
                     \/ (attempt'[s].status # "NOT_STARTED" /\ attempt'[s].graded)
               /\ req'[r].kind = "submit" /\ (At(r, "grade")' \/ At(r, "write")') =>
                     test'.status = "NONE" \/ attempt'[s].status # "NOT_STARTED"
               /\ At(r, "status")' \/ At(r, "list")' \/ At(r, "next")' => req'[r].kind # "submit"
    <3>1. Came(r)
      BY <2>3, Moves
    <3>2. CASE At(r, "mark")'
      <4> DEFINE s == req[r].student
      <4>1. req'[r].student = s /\ req[r].kind = "submit"
        BY <3>1, <3>2 DEF Came
      <4>2. CASE ReadForGrade(r) /\ ~ Started(s)
        <5>1. test.status = "NONE"
          BY <4>1, <4>2 DEF Handing, ReadForGrade
        <5> QED BY <2>1, <3>2, <5>1
      <4>3. CASE WriteGrade(r) /\ Started(s)
        <5>1. attempt'[s].status = attempt[s].status /\ attempt'[s].graded
          <6>1. ~ Done(r)
            BY <3>2, AfterDone
          <6> QED BY <4>3, <6>1, AfterWrite
        <5> QED BY <3>2, <4>1, <4>3, <5>1 DEF Started
      <4> QED BY <3>1, <3>2, <4>2, <4>3 DEF Came
    <3>3. CASE At(r, "grade")'
      <4>1. CASE /\ At(r, "idle") /\ req'[r].kind = "submit" /\ req'[r].student \in Students
                 /\ ReadForSubmit(r, req'[r].student)
        BY <3>3, <4>1 DEF ReadForSubmit, rows
      <4>2. CASE NextAttempt(r) /\ req'[r].kind = req[r].kind
        BY <3>3, <4>2 DEF Handing, NextAttempt
      <4> QED BY <3>1, <3>3, <4>1, <4>2 DEF Came
    <3>4. CASE At(r, "write")'
      BY <2>1, <3>1, <3>4 DEF Came, Started
    <3>5. CASE At(r, "status")'
      BY <3>1, <3>5 DEF Came
    <3>6. CASE At(r, "list")'
      BY <3>1, <3>6 DEF Came, Handing, WriteStatus
    <3>7. CASE At(r, "next")'
      BY <3>1, <3>7 DEF Came, Handing, ListAttempts
    <3> QED BY <3>2, <3>3, <3>4, <3>5, <3>6, <3>7
  <2>4. \A q \in Requests : req'[q] = req[q] \/ RequestStep(q)
    <3>1. ASSUME NEW r \in Requests, RequestStep(r)
          PROVE  \A q \in Requests : req'[q] = req[q] \/ RequestStep(q)
      BY <3>1, Moves DEF Moved
    <3> QED BY <3>1, Steps DEF Create, Review
  <2>5. ASSUME NEW s \in Students, attempt'[s].status = "SUBMITTED" PROVE attempt'[s].graded
    <3>1. CASE attempt'[s] = attempt[s]
      BY <2>5, <3>1 DEF Handing
    <3>2. ASSUME NEW t \in Students, NEW c \in {"NOT_REVIEWED", "REVIEWED"}, Review(t, c)
          PROVE  attempt'[s].graded
      <4>1. attempt'[s].status = attempt[s].status /\ attempt'[s].graded = attempt[s].graded
        BY <3>2, AfterReview
      <4> QED BY <2>5, <4>1 DEF Handing
    <3>3. ASSUME NEW r \in Requests, RequestStep(r) PROVE attempt'[s].graded
      <4>1. CASE UNCHANGED <<rows, verdict>>
        BY <3>1, <4>1 DEF rows
      <4>2. CASE Update(r)
        <5>1. attempt' = attempt \/ (attempt'[s].status = attempt[s].status
                                       /\ attempt'[s].graded = attempt[s].graded)
          BY <4>2, AfterUpdate
        <5> QED BY <2>5, <3>1, <5>1 DEF Handing
      <4>3. CASE WriteStatus(r)
        BY <3>1, <4>3 DEF WriteStatus
      <4>4. CASE RemoveTest(r)
        BY <2>5, <4>4, AfterRemove
      <4>5. CASE Start(r)
        <5>1. attempt'[s] = attempt[s] \/ attempt'[s].status = "IN_PROGRESS"
          BY <4>5, AfterStart
        <5> QED BY <2>5, <3>1, <5>1
      <4>6. CASE MarkSubmitted(r)
        <5>1. CASE s = req[r].student /\ Started(s)
          <6>1. attempt[s].graded
            BY <4>6, <5>1 DEF MarkSubmitted, Handing, Blank
          <6>2. attempt' = attempt \/ attempt'[s].graded = attempt[s].graded
            BY <4>6, <5>1, AfterMark
          <6> QED BY <6>1, <6>2
        <5>2. CASE ~ (s = req[r].student /\ Started(s))
          BY <3>1, <4>6, <5>2, AfterMark
        <5> QED BY <5>1, <5>2
      <4>7. CASE WriteGrade(r)
        <5>1. attempt'[s] = attempt[s] \/ attempt'[s].graded
          BY <4>7, AfterWrite
        <5> QED BY <3>1, <5>1
      <4> QED BY <3>3, <4>1, <4>2, <4>3, <4>4, <4>5, <4>6, <4>7, RowsChange
    <3> QED BY <3>1, <3>2, <3>3, Steps DEF rows, Create
  <2> QED BY <2>2, <2>3, <2>4, <2>5 DEF Handing, Started
<1> QED BY <1>1, <1>2

-----------------------------------------------------------------------------
(* What the mirror gave at a hand-in it still gives, and no grading under  *)
(* way gives less.  A test that was removed has no attempts any more.      *)
Removed == test.status = "NONE" /\ test # NoTest
Handed ==
    Calm =>
        /\ \A s \in Students :
              /\ ~ Removed => handedIn[s] <= Earned(mirror, s, test.problems)
              /\ ~ Removed /\ ~ Started(s) => handedIn[s] = 0
              /\ attempt[s].status = "SUBMITTED" => attempt[s].score >= handedIn[s]
        /\ \A r \in Requests :
              LET s == req[r].student IN
              /\ At(r, "write") => Earned(req[r].evidence, s, req[r].problems) >= handedIn[s]
              /\ At(r, "mark") /\ Started(s) => attempt[s].score >= handedIn[s]

LEMMA Mirrors ==
  ASSUME BaselineAssumption, Typed, Typed'
  PROVE  /\ handedIn \in [Students -> Nat] /\ atClose \in [Students -> Nat]
         /\ test.problems \in AnyProblems /\ test'.problems \in AnyProblems
         /\ \A s \in Students : \A p \in AnyProblems :
               /\ Earned(mirror, s, p) \in Nat /\ Earned(mirror', s, p) \in Nat
               /\ mirror \subseteq mirror' => Earned(mirror, s, p) <= Earned(mirror', s, p)
         /\ \A s \in Students : attempt[s].score \in Nat /\ attempt'[s].score \in Nat
         /\ \A r \in Requests : \A s \in Students :
               Earned(req[r].evidence, s, req[r].problems) \in Nat
<1>1. \A s \in Students : \A p \in AnyProblems :
         /\ Earned(mirror, s, p) \in Nat /\ Earned(mirror', s, p) \in Nat
         /\ mirror \subseteq mirror' => Earned(mirror, s, p) <= Earned(mirror', s, p)
  BY ScoreBounds, EarnedGrows
<1>2. \A r \in Requests : req[r].problems \in AnyProblems
  BY DEF Typed, Pending
<1>3. \A r \in Requests : \A s \in Students : Earned(req[r].evidence, s, req[r].problems) \in Nat
  BY <1>2, ScoreBounds
<1>4. handedIn \in [Students -> Nat] /\ atClose \in [Students -> Nat]
      /\ test.problems \in AnyProblems /\ test'.problems \in AnyProblems
  BY DEF Typed, Tests
<1>5. \A s \in Students : attempt[s].score \in Nat /\ attempt'[s].score \in Nat
  BY DEF Typed, Attempts
<1> QED BY <1>1, <1>3, <1>4, <1>5

LEMMA HandedInit == ASSUME BaselineAssumption, Init PROVE Handed
<1>1. Idle.pc = "idle"
  BY IdlePc
<1>2. NoAttempt.status = "NOT_STARTED"
  BY DEF NoAttempt
<1>3. Typed
  BY TypingInit
<1>4. \A s \in Students : Earned(mirror, s, test.problems) \in Nat
  <2>1. test.problems \in AnyProblems
    BY <1>3 DEF Typed, Tests
  <2> QED BY <2>1, ScoreBounds
<1> HIDE DEF Idle, NoAttempt
<1> QED BY <1>1, <1>2, <1>4 DEF Init, Handed, At

LEMMA HandedStep ==
  ASSUME BaselineAssumption, Typed, Typed', Blank, Solo, Settled, Handed, [Next]_vars
  PROVE  Handed'
<1> SUFFICES ASSUME Calm PROVE Handed'
  BY Steps DEF Handed, Calm
<1>0. Sequential /\ Steady
  BY DEF Calm, Sequential, Steady
<1> DEFINE Kept(s) == /\ ~ Removed' => handedIn'[s] <= Earned(mirror', s, test'.problems)
                      /\ ~ Removed' /\ ~ Started(s)' => handedIn'[s] = 0
                      /\ attempt'[s].status = "SUBMITTED" => attempt'[s].score >= handedIn'[s]
           Held(r) == /\ At(r, "write")' =>
                           Earned(req'[r].evidence, req'[r].student, req'[r].problems)
                              >= handedIn'[req'[r].student]
                      /\ At(r, "mark")' /\ attempt'[req'[r].student].status # "NOT_STARTED" =>
                           attempt'[req'[r].student].score >= handedIn'[req'[r].student]
<1>1. ASSUME \A s \in Students : Kept(s), \A r \in Requests : Held(r) PROVE Handed'
  BY <1>1 DEF Handed, Started
<1>2. ASSUME UNCHANGED <<rows, req, ghosts>>, mirror \subseteq mirror' PROVE Handed'
  <2>1. \A s \in Students : Kept(s)
    BY <1>2, Mirrors DEF Handed, rows, ghosts, Started, Removed
  <2>2. \A r \in Requests : Held(r)
    BY <1>2 DEF Handed, rows, ghosts, Started, At
  <2> QED BY <1>1, <2>1, <2>2
<1>3. ASSUME NEW d \in Drafts, NEW c \in Audiences, Create(d, c) PROVE Handed'
  <2>1. Alone /\ req' = req /\ attempt' = attempt /\ handedIn' = handedIn /\ mirror' = mirror
    BY <1>3 DEF Create, Blank, evidence, ghosts
  <2>2. \A s \in Students : handedIn[s] = 0 /\ attempt[s].status = "NOT_STARTED"
    BY <1>3 DEF Create, Blank, NoTest, Started
  <2>3. \A s \in Students : Kept(s)
    BY <2>1, <2>2, Mirrors
  <2>4. \A r \in Requests : Held(r)
    BY <2>1 DEF Alone, At
  <2> QED BY <1>1, <2>3, <2>4
<1>4. ASSUME NEW s \in Students, NEW c \in {"NOT_REVIEWED", "REVIEWED"}, Review(s, c) PROVE Handed'
  <2>1. test' = test /\ req' = req /\ handedIn' = handedIn /\ mirror' = mirror /\ Alone
    BY <1>0, <1>4, AfterReview DEF Review, evidence
  <2>2. \A t \in Students : attempt'[t].status = attempt[t].status /\ attempt'[t].score = attempt[t].score
    BY <1>4, AfterReview
  <2>3. \A t \in Students : Kept(t)
    BY <2>1, <2>2 DEF Handed, Started, Removed
  <2>4. \A r \in Requests : Held(r)
    BY <2>1 DEF Alone, At
  <2> QED BY <1>1, <2>3, <2>4
<1>5. ASSUME NEW r \in Requests, RequestStep(r) PROVE Handed'
  <2>1. Moved(r) /\ Came(r) /\ mirror' = mirror
    BY <1>5, Moves DEF RequestStep, Step, Update, WriteStatus, RemoveTest, Start, MarkSubmitted,
       ListAttempts, NextAttempt, ReadForGrade, WriteGrade, GradeConflict, Crash, Regrade,
       ReadForRemove, ReadForUpdate, ReadForStatus, ReadForStart, ReadForSubmit, evidence
  <2>2. \A q \in Requests : q # r => At(q, "idle")'
    BY <1>0, <2>1, OthersIdle
  <2>3. \A q \in Requests : q # r => Held(q)
    BY <2>2 DEF At
  <2>4. CASE ~ UNCHANGED handedIn
    <3>1. PICK s \in Students : ReadForSubmit(r, s)
      BY <1>5, <2>4 DEF RequestStep, Step, Update, WriteStatus, RemoveTest, Start, MarkSubmitted,
         ListAttempts, NextAttempt, ReadForGrade, WriteGrade, GradeConflict, Crash, Regrade,
         ReadForRemove, ReadForUpdate, ReadForStatus, ReadForStart, ghosts
    <3>2. UNCHANGED rows /\ attempt[s].status = "IN_PROGRESS"
          /\ handedIn' = [handedIn EXCEPT ![s] = ScoreNow(s)]
      BY <3>1 DEF ReadForSubmit
    <3>3. ScoreNow(s) = Earned(mirror, s, test.problems)
      BY ScoreNowTyped
    <3>4. handedIn'[s] = Earned(mirror, s, test.problems)
          /\ \A t \in Students : t # s => handedIn'[t] = handedIn[t]
      BY <3>2, <3>3, Mirrors
    <3>5. \A t \in Students : Kept(t)
      BY <2>1, <3>2, <3>4, Mirrors DEF Handed, rows, Started, Removed
    <3>6. At(r, "grade")'
      <4> DEFINE x == [Idle EXCEPT !.pc = "grade", !.kind = "submit", !.student = s]
      <4>1. x.pc = "grade"
        BY DEF Idle
      <4>2. req'[r] = x
        BY <3>1, AfterBegin DEF ReadForSubmit
      <4> HIDE DEF x
      <4> QED BY <4>1, <4>2 DEF At
    <3>7. Held(r)
      BY <3>6 DEF At
    <3> QED BY <1>1, <2>3, <3>5, <3>7
  <2>5. CASE UNCHANGED handedIn
    <3>1. ASSUME UNCHANGED rows PROVE Handed'
      <4>1. \A s \in Students : Kept(s)
        BY <2>1, <2>5, <3>1 DEF Handed, rows, Started, Removed
      <4>2. ASSUME At(r, "write")' PROVE Held(r)
        <5> DEFINE s == req[r].student
        <5>1. /\ s \in Students /\ Started(s) /\ req'[r].student = s
              /\ req'[r].problems = test.problems /\ req'[r].evidence = mirror
          BY <2>1, <4>2 DEF Came
        <5>2. ~ Removed
          BY <5>1 DEF Removed, Blank
        <5>3. handedIn[s] <= Earned(mirror, s, test.problems)
          BY <5>1, <5>2 DEF Handed
        <5> HIDE DEF s
        <5>4. ~ At(r, "mark")'
          BY <4>2 DEF At
        <5> QED BY <2>5, <5>1, <5>3, <5>4, Mirrors
      <4>3. ASSUME At(r, "mark")' PROVE Held(r)
        <5> DEFINE s == req[r].student
        <5>1. req'[r].student = s
          BY <2>1, <4>3 DEF Came
        <5>2. CASE ~ Started(s)
          BY <3>1, <4>3, <5>1, <5>2 DEF At, Started, rows
        <5>3. CASE Started(s)
          <6>1. WriteGrade(r) /\ ~ Done(r) /\ s \in Students
            BY <2>1, <4>3, <5>3, AfterDone, AfterWrite DEF Came, At
          <6>2. attempt'[s].score = Earned(req[r].evidence, s, req[r].problems)
            BY <6>1, AfterWrite
          <6>3. attempt'[s].score >= handedIn[s]
            BY <6>1, <6>2 DEF Handed, WriteGrade
          <6> QED BY <2>5, <4>3, <5>1, <6>3 DEF At
        <5> QED BY <5>2, <5>3
      <4>4. Held(r)
        BY <4>2, <4>3
      <4> QED BY <1>1, <2>3, <4>1, <4>4
    <3>2. CASE UNCHANGED <<rows, verdict>>
      BY <3>1, <3>2
    <3>3. CASE Update(r)
      <4>1. CASE attempt' = attempt /\ test' = test
        BY <3>1, <4>1 DEF rows
      <4>2. CASE ~ (attempt' = attempt /\ test' = test)
        <5>1. test.status = "DRAFT" /\ \A s \in Students : ~ Started(s)
          BY <1>0, <3>3 DEF Update, Settled, Open
        <5>2. \A s \in Students : attempt'[s].status = "NOT_STARTED"
          BY <3>3, <4>2, <5>1, AfterUpdate DEF Started
        <5>3. \A s \in Students : handedIn[s] = 0
          BY <5>1 DEF Handed, Removed
        <5>4. \A s \in Students : Kept(s)
          BY <2>5, <5>2, <5>3, Mirrors
        <5>5. Held(r)
          BY <3>3, AfterDone DEF Update, At
        <5> QED BY <1>1, <2>3, <5>4, <5>5
      <4> QED BY <4>1, <4>2
    <3>4. CASE WriteStatus(r)
      <4>1. attempt' = attempt /\ test'.problems = test.problems /\ (Removed' <=> Removed)
        <5>1. attempt' = attempt
          BY <3>4 DEF WriteStatus
        <5>2. test' = test \/ (test.status # "NONE" /\ test'.status # "NONE"
                                /\ test'.problems = test.problems)
          BY <3>4, AfterStatus DEF Statuses
        <5> QED BY <5>1, <5>2 DEF Removed
      <4>2. \A s \in Students : Kept(s)
        BY <2>1, <2>5, <4>1 DEF Handed, Started
      <4>3. Done(r) \/ Goto(r, "list")
        BY <3>4 DEF WriteStatus
      <4>4. Held(r)
        BY <4>3, AfterDone, AfterGoto DEF At, Pcs
      <4> QED BY <1>1, <2>3, <4>2, <4>4
    <3>5. CASE RemoveTest(r)
      <4>1. Removed' /\ \A s \in Students : attempt'[s].status = "NOT_STARTED"
        BY <3>5, AfterRemove DEF Removed, NoTest
      <4>2. \A s \in Students : Kept(s)
        BY <4>1
      <4>3. Held(r)
        BY <3>5, AfterDone DEF RemoveTest, At
      <4> QED BY <1>1, <2>3, <4>2, <4>3
    <3>6. CASE Start(r)
      <4> DEFINE s == req[r].student
      <4>1. test' = test
        BY <3>6 DEF Start
      <4>2. CASE attempt' = attempt
        BY <3>1, <4>1, <4>2 DEF rows
      <4>3. CASE attempt' # attempt
        <5>1. s \in Students /\ attempt'[s].status = "IN_PROGRESS"
              /\ \A t \in Students : t # s => attempt'[t] = attempt[t]
          BY <3>6, <4>3, AfterStart
        <5> HIDE DEF s
        <5>2. \A t \in Students : Kept(t)
          BY <2>1, <2>5, <4>1, <5>1 DEF Handed, Started, Removed
        <5>3. Held(r)
          BY <3>6, AfterDone DEF Start, At
        <5> QED BY <1>1, <2>3, <5>2, <5>3
      <4> QED BY <4>2, <4>3
    <3>7. CASE MarkSubmitted(r)
      <4> DEFINE s == req[r].student
      <4>1. test' = test /\ At(r, "mark")
        BY <3>7 DEF MarkSubmitted
      <4>2. CASE attempt' = attempt
        BY <3>1, <4>1, <4>2 DEF rows
      <4>3. CASE attempt' # attempt
        <5>1. s \in Students /\ Started(s) /\ attempt'[s].status = "SUBMITTED"
              /\ attempt'[s].score = attempt[s].score
              /\ \A t \in Students : t # s => attempt'[t] = attempt[t]
          BY <3>7, <4>3, AfterMark
        <5>2. attempt[s].score >= handedIn[s]
          BY <4>1, <5>1 DEF Handed
        <5> HIDE DEF s
        <5>3. \A t \in Students : Kept(t)
          BY <2>1, <2>5, <4>1, <5>1, <5>2 DEF Handed, Started, Removed
        <5>4. Held(r)
          BY <3>7, AfterDone DEF MarkSubmitted, At
        <5> QED BY <1>1, <2>3, <5>3, <5>4
      <4> QED BY <4>2, <4>3
    <3>8. CASE WriteGrade(r)
      <4> DEFINE s == req[r].student
                 E == req[r].evidence
                 P == req[r].problems
      <4>1. test' = test /\ At(r, "write")
        BY <3>8 DEF WriteGrade
      <4>2. CASE attempt' = attempt
        BY <3>1, <4>1, <4>2 DEF rows
      <4>3. CASE attempt' # attempt
        <5>1. s \in Students /\ attempt'[s].status = attempt[s].status /\ AfterGrade(r)
              /\ attempt'[s].score = Earned(E, s, P)
              /\ \A t \in Students : t # s => attempt'[t] = attempt[t]
          BY <3>8, <4>3, AfterWrite
        <5>2. Earned(E, s, P) >= handedIn[s]
          BY <4>1 DEF Handed
        <5>3. req'[r].student = s /\ (At(r, "mark")' \/ At(r, "next")')
          BY <5>1, GradeMoves DEF At
        <5> HIDE DEF s, E, P
        <5>4. \A t \in Students : Kept(t)
          BY <2>1, <2>5, <4>1, <5>1, <5>2 DEF Handed, Started, Removed
        <5>5. Held(r)
          BY <2>5, <5>1, <5>2, <5>3 DEF At
        <5> QED BY <1>1, <2>3, <5>4, <5>5
      <4> QED BY <4>2, <4>3
    <3> QED BY <1>5, <3>2, <3>3, <3>4, <3>5, <3>6, <3>7, <3>8, RowsChange
  <2> QED BY <2>4, <2>5
<1> QED BY <1>2, <1>3, <1>4, <1>5, Steps

-----------------------------------------------------------------------------
(* After a close each attempt has the score it had earned by then, or is   *)
(* still to be graded by the request that is under way.                    *)
Due(r, s) ==
    \/ At(r, "list")
    \/ At(r, "next") /\ req[r].kind # "submit" /\ s \in req[r].queue
    \/ /\ At(r, "grade") \/ At(r, "write")
       /\ req[r].kind # "submit"
       /\ s = req[r].student \/ s \in req[r].queue
Closing ==
    Safe /\ test.status = "CLOSED" =>
        /\ \A s \in Students :
              /\ atClose[s] <= Earned(mirror, s, test.problems)
              /\ Started(s) => attempt[s].score >= atClose[s] \/ \E r \in Requests : Due(r, s)
        /\ \A r \in Requests :
              At(r, "write") =>
                 Earned(req[r].evidence, req[r].student, req[r].problems) >= atClose[req[r].student]

LEMMA ClosingInit == ASSUME Init PROVE Closing
  BY DEF Init, Closing, NoTest

LEMMA ClosingStep ==
  ASSUME BaselineAssumption, Typed, Typed', Blank, Solo, Settled, Handing, Closing, [Next]_vars
  PROVE  Closing'
<1> SUFFICES ASSUME Safe, test'.status = "CLOSED" PROVE Closing'
  BY Steps DEF Closing, Safe
<1>0. Sequential /\ Steady /\ "crash" \notin env
  BY DEF Safe, Sequential, Steady
<1> DEFINE Kept(s) ==
              /\ atClose'[s] <= Earned(mirror', s, test'.problems)
              /\ attempt'[s].status # "NOT_STARTED" =>
                    attempt'[s].score >= atClose'[s] \/ \E r \in Requests : Due(r, s)'
           Held(r) == At(r, "write")' =>
              Earned(req'[r].evidence, req'[r].student, req'[r].problems) >= atClose'[req'[r].student]
<1>1. ASSUME \A s \in Students : Kept(s), \A r \in Requests : Held(r) PROVE Closing'
  BY <1>1 DEF Closing, Started
<1>2. ASSUME UNCHANGED <<rows, req, ghosts>>, mirror \subseteq mirror' PROVE Closing'
  <2>1. test.status = "CLOSED" /\ test' = test /\ attempt' = attempt /\ atClose' = atClose
    BY <1>2 DEF rows, ghosts
  <2>2. \A r \in Requests : \A s : Due(r, s)' <=> Due(r, s)
    BY <1>2 DEF Due, At
  <2>3. \A s \in Students : Kept(s)
    BY <1>2, <2>1, <2>2, Mirrors DEF Closing, Started
  <2>4. \A r \in Requests : Held(r)
    BY <1>2, <2>1 DEF Closing, At
  <2> QED BY <1>1, <2>3, <2>4
<1>3. ASSUME NEW d \in Drafts, NEW c \in Audiences, Create(d, c) PROVE FALSE
  BY <1>3 DEF Create
<1>4. ASSUME NEW s \in Students, NEW c \in {"NOT_REVIEWED", "REVIEWED"}, Review(s, c) PROVE Closing'
  <2>1. test' = test /\ req' = req /\ atClose' = atClose /\ mirror' = mirror
    BY <1>4 DEF Review, evidence
  <2>2. \A t \in Students : attempt'[t].status = attempt[t].status /\ attempt'[t].score = attempt[t].score
    BY <1>4, AfterReview
  <2>3. \A r \in Requests : \A t : Due(r, t)' <=> Due(r, t)
    BY <2>1 DEF Due, At
  <2>4. \A t \in Students : Kept(t)
    BY <2>1, <2>2, <2>3 DEF Closing, Started
  <2>5. \A r \in Requests : Held(r)
    BY <2>1 DEF Closing, At
  <2> QED BY <1>1, <2>4, <2>5
<1>5. ASSUME NEW r \in Requests, RequestStep(r) PROVE Closing'
  <2>1. Moved(r) /\ Came(r) /\ mirror' = mirror
    BY <1>5, Moves DEF RequestStep, Step, Update, WriteStatus, RemoveTest, Start, MarkSubmitted,
       ListAttempts, NextAttempt, ReadForGrade, WriteGrade, GradeConflict, Crash, Regrade,
       ReadForRemove, ReadForUpdate, ReadForStatus, ReadForStart, ReadForSubmit, evidence
  <2>2. \A q \in Requests : q # r => At(q, "idle") /\ At(q, "idle")'
    BY <1>0, <2>1, OthersIdle
  <2>3. \A q \in Requests : q # r => Held(q) /\ \A s : ~ Due(q, s) /\ ~ Due(q, s)'
    BY <2>2 DEF At, Due
  <2>4. CASE WriteStatus(r)
    <3>1. attempt' = attempt /\ At(r, "status")
      BY <2>4 DEF WriteStatus
    <3>2. CASE test' = test /\ UNCHANGED atClose /\ Done(r)
      <4>1. ~ Due(r, CHOOSE s : TRUE) /\ \A s : ~ Due(r, s)
        BY <3>1 DEF Due, At
      <4>2. \A s \in Students : Kept(s)
        BY <2>1, <2>3, <3>1, <3>2, <4>1 DEF Closing, Started
      <4>3. Held(r)
        BY <3>2, AfterDone DEF At
      <4> QED BY <1>1, <2>3, <4>2, <4>3
    <3>3. CASE ~ (test' = test /\ UNCHANGED atClose /\ Done(r))
      <4>1. /\ Goto(r, "list") /\ test'.problems = test.problems
            /\ atClose' = [s \in Students |-> ScoreNow(s)]
        BY <2>4, <3>3, AfterStatus
      <4>2. At(r, "list")'
        BY <4>1, AfterGoto DEF At, Pcs
      <4>3. \A s \in Students : atClose'[s] = Earned(mirror, s, test.problems)
        BY <4>1, ScoreNowTyped
      <4>4. \A s \in Students : Kept(s)
        BY <2>1, <4>1, <4>2, <4>3, Mirrors DEF Due
      <4>5. Held(r)
        BY <4>2 DEF At
      <4> QED BY <1>1, <2>3, <4>4, <4>5
    <3> QED BY <3>2, <3>3
  <2>5. ASSUME ~ WriteStatus(r)
        PROVE  test.status = "CLOSED" /\ atClose' = atClose /\ test'.problems = test.problems
    <3>1. CASE UNCHANGED rows
      BY <1>5, <2>5, <3>1 DEF rows, RequestStep, Step, Update, RemoveTest, Start, MarkSubmitted,
         ListAttempts, NextAttempt, ReadForGrade, WriteGrade, GradeConflict, Crash, Regrade,
         ReadForRemove, ReadForUpdate, ReadForStatus, ReadForStart, ReadForSubmit, ghosts
    <3>2. CASE Update(r)
      <4>1. test.status = "DRAFT"
        BY <1>0, <3>2 DEF Update, Settled
      <4>2. test'.status = "DRAFT"
        BY <3>2, <4>1, AfterUpdate
      <4> QED BY <4>2
    <3>3. CASE RemoveTest(r)
      BY <3>3, AfterRemove
    <3>4. CASE Start(r) \/ MarkSubmitted(r) \/ WriteGrade(r)
      BY <3>4 DEF Start, MarkSubmitted, WriteGrade, ghosts
    <3> QED BY <1>5, <2>5, <3>1, <3>2, <3>3, <3>4, RowsChange
  (* The attempts keep their scores, but one that a request has graded.    *)
  <2>6. ASSUME ~ WriteStatus(r), NEW s \in Students
        PROVE  \/ attempt'[s].status = attempt[s].status /\ attempt'[s].score = attempt[s].score
               \/ attempt'[s].score >= atClose[s]
               \/ attempt'[s].score = attempt[s].score /\ Started(s)
    <3>1. CASE UNCHANGED rows
      BY <3>1 DEF rows
    <3>2. CASE Update(r)
      BY <3>2, AfterUpdate
    <3>3. CASE RemoveTest(r)
      BY <3>3, AfterRemove
    <3>4. CASE Start(r)
      <4>1. test.status = "ACTIVE"
        BY <1>0, <3>4 DEF Start, Solo
      <4> QED BY <2>5, <2>6, <4>1
    <3>5. CASE MarkSubmitted(r)
      BY <3>5, AfterMark
    <3>6. CASE WriteGrade(r)
      <4>1. CASE s = req[r].student /\ attempt' # attempt
        <5>1. attempt'[s].score = Earned(req[r].evidence, req[r].student, req[r].problems)
          BY <3>6, <4>1, AfterWrite
        <5>2. attempt'[s].score >= atClose[s]
          BY <2>5, <2>6, <3>6, <4>1, <5>1 DEF Closing, WriteGrade
        <5> QED BY <5>2
      <4>2. CASE ~ (s = req[r].student /\ attempt' # attempt)
        BY <3>6, <4>2, AfterWrite
      <4> QED BY <4>1, <4>2
    <3> QED BY <1>5, <2>6, <3>1, <3>2, <3>3, <3>4, <3>5, <3>6, RowsChange
  (* What was due is graded now or still due. *)
  <2>7. ASSUME ~ WriteStatus(r), NEW s \in Students, Started(s), Due(r, s)
        PROVE  Due(r, s)' \/ attempt'[s].score >= atClose[s]
    <3>1. CASE ListAttempts(r)
      <4>1. req'[r].pc = "next" /\ req'[r].kind = req[r].kind
            /\ req'[r].queue = {t \in Students : Started(t)}
        BY <3>1, AfterListing
      <4>2. req[r].kind # "submit"
        BY <3>1 DEF ListAttempts, Handing
      <4>3. s \in req'[r].queue
        BY <2>7, <4>1
      <4> QED BY <4>1, <4>2, <4>3 DEF Due, At
    <3>2. CASE NextAttempt(r)
      <4>1. req[r].kind # "submit" /\ s \in req[r].queue
        BY <2>7, <3>2 DEF NextAttempt, Due, At
      <4>2. /\ req'[r].pc = "grade" /\ req'[r].kind = req[r].kind
            /\ s = req'[r].student \/ s \in req'[r].queue
        BY <3>2, <4>1, AfterNext
      <4> QED BY <4>1, <4>2 DEF Due, At
    <3>3. CASE ReadForGrade(r)
      <4>1. req[r].kind # "submit" /\ (s = req[r].student \/ s \in req[r].queue)
        BY <2>7, <3>3 DEF ReadForGrade, Due, At
      <4>2. CASE Started(req[r].student)
        BY <3>3, <4>1, <4>2, AfterReading DEF Due, At
      <4>3. CASE ~ Started(req[r].student)
        <5>1. AfterGrade(r) /\ s # req[r].student
          BY <2>7, <3>3, <4>3, AfterReading
        <5>2. req'[r].pc = "next" /\ req'[r].kind = req[r].kind /\ req'[r].queue = req[r].queue
          BY <4>1, <5>1, GradeMoves
        <5> QED BY <4>1, <5>1, <5>2 DEF Due, At
      <4> QED BY <4>2, <4>3
    <3>4. CASE WriteGrade(r)
      <4>1. At(r, "write") /\ req[r].kind # "submit" /\ (s = req[r].student \/ s \in req[r].queue)
        BY <2>7, <3>4 DEF WriteGrade, Due, At
      <4>2. Started(req[r].student) /\ req[r].edition = test.edition
        BY <1>0, <4>1 DEF Solo, Settled
      <4>3. AfterGrade(r)
            /\ attempt'[req[r].student].score =
                  Earned(req[r].evidence, req[r].student, req[r].problems)
        BY <3>4, <4>2, AfterWrite
      <4>4. CASE s = req[r].student
        <5>1. attempt'[s].score >= atClose[s]
          BY <2>5, <2>7, <4>1, <4>3, <4>4 DEF Closing
        <5> QED BY <5>1
      <4>5. CASE s \in req[r].queue
        <5>1. req'[r].pc = "next" /\ req'[r].kind = req[r].kind /\ req'[r].queue = req[r].queue
          BY <4>1, <4>3, GradeMoves
        <5> QED BY <4>1, <4>5, <5>1 DEF Due, At
      <4> QED BY <4>1, <4>4, <4>5
    <3>5. CASE GradeConflict(r)
      <4>1. PICK q \in Requests \ {r} : At(q, "write")
        BY <3>5 DEF GradeConflict
      <4> QED BY <2>2, <4>1 DEF At
    <3>6. CASE Crash(r)
      BY <1>0, <3>6 DEF Crash
    <3> QED BY <1>5, <2>7, <3>1, <3>2, <3>3, <3>4, <3>5, <3>6
            DEF RequestStep, Step, Due, At, Update, RemoveTest, Start, MarkSubmitted, Regrade,
                ReadForRemove, ReadForUpdate, ReadForStatus, ReadForStart, ReadForSubmit, Begin
  <2>8. CASE ~ WriteStatus(r)
    <3>1. test.status = "CLOSED" /\ atClose' = atClose /\ test'.problems = test.problems
      BY <2>5, <2>8
    <3>2. ASSUME NEW s \in Students PROVE Kept(s)
      <4>1. atClose'[s] <= Earned(mirror', s, test'.problems)
        BY <2>1, <3>1 DEF Closing
      <4>2. ASSUME attempt'[s].status # "NOT_STARTED", ~ (attempt'[s].score >= atClose[s])
            PROVE  Due(r, s)'
        <5>1. Started(s) /\ attempt'[s].score = attempt[s].score
          BY <2>6, <2>8, <4>2 DEF Started
        <5>2. \E q \in Requests : Due(q, s)
          BY <3>1, <4>2, <5>1 DEF Closing
        <5>3. Due(r, s)
          BY <2>3, <5>2
        <5> QED BY <2>7, <2>8, <4>2, <5>1, <5>3
      <4> QED BY <3>1, <4>1, <4>2
    <3>3. Held(r)
      <4> SUFFICES ASSUME At(r, "write")' PROVE Held(r)
        OBVIOUS
      <4> DEFINE s == req[r].student
      <4>1. /\ s \in Students /\ req'[r].student = s
            /\ req'[r].problems = test.problems /\ req'[r].evidence = mirror
        BY <2>1 DEF Came
      <4>2. atClose[s] <= Earned(mirror, s, test.problems)
        BY <3>1, <4>1 DEF Closing
      <4> HIDE DEF s
      <4> QED BY <3>1, <4>1, <4>2, Mirrors
    <3> QED BY <1>1, <2>3, <3>2, <3>3
  <2> QED BY <2>4, <2>8
<1> QED BY <1>2, <1>3, <1>4, <1>5, Steps

-----------------------------------------------------------------------------
(* Every part is kept by every step, given the others. *)
IInv ==
    /\ Typed /\ Blank /\ Solo /\ Reviewed /\ Settled /\ Scores
    /\ Handing /\ Handed /\ Closing

LEMMA Induction == Spec => []IInv
<1> USE BaselineAssumption
<1>1. Init => IInv
  BY TypingInit, BlankInit, SoloInit, SettledInit, HandingInit, HandedInit, ClosingInit DEF IInv
<1>2. IInv /\ [Next]_vars => IInv'
  <2> SUFFICES ASSUME IInv, [Next]_vars PROVE IInv'
    OBVIOUS
  <2>0. Typed /\ Blank /\ Solo /\ Reviewed /\ Settled /\ Scores /\ Handing /\ Handed /\ Closing
    BY DEF IInv
  <2>1. Typed'
    BY <2>0, TypingStep
  <2>2. Blank' /\ Solo' /\ Reviewed' /\ Settled' /\ Scores' /\ Handing'
    BY <2>0, BlankStep, SoloStep, ReviewedStep, SettledStep, ScoresStep, HandingStep
  <2>3. Handed' /\ Closing'
    BY <2>0, <2>1, HandedStep, ClosingStep
  <2> QED BY <2>1, <2>2, <2>3 DEF IInv
<1> QED BY <1>1, <1>2, PTL DEF Spec

(* The test, its attempts, the mirror and the requests keep their types.   *)
THEOREM Typing == Spec => []TypeOK
<1>1. IInv => TypeOK
  BY DEF IInv, Typed, TypeOK, Tests, Attempts, Reviews, AnyEvidence
<1> QED BY <1>1, Induction, PTL

(* However gradings, hand-ins, reviews, syncs and crashes interleave, the  *)
(* score of an attempt is what its result rows add up to, they are rows of *)
(* the test's problems, and no score exceeds what the test is out of.      *)
THEOREM ScoreStands == Spec => []ScoreMatchesResults
<1>1. IInv => ScoreMatchesResults
  BY TallyOfPoints DEF IInv, Scores, Steady, ScoreMatchesResults
<1> QED BY <1>1, Induction, PTL

(* While requests do not overlap, no grading takes back a mentor's         *)
(* REVIEWED, however often it runs and whatever it finds.                  *)
THEOREM ReviewStands == Spec => []ReviewKept
<1>1. IInv => ReviewKept
  BY DEF IInv, Reviewed, Sequential, ReviewKept
<1> QED BY <1>1, Induction, PTL

(* A hand-in is graded before it is marked, with no less than there was    *)
(* when it came; a close leaves no attempt below what it had earned then.  *)
THEOREM GradedByThen == Spec => []GradedInTime
<1>1. IInv => GradedInTime
  <2> SUFFICES ASSUME IInv PROVE GradedInTime
    OBVIOUS
  <2>1. \A s \in Students : attempt[s].status = "SUBMITTED" => attempt[s].graded
    BY DEF IInv, Handing
  <2>2. Calm => \A s \in Students : attempt[s].status = "SUBMITTED" => attempt[s].score >= handedIn[s]
    BY DEF IInv, Handed
  <2>3. Alone => \A r \in Requests : \A s \in Students : ~ Due(r, s)
    BY DEF Alone, Due, At
  <2>4. Safe /\ test.status = "CLOSED" /\ Alone
          => \A s \in Students : Started(s) => attempt[s].score >= atClose[s]
    BY <2>3 DEF IInv, Closing
  <2> QED BY <2>1, <2>2, <2>4 DEF GradedInTime, Calm, Safe
<1> QED BY <1>1, Induction, PTL

-----------------------------------------------------------------------------
(* The board's order is a weak one, its ties are what rankBaselineEntries  *)
(* calls tied, and the rank of a row counts the rows before its ties.      *)
Lines == [solved : Nat, tried : Nat, score : Nat, time : Int, attempted : BOOLEAN,
          percent : Int, known : BOOLEAN]

LEMMA BetterOrders ==
  ASSUME NEW a \in Lines, NEW b \in Lines, NEW c \in Lines
  PROVE  /\ ~ Better(a, a)
         /\ Better(a, b) /\ Better(b, c) => Better(a, c)
         /\ Better(a, b) => Better(a, c) \/ Better(c, b)
         /\ Tied(a, b) <=> ~ Better(a, b) /\ ~ Better(b, a)
  BY DEF Better, Tied, Sooner, Lines, None

LEMMA RankCounts ==
  ASSUME NEW board, IsFiniteSet(DOMAIN board), \A s \in DOMAIN board : board[s] \in Lines
  PROVE  \A s \in DOMAIN board : Ranks(board)[s] =
            1 + Cardinality({t \in DOMAIN board : Better(board[t], board[s])})
<1> DEFINE S == DOMAIN board
           before == {x \in S \X S : Better(board[x[1]], board[x[2]])}
           tied == {x \in S \X S : Tied(board[x[1]], board[x[2]])}
           order == BoardOrder(board)
           all == Orderings(S, LAMBDA s, t : Better(board[s], board[t]))
<1>1. \A s, t \in S : /\ <<s, t>> \in before <=> Better(board[s], board[t])
                      /\ <<s, t>> \in tied <=> Tied(board[s], board[t])
  OBVIOUS
<1>2. WeakOrder(before, tied, S)
  <2> HIDE DEF before, tied, S
  <2>1. \A s \in S : board[s] \in Lines
    BY DEF S
  <2>2. \A s, t, u \in S :
           /\ ~ Better(board[s], board[s])
           /\ Better(board[s], board[t]) /\ Better(board[t], board[u]) => Better(board[s], board[u])
           /\ Better(board[s], board[t]) => Better(board[s], board[u]) \/ Better(board[u], board[t])
           /\ Tied(board[s], board[t]) <=>
                 ~ Better(board[s], board[t]) /\ ~ Better(board[t], board[s])
    BY <2>1, BetterOrders
  <2> QED BY <1>1, <2>2 DEF WeakOrder, StrictOrder
<1>3. \A seq : seq \in all <=> Listing(seq, before, S)
  <2>1. \A seq : seq \in all <=>
           /\ seq \in [1 .. Cardinality(S) -> S]
           /\ \A i, j \in 1 .. Cardinality(S) :
                 i < j => seq[i] # seq[j] /\ ~ Better(board[seq[j]], board[seq[i]])
    BY DEF Orderings
  <2>2. \A seq : seq \in [1 .. Cardinality(S) -> S] =>
           \A i, j \in 1 .. Cardinality(S) :
              Better(board[seq[j]], board[seq[i]]) <=> <<seq[j], seq[i]>> \in before
    BY <1>1, Zenon
  <2> HIDE DEF all, S, before
  <2> QED BY <2>1, <2>2 DEF Listing
<1>4. Listing(order, before, S)
  <2>1. \E seq : Listing(seq, before, S)
    BY <1>2, ListingExists DEF WeakOrder
  <2>2. order = CHOOSE seq \in all : TRUE
    BY DEF BoardOrder, Orderings
  <2> HIDE DEF all, order, before
  <2> QED BY <2>1, <2>2, <1>3
<1> SUFFICES ASSUME NEW s \in S
             PROVE  Ranks(board)[s] = 1 + Cardinality({t \in S : Better(board[t], board[s])})
  OBVIOUS
<1> DEFINE k == CHOOSE i \in DOMAIN order : order[i] = s
<1>5. DOMAIN order = 1 .. Cardinality(S) /\ \A i \in 1 .. Cardinality(S) : order[i] \in S
  <2> HIDE DEF order, S, before
  <2> QED BY <1>4 DEF Listing
<1>6. k \in 1 .. Cardinality(S) /\ order[k] = s
  <2>1. \E i \in 1 .. Cardinality(S) : order[i] = s
    BY <1>4, ListingComplete
  <2> HIDE DEF order, S
  <2> QED BY <1>5, <2>1
<1>7. Ranks(board)[s] = Max({i \in RunStarts(board, order) : i <= k})
  BY DEF Ranks
<1>8. RunStarts(board, order) = Starts(order, tied, S)
  <2>1. RunStarts(board, order) =
          {i \in DOMAIN order : i = 1 \/ ~ Tied(board[order[i]], board[order[i - 1]])}
    BY DEF RunStarts
  <2>2. Cardinality(S) \in Nat
    BY FS_CardinalityType
  <2> HIDE DEF order, S, tied
  <2> QED BY <1>1, <1>5, <2>1, <2>2 DEF Starts
<1>9. {t \in S : Better(board[t], board[s])} = {t \in S : <<t, s>> \in before}
  BY <1>1
<1> HIDE DEF order, k, before, tied
<1> QED BY <1>2, <1>4, <1>6, <1>7, <1>8, <1>9, RankOfListing

-----------------------------------------------------------------------------
(* What the mirror shows of a student on some problems: what was solved    *)
(* was tried.                                                              *)
LEMMA PerformanceOf ==
  ASSUME NEW subs, IsFiniteSet(subs), \A x \in subs : x.ok \in BOOLEAN, NEW s, NEW problems
  PROVE  LET perf == Performance(subs, s, problems)
         IN /\ DOMAIN perf = problems
            /\ \A p \in problems : /\ perf[p].solved \in BOOLEAN /\ perf[p].attempts \in Nat
                                   /\ perf[p].solved => perf[p].attempts > 0
<1> DEFINE perf == Performance(subs, s, problems)
<1>1. DOMAIN perf = problems
  BY DEF Performance
<1> SUFFICES ASSUME NEW p \in problems
             PROVE  /\ perf[p].solved \in BOOLEAN /\ perf[p].attempts \in Nat
                    /\ perf[p].solved => perf[p].attempts > 0
  BY <1>1
<1> DEFINE mine == Of(subs, s, p)
           accepted == {x.at : x \in {y \in mine : y.ok}}
<1>2. perf[p].solved = (accepted # {}) /\ perf[p].attempts = Cardinality(mine)
  BY DEF Performance
<1>3. mine \in SUBSET subs /\ (accepted # {} => mine # {})
  BY DEF Of
<1> HIDE DEF mine, accepted, perf
<1>4. IsFiniteSet(mine)
  BY <1>3, FS_Subset
<1>5. Cardinality(mine) \in Nat /\ (mine # {} => Cardinality(mine) > 0)
  BY <1>4, FS_CardinalityType, FS_EmptySet
<1> QED BY <1>2, <1>3, <1>5

LEMMA CountOfPart ==
  ASSUME NEW S, IsFiniteSet(S), NEW T \in SUBSET S
  PROVE  /\ IsFiniteSet(T) /\ Cardinality(T) \in Nat /\ Cardinality(T) <= Cardinality(S)
         /\ Cardinality(T) = 0 <=> T = {}
         /\ Cardinality(S \ T) = Cardinality(S) - Cardinality(T)
<1>1. IsFiniteSet(T) /\ Cardinality(T) <= Cardinality(S)
  BY FS_Subset
<1>2. Cardinality(T) \in Nat /\ (Cardinality(T) = 0 <=> T = {})
  BY <1>1, FS_CardinalityType, FS_EmptySet
<1>3. Cardinality(S \ T) = Cardinality(S) - Cardinality(S \cap T)
  BY <1>1, FS_Difference
<1>4. S \cap T = T
  OBVIOUS
<1> QED BY <1>1, <1>2, <1>3, <1>4

LEMMA DivisionBounds ==
  ASSUME NEW x \in Int, NEW n \in Nat \ {0}
  PROVE  x \div n \in Int /\ n * (x \div n) <= x /\ x < n * (x \div n) + n
  BY SMTT(60)

LEMMA PercentTyped ==
  ASSUME NEW a \in Nat, NEW b \in Nat
  PROVE  BaselinePercent(a, b) \in Int
<1>1. CASE b = 0
  BY <1>1 DEF BaselinePercent
<1>2. CASE b # 0
  <2>1. 2 * (100 * a) + b \in Int /\ 2 * b \in Nat \ {0}
    BY <1>2
  <2>2. (2 * (100 * a) + b) \div (2 * b) \in Int
    BY <2>1, DivisionBounds
  <2> QED BY <1>2, <2>2 DEF BaselinePercent, Rounded
<1> QED BY <1>1, <1>2

(* A rounded mean lies between the least and the greatest value.           *)
LEMMA RoundedBetween ==
  ASSUME NEW low \in Int, NEW high \in Int, NEW sum \in Int, NEW n \in Nat \ {0},
         low * n <= sum, sum <= high * n
  PROVE  low <= Rounded(sum, n) /\ Rounded(sum, n) <= high
<1> DEFINE q == (2 * sum + n) \div (2 * n)
<1>1. q \in Int /\ (2 * n) * q <= 2 * sum + n /\ 2 * sum + n < (2 * n) * q + 2 * n
  <2>1. 2 * sum + n \in Int /\ 2 * n \in Nat \ {0}
    OBVIOUS
  <2> QED BY <2>1, DivisionBounds
<1>2. Rounded(sum, n) = q
  BY DEF Rounded
<1> HIDE DEF q
<1>3. ASSUME NEW a \in Int, NEW b \in Int, a < b PROVE n * a + n <= n * b
  <2>1. n * (a + 1) <= n * b
    BY <1>3, a + 1 <= b
  <2> QED BY <2>1
<1>4. (2 * n) * q = 2 * (n * q) /\ low * n = n * low /\ high * n = n * high
      /\ n * q \in Int /\ n * low \in Int /\ n * high \in Int
  BY <1>1
<1>5. 2 * (n * q) <= 2 * sum + n /\ 2 * sum < 2 * (n * q) + n
  BY <1>1, <1>4
<1>6. ~ (q < low)
  <2> SUFFICES ASSUME q < low PROVE FALSE
    OBVIOUS
  <2>1. n * q + n <= n * low
    BY <1>1, <1>3
  <2> HIDE DEF q
  <2> QED BY <2>1, <1>4, <1>5
<1>7. ~ (high < q)
  <2> SUFFICES ASSUME high < q PROVE FALSE
    OBVIOUS
  <2>1. n * high + n <= n * q
    BY <1>1, <1>3
  <2> QED BY <2>1, <1>4, <1>5
<1> QED BY <1>1, <1>2, <1>6, <1>7

-----------------------------------------------------------------------------
(* The sums of the board and of the report. *)
SolvedTally(rec, S) == Tally(S, LAMBDA x : rec[x].solved)
PercentTally(rec, S) == Tally(S, LAMBDA x : rec[x].percent)
StatsTally(performances, problems, eligible) ==
    Tally(problems, LAMBDA p : ProblemStats(performances, p, eligible).solved)
PartsOf(performances, p, eligible) ==
    LET stats == ProblemStats(performances, p, eligible)
    IN stats.solved + stats.tried + stats.untouched

LEMMA TallySolved ==
  ASSUME NEW rec, NEW S, IsFiniteSet(S), NEW f, \A x \in S : f[x] = rec[x].solved
  PROVE  SolvedTally(rec, S) = SumOf(f, S)
<1> DEFINE F(g) == [t \in SUBSET S |-> IF t = {} THEN 0 ELSE rec[Pick(t)].solved + g[t \ {Pick(t)}]]
           sums == CHOOSE g : g = F(g)
           G == PartialSums(f, S)
<1>1. SumsUp(G, f, S)
  BY SumsExist
<1>2. \A t \in SUBSET S : t # {} => f[Pick(t)] = rec[Pick(t)].solved
  BY DEF Pick
<1>3. G = F(G)
  BY <1>1, <1>2 DEF SumsUp
<1>4. sums = F(sums)
  BY <1>3
<1>5. SumsUp(sums, f, S)
  BY <1>2, <1>4 DEF SumsUp
<1>6. SolvedTally(rec, S) = sums[S]
  BY DEF SolvedTally, Tally, MapThenSumSet, MapThenFoldSet, Pick
<1> HIDE DEF sums
<1>7. sums[S] = G[S]
  BY <1>1, <1>5, SumsAgree
<1> QED BY <1>6, <1>7 DEF SumOf

LEMMA TallyPercent ==
  ASSUME NEW rec, NEW S, IsFiniteSet(S), NEW f, \A x \in S : f[x] = rec[x].percent
  PROVE  PercentTally(rec, S) = SumOf(f, S)
<1> DEFINE F(g) == [t \in SUBSET S |-> IF t = {} THEN 0 ELSE rec[Pick(t)].percent + g[t \ {Pick(t)}]]
           sums == CHOOSE g : g = F(g)
           G == PartialSums(f, S)
<1>1. SumsUp(G, f, S)
  BY SumsExist
<1>2. \A t \in SUBSET S : t # {} => f[Pick(t)] = rec[Pick(t)].percent
  BY DEF Pick
<1>3. G = F(G)
  BY <1>1, <1>2 DEF SumsUp
<1>4. sums = F(sums)
  BY <1>3
<1>5. SumsUp(sums, f, S)
  BY <1>2, <1>4 DEF SumsUp
<1>6. PercentTally(rec, S) = sums[S]
  BY DEF PercentTally, Tally, MapThenSumSet, MapThenFoldSet, Pick
<1> HIDE DEF sums
<1>7. sums[S] = G[S]
  BY <1>1, <1>5, SumsAgree
<1> QED BY <1>6, <1>7 DEF SumOf

(* Every student is on one line of the distribution or unknown. *)
LEMMA DistributionAdds ==
  ASSUME NEW board, IsFiniteSet(DOMAIN board), \A s \in DOMAIN board : board[s] \in Lines
  PROVE  LET ranks == Leaderboard(board)
         IN ranks.total = ranks.unknown + SumOf(ranks.distribution, DOMAIN ranks.distribution)
<1> DEFINE S == DOMAIN board
           measured == {s \in S : board[s].known}
           N == {board[s].solved : s \in measured}
           class == [n \in N |-> {s \in measured : board[s].solved = n}]
           d == Leaderboard(board).distribution
<1>1. /\ Leaderboard(board).total = Cardinality(S)
      /\ Leaderboard(board).unknown = Cardinality(S \ measured)
      /\ d = [n \in N |-> Cardinality({s \in measured : board[s].solved = n})]
  BY DEF Leaderboard
<1>2. measured \in SUBSET S
  OBVIOUS
<1>3. IsFiniteSet(N) /\ IsFiniteSet(measured)
  <2> DEFINE solved == [s \in S |-> board[s].solved]
  <2>1. N = {solved[s] : s \in measured}
    OBVIOUS
  <2> HIDE DEF N, solved, S, measured
  <2>2. IsFiniteSet(measured)
    BY <1>2, FS_Subset DEF S
  <2> QED BY <2>1, <2>2, ImageFinite
<1>4. /\ \A n \in N : class[n] \subseteq measured
      /\ \A s \in measured : \E n \in N : s \in class[n]
      /\ \A s \in measured : \A m, n \in N : s \in class[m] /\ s \in class[n] => m = n
      /\ \A n \in N : d[n] = Cardinality(class[n])
  BY <1>1
<1>5. DOMAIN d = N
  BY <1>1
<1> HIDE DEF d, N, class, measured, S
<1>7. SumOf(d, N) = Cardinality(measured)
  BY <1>3, <1>4, ClassesAddUp
<1>8. Cardinality(S \ measured) = Cardinality(S) - Cardinality(measured)
      /\ Cardinality(S) \in Nat /\ Cardinality(measured) \in Nat
  BY <1>2, CountOfPart, FS_CardinalityType DEF S
<1>9. Cardinality(S) = Cardinality(S \ measured) + Cardinality(measured)
  BY <1>8
<1> QED BY <1>1, <1>5, <1>7, <1>9 DEF d

(* The average lies between the lowest and the highest percentage.         *)
LEMMA AverageBetween ==
  ASSUME NEW board, IsFiniteSet(DOMAIN board), \A s \in DOMAIN board : board[s] \in Lines
  PROVE  LET ranks == Leaderboard(board)
         IN ranks.lowest <= ranks.average /\ ranks.average <= ranks.highest
<1> DEFINE S == DOMAIN board
           measured == {s \in S : board[s].known}
           percents == {board[s].percent : s \in measured}
           ranks == Leaderboard(board)
           f == [s \in S |-> board[s].percent]
<1>1. /\ ranks.lowest = IF percents = {} THEN 0 ELSE Min(percents)
      /\ ranks.highest = IF percents = {} THEN 0 ELSE Max(percents)
  BY DEF Leaderboard
<1>2. ranks.average = IF measured = {} THEN 0
                      ELSE Rounded(PercentTally(board, measured), Cardinality(measured))
  BY DEF Leaderboard, Average, PercentTally, Tally, MapThenSumSet, MapThenFoldSet
<1>3. measured \in SUBSET S
  OBVIOUS
<1>4. measured = {} <=> percents = {}
  OBVIOUS
<1>5. CASE measured = {}
  BY <1>1, <1>2, <1>5
<1>6. CASE measured # {}
  <2>1. percents = {f[s] : s \in measured} /\ \A s \in S : f[s] \in Int
    BY DEF Lines
  <2>2. \A s \in measured : f[s] = board[s].percent
    OBVIOUS
  <2> HIDE DEF f, percents, measured, ranks
  <2>3. IsFiniteSet(measured)
    BY <1>3, FS_Subset
  <2>4. IsFiniteSet(percents)
    BY <2>1, <2>3, ImageFinite
  <2>5. percents \subseteq Int /\ percents # {}
    BY <2>1, <1>3, <1>4, <1>6
  <2>6. /\ Min(percents) \in Int /\ Max(percents) \in Int
        /\ \A x \in percents : Min(percents) <= x /\ x <= Max(percents)
    BY <2>4, <2>5, FiniteMin, FiniteMax
  <2> DEFINE low == Min(percents)
             high == Max(percents)
             sum == SumOf(f, measured)
             n == Cardinality(measured)
  <2>7. \A s \in measured : f[s] \in Int /\ low <= f[s] /\ f[s] <= high
    BY <2>1, <2>6, <1>3
  <2>8. PercentTally(board, measured) = sum
    BY <2>2, <2>3, TallyPercent
  <2>9. sum \in Int
    BY <2>3, <2>7, SumInt
  <2>10. n \in Nat \ {0}
    BY <2>3, <1>6, FS_CardinalityType, FS_EmptySet
  <2> HIDE DEF sum, n, low, high
  <2>11. low \in Int /\ high \in Int
    BY <2>6 DEF low, high
  <2>12. low * n <= sum /\ sum <= high * n
    BY <2>3, <2>7, <2>11, SumBetween DEF sum, n
  <2>13. low <= Rounded(sum, n) /\ Rounded(sum, n) <= high
    BY <2>9, <2>10, <2>11, <2>12, RoundedBetween
  <2> QED BY <1>1, <1>2, <1>6, <2>5, <2>8, <2>13 DEF low, high, n, ranks
<1> QED BY <1>5, <1>6

(* Solves add up by problem as by student.                                 *)
LEMMA SolvesAdd ==
  ASSUME NEW problems, IsFiniteSet(problems), NEW S, IsFiniteSet(S), NEW performances,
         \A s \in S : \A p \in problems : performances[s][p].solved \in BOOLEAN,
         \A s \in S : DOMAIN performances[s] = problems,
         NEW board, \A s \in S : board[s].solved = CountSolved(performances[s])
  PROVE  StatsTally(performances, problems, S) = SolvedTally(board, S)
<1> DEFINE stats(p) == ProblemStats(performances, p, S)
           row == [p \in problems |-> {s \in S : performances[s][p].solved}]
           column == [s \in S |-> {p \in problems : performances[s][p].solved}]
           f == [p \in problems |-> stats(p).solved]
           h == [s \in S |-> board[s].solved]
<1>1. \A p \in problems : f[p] = Cardinality(row[p])
  BY DEF ProblemStats
<1>2. \A s \in S : h[s] = Cardinality(column[s])
  BY DEF CountSolved
<1>3. /\ \A p \in problems : row[p] \subseteq S
      /\ \A s \in S : column[s] \subseteq problems
      /\ \A p \in problems, s \in S : s \in row[p] <=> p \in column[s]
  OBVIOUS
<1>4. SumOf(f, problems) = SumOf(h, S)
  <2> HIDE DEF f, h, row, column
  <2>1. Paired(problems, S, row, column, f, h)
    BY <1>1, <1>2, <1>3 DEF Paired
  <2> QED BY <2>1, CountBothWays
<1>5. SolvedTally(board, S) = SumOf(h, S)
  <2>1. \A s \in S : h[s] = board[s].solved
    OBVIOUS
  <2> HIDE DEF h
  <2> QED BY <2>1, TallySolved
<1>6. StatsTally(performances, problems, S) = SumOf(f, problems)
  <2> DEFINE F(g) == [t \in SUBSET problems |->
                        IF t = {} THEN 0 ELSE stats(Pick(t)).solved + g[t \ {Pick(t)}]]
             sums == CHOOSE g : g = F(g)
             G == PartialSums(f, problems)
  <2>1. SumsUp(G, f, problems)
    BY SumsExist
  <2>2. \A t \in SUBSET problems : t # {} => f[Pick(t)] = stats(Pick(t)).solved
    BY DEF Pick
  <2>3. StatsTally(performances, problems, S) = sums[problems]
    BY DEF StatsTally, Tally, MapThenSumSet, MapThenFoldSet, Pick
  <2> HIDE DEF stats
  <2>4. G = F(G)
    BY <2>1, <2>2 DEF SumsUp
  <2>5. sums = F(sums)
    BY <2>4
  <2>6. SumsUp(sums, f, problems)
    BY <2>2, <2>5 DEF SumsUp
  <2> HIDE DEF sums
  <2>7. sums[problems] = G[problems]
    BY <2>1, <2>6, SumsAgree
  <2> QED BY <2>3, <2>7 DEF SumOf
<1> QED BY <1>4, <1>5, <1>6

(* The students divide by a problem into those who solved it, those who    *)
(* tried it and the others.                                                *)
LEMMA ProblemDivides ==
  ASSUME NEW S, IsFiniteSet(S), NEW performances, NEW p
  PROVE  PartsOf(performances, p, S) = Cardinality(S)
<1> DEFINE solved == {s \in S : performances[s][p].solved}
           tried == {s \in S \ solved : performances[s][p].attempts > 0}
           rest == Cardinality(S) - Cardinality(solved) - Cardinality(tried)
<1>1. /\ ProblemStats(performances, p, S).solved = Cardinality(solved)
      /\ ProblemStats(performances, p, S).tried = Cardinality(tried)
      /\ ProblemStats(performances, p, S).untouched = Max({0, rest})
  BY DEF ProblemStats
<1>2. solved \in SUBSET S /\ tried \in SUBSET (S \ solved)
  OBVIOUS
<1> HIDE DEF solved, tried
<1>3. /\ Cardinality(S \ solved) = Cardinality(S) - Cardinality(solved)
      /\ IsFiniteSet(S \ solved) /\ Cardinality(solved) \in Nat
  BY <1>2, CountOfPart, FS_Difference
<1>4. Cardinality(tried) \in Nat /\ Cardinality(tried) <= Cardinality(S \ solved)
  BY <1>2, <1>3, CountOfPart
<1>5. Cardinality(S) \in Nat
  BY FS_CardinalityType
<1>6. rest \in Nat
  BY <1>3, <1>4, <1>5
<1>7. Max({0, rest}) = rest
  <2> HIDE DEF rest
  <2>1. IsFiniteSet({0, rest}) /\ {0, rest} # {} /\ {0, rest} \subseteq Int
    <3>1. IsFiniteSet({0} \cup {rest})
      BY FS_Singleton, FS_AddElement
    <3>2. {0, rest} = {0} \cup {rest}
      OBVIOUS
    <3>3. IsFiniteSet({0, rest})
      BY <3>1, <3>2, Zenon
    <3> QED BY <3>3, <1>6
  <2>2. Max({0, rest}) \in {0, rest} /\ \A x \in {0, rest} : x <= Max({0, rest})
    BY <2>1, FiniteMax
  <2> QED BY <2>2, <1>6
<1> QED BY <1>1, <1>3, <1>4, <1>5, <1>7 DEF PartsOf

(* The cohort divides into who solved something, who tried, and the rest.  *)
LEMMA ReportDivides ==
  ASSUME NEW problems, IsFiniteSet(problems), NEW S, IsFiniteSet(S), NEW performances, NEW attempts,
         \A s \in S : DOMAIN performances[s] = problems,
         \A s \in S : \A p \in problems :
            /\ performances[s][p].solved \in BOOLEAN /\ performances[s][p].attempts \in Nat
            /\ performances[s][p].solved => performances[s][p].attempts > 0,
         NEW board, \A s \in S : board[s].solved = CountSolved(performances[s])
  PROVE  LET report == Report(performances, attempts, problems, S)
         IN report.notAttempted + report.attemptedNotSolved
              + Cardinality({s \in S : board[s].solved > 0}) = report.eligible
<1> DEFINE touched(s) == \E p \in problems : performances[s][p].attempts > 0
           report == Report(performances, attempts, problems, S)
           touch == {s \in S : touched(s)}
           solvers == {s \in S : board[s].solved > 0}
           tried == {s \in S : CountSolved(performances[s]) = 0 /\ touched(s)}
<1>1. /\ report.eligible = Cardinality(S)
      /\ report.notAttempted = Cardinality({s \in S : ~ touched(s)})
      /\ report.attemptedNotSolved = Cardinality(tried)
  BY DEF Report
<1>2. \A s \in S : board[s].solved \in Nat /\ (board[s].solved > 0 => touched(s))
  <2> SUFFICES ASSUME NEW s \in S
               PROVE  board[s].solved \in Nat /\ (board[s].solved > 0 => touched(s))
    OBVIOUS
  <2> DEFINE mine == {p \in problems : performances[s][p].solved}
  <2>1. board[s].solved = Cardinality(mine) /\ mine \in SUBSET problems
    BY DEF CountSolved
  <2>2. mine # {} => touched(s)
    OBVIOUS
  <2> HIDE DEF mine, touched
  <2>3. Cardinality(mine) \in Nat /\ (Cardinality(mine) = 0 <=> mine = {})
    BY <2>1, CountOfPart
  <2> QED BY <2>1, <2>2, <2>3
<1>3. {s \in S : ~ touched(s)} = S \ touch
  OBVIOUS
<1>4. touch \in SUBSET S /\ solvers \in SUBSET touch /\ tried = touch \ solvers
  BY <1>2
<1> HIDE DEF touch, solvers, tried
<1>5. /\ IsFiniteSet(touch) /\ Cardinality(touch) \in Nat /\ Cardinality(S) \in Nat
      /\ Cardinality(S \ touch) = Cardinality(S) - Cardinality(touch)
  BY <1>4, CountOfPart, FS_CardinalityType
<1>6. /\ Cardinality(tried) = Cardinality(touch) - Cardinality(solvers)
      /\ Cardinality(solvers) \in Nat
  BY <1>4, <1>5, CountOfPart
<1>7. Cardinality(S \ touch) + Cardinality(tried) + Cardinality(solvers) = Cardinality(S)
  BY <1>5, <1>6
<1> HIDE DEF touched
<1> QED BY <1>1, <1>3, <1>7 DEF solvers

LEMMA EvidenceTyped ==
  ASSUME BaselineAssumption, Typed
  PROVE  /\ IsFiniteSet(test.problems) /\ IsFiniteSet(mirror)
         /\ \A x \in mirror : x.ok \in BOOLEAN
  BY ProblemsFinite DEF Typed, Tests, AnyEvidence, BaselineAssumption

LEMMA BoardLines ==
  ASSUME BaselineAssumption, Typed, NEW viewer, NEW s \in Eligible(viewer)
  PROVE  /\ Board(viewer)[s] \in Lines
         /\ Performances[s] = Performance(mirror, s, test.problems)
         /\ Board(viewer)[s].solved = CountSolved(Performances[s])
<1> DEFINE perf == Performance(mirror, s, test.problems)
           row == BoardRow(mirror, synced, s, test.problems, attempt[s])
           tried == {p \in test.problems : ~ perf[p].solved /\ perf[p].attempts > 0}
           known == IsPerformanceKnown(mirror, synced, s)
           P == test.problems
<1>1. s \in Students /\ attempt[s] \in Attempts
  BY DEF Eligible, EligibleStudents, Typed, BaselineAssumption
<1>2. Board(viewer)[s] = row /\ Performances[s] = perf
  BY <1>1 DEF Board, Performances
<1>3. DOMAIN perf = P /\ IsFiniteSet(P)
  BY EvidenceTyped, PerformanceOf
<1>4. CountSolved(perf) \in Nat
  <2> DEFINE mine == {p \in DOMAIN perf : perf[p].solved}
  <2>1. CountSolved(perf) = Cardinality(mine) /\ mine \in SUBSET P
    BY <1>3 DEF CountSolved
  <2> HIDE DEF mine, P, perf
  <2> QED BY <1>3, <2>1, CountOfPart
<1>5. Cardinality(tried) \in Nat /\ Cardinality(P) \in Nat
  <2>1. tried \in SUBSET P
    OBVIOUS
  <2>2. IsFiniteSet(P)
    BY <1>3
  <2> HIDE DEF tried, P, perf
  <2>3. Cardinality(tried) \in Nat
    BY <2>1, <2>2, CountOfPart
  <2> QED BY <2>2, <2>3, FS_CardinalityType
<1>6. BaselinePercent(CountSolved(perf), Cardinality(P)) \in Int
  BY <1>4, <1>5, PercentTyped
<1>7. row = [solved |-> CountSolved(perf), tried |-> Cardinality(tried),
             score |-> attempt[s].score, time |-> attempt[s].time,
             attempted |-> attempt[s].status # "NOT_STARTED",
             percent |-> BaselinePercent(CountSolved(perf), Cardinality(P)), known |-> known]
  BY DEF BoardRow
<1>8. known \in BOOLEAN
  BY DEF IsPerformanceKnown
<1> HIDE DEF perf, row, tried, known, P
<1>9. row \in Lines /\ row.solved = CountSolved(perf)
  BY <1>1, <1>4, <1>5, <1>6, <1>7, <1>8 DEF Attempts, Lines
<1> QED BY <1>2, <1>9 DEF perf

(* For every viewer, the rank of a line is one more than the number of     *)
(* students who did better, and the figures of the board, of its problems  *)
(* and of the report divide the same cohort.                               *)
THEOREM BoardsAdd == Spec => []BoardsAddUp
<1>1. IInv => BoardsAddUp
  <2> SUFFICES ASSUME IInv, NEW viewer \in Viewers
      PROVE  LET board == Board(viewer)
                 ranks == Leaderboard(board)
                 report == Report(Performances, attempt, test.problems, Eligible(viewer))
                 stats(p) == ProblemStats(Performances, p, Eligible(viewer))
             IN /\ \A s \in DOMAIN board : ranks.rank[s] = 1 +
                      Cardinality({t \in DOMAIN board : Better(board[t], board[s])})
                /\ ranks.total = ranks.unknown +
                      Tally(DOMAIN ranks.distribution, LAMBDA n : ranks.distribution[n])
                /\ ranks.lowest <= ranks.average /\ ranks.average <= ranks.highest
                /\ report.notAttempted + report.attemptedNotSolved
                     + Cardinality({s \in DOMAIN board : board[s].solved > 0}) = report.eligible
                /\ Tally(test.problems, LAMBDA p : stats(p).solved)
                     = Tally(DOMAIN board, LAMBDA s : board[s].solved)
                /\ \A p \in test.problems :
                     stats(p).solved + stats(p).tried + stats(p).untouched = ranks.total
                /\ Eligible(viewer) \subseteq Eligible(Admin) =>
                     \A s \in DOMAIN board : ranks.rank[s] <= Result(s).rank
    BY DEF BoardsAddUp
  <2> DEFINE board == Board(viewer)
             S == Eligible(viewer)
             ranks == Leaderboard(board)
             report == Report(Performances, attempt, test.problems, S)
             stats(p) == ProblemStats(Performances, p, S)
  <2> USE BaselineAssumption
  <2>1. Typed
    BY DEF IInv
  <2>2. S \subseteq Students /\ IsFiniteSet(S)
    <3>1. S \in SUBSET Students
      BY DEF Eligible, EligibleStudents, BaselineAssumption
    <3> QED BY <3>1, FS_Subset DEF BaselineAssumption
  <2>3. DOMAIN board = S
    BY DEF Board
  <2>4. \A s \in S : /\ board[s] \in Lines
                     /\ Performances[s] = Performance(mirror, s, test.problems)
                     /\ board[s].solved = CountSolved(Performances[s])
    BY <2>1, BoardLines
  <2>5. IsFiniteSet(test.problems) /\ IsFiniteSet(mirror) /\ \A x \in mirror : x.ok \in BOOLEAN
    BY <2>1, EvidenceTyped
  <2>6. \A s \in S : DOMAIN Performances[s] = test.problems
                     /\ \A p \in test.problems :
                           /\ Performances[s][p].solved \in BOOLEAN
                           /\ Performances[s][p].attempts \in Nat
                           /\ Performances[s][p].solved => Performances[s][p].attempts > 0
    BY <2>4, <2>5, PerformanceOf
  <2>7. ranks.rank = Ranks(board) /\ ranks.total = Cardinality(S)
    BY <2>3 DEF Leaderboard
  <2> HIDE DEF board, S
  <2>8. \A s \in DOMAIN board : ranks.rank[s] = 1 +
            Cardinality({t \in DOMAIN board : Better(board[t], board[s])})
    <3>1. \A s \in DOMAIN board : Ranks(board)[s] = 1 +
            Cardinality({t \in DOMAIN board : Better(board[t], board[s])})
      BY <2>2, <2>3, <2>4, RankCounts
    <3> QED BY <2>7, <3>1
  <2>9. ranks.total = ranks.unknown +
            Tally(DOMAIN ranks.distribution, LAMBDA n : ranks.distribution[n])
    <3> DEFINE d == ranks.distribution
    <3>1. ranks.total = ranks.unknown + SumOf(d, DOMAIN d)
      BY <2>2, <2>3, <2>4, DistributionAdds
    <3> HIDE DEF d
    <3>2. Tally(DOMAIN d, LAMBDA n : d[n]) = SumOf(d, DOMAIN d)
      BY DEF Tally, MapThenSumSet, MapThenFoldSet, SumOf, PartialSums, SumsUp, Pick
    <3>3. ranks.total = ranks.unknown + Tally(DOMAIN d, LAMBDA n : d[n])
      BY <3>1, <3>2
    <3> QED BY <3>3 DEF d
  <2>10. ranks.lowest <= ranks.average /\ ranks.average <= ranks.highest
    BY <2>2, <2>3, <2>4, AverageBetween
  <2>11. report.notAttempted + report.attemptedNotSolved
            + Cardinality({s \in DOMAIN board : board[s].solved > 0}) = report.eligible
    BY <2>2, <2>3, <2>4, <2>5, <2>6, ReportDivides
  <2>12. /\ StatsTally(Performances, test.problems, S) = SolvedTally(board, S)
         /\ \A p \in test.problems :
               stats(p).solved + stats(p).tried + stats(p).untouched = Cardinality(S)
    <3>1. /\ \A s \in S : \A p \in test.problems : Performances[s][p].solved \in BOOLEAN
          /\ \A s \in S : DOMAIN Performances[s] = test.problems
          /\ \A s \in S : board[s].solved = CountSolved(Performances[s])
      BY <2>4, <2>6
    <3>2. IsFiniteSet(test.problems) /\ IsFiniteSet(S)
      BY <2>2, <2>5
    <3> HIDE DEF ranks, report
    <3>3. StatsTally(Performances, test.problems, S) = SolvedTally(board, S)
      BY <3>1, <3>2, SolvesAdd
    <3>4. \A p \in test.problems : PartsOf(Performances, p, S) = Cardinality(S)
      BY <3>2, ProblemDivides
    <3> QED BY <3>3, <3>4 DEF PartsOf
  <2>13. SolvedTally(board, S) = Tally(DOMAIN board, LAMBDA s : board[s].solved)
    BY <2>3 DEF SolvedTally, Tally, MapThenSumSet, MapThenFoldSet
  <2>14. Tally(test.problems, LAMBDA p : stats(p).solved)
            = Tally(DOMAIN board, LAMBDA s : board[s].solved)
    BY <2>12, <2>13 DEF StatsTally
  <2>15. \A p \in test.problems : stats(p).solved + stats(p).tried + stats(p).untouched = ranks.total
    BY <2>7, <2>12
  <2>16. ASSUME S \subseteq Eligible(Admin), NEW s \in S
         PROVE  ranks.rank[s] <= Result(s).rank
    <3> DEFINE whole == Board(Admin)
               W == Eligible(Admin)
               here == {t \in S : Better(board[t], board[s])}
               all == {t \in W : Better(whole[t], whole[s])}
    <3>1. W \subseteq Students /\ IsFiniteSet(W)
      <4>1. W \in SUBSET Students
        BY DEF Eligible, EligibleStudents, BaselineAssumption
      <4> QED BY <4>1, FS_Subset DEF BaselineAssumption
    <3>2. DOMAIN whole = W /\ \A t \in W : whole[t] \in Lines
      BY <2>1, BoardLines DEF Board
    <3>3. \A t \in S : board[t] = whole[t]
      BY <2>16 DEF Board, board, S
    <3>4. here \in SUBSET all /\ all \in SUBSET W
      BY <2>16, <3>3
    <3>5. Cardinality(here) <= Cardinality(all)
      BY <3>1, <3>4, FS_Subset
    <3>6. Cardinality(here) \in Nat /\ Cardinality(all) \in Nat
      BY <3>1, <3>4, FS_Subset, FS_CardinalityType
    <3> HIDE DEF whole, W
    <3>7. ranks.rank[s] = 1 + Cardinality(here)
      BY <2>3, <2>8, <2>16
    <3>8. Ranks(whole)[s] = 1 + Cardinality(all)
      BY <2>16, <3>1, <3>2, RankCounts DEF W
    <3>9. Result(s).rank = Ranks(whole)[s]
      BY <2>16, <3>2 DEF Result, StudentResult, whole, W
    <3> HIDE DEF here, all, ranks
    <3> QED BY <3>5, <3>6, <3>7, <3>8, <3>9
  <2>17. Eligible(viewer) \subseteq Eligible(Admin) =>
            \A s \in DOMAIN board : ranks.rank[s] <= Result(s).rank
    BY <2>3, <2>16 DEF S
  <2> QED BY <2>8, <2>9, <2>10, <2>11, <2>14, <2>15, <2>17 DEF board, S
<1> QED BY <1>1, Induction, PTL
=============================================================================
