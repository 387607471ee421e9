---------------------------- MODULE Rollup_proofs ----------------------------
(* Proofs about Rollup, for any number of students, assignments, days and   *)
(* concurrent recomputes: typing, the evidence behind every credit, and     *)
(* that no student is measured against a foreign set; and for one recompute *)
(* at a time: that a scored day keeps its set, that what is out of date is  *)
(* found, and that the streaks follow.                                      *)
EXTENDS Rollup, FiniteSetTheorems, WellFoundedInduction, TLAPS

-----------------------------------------------------------------------------
(* What holds of an execution by its place in recomputeDay. *)
Recomputing == {"roster", "evidence", "history", "persist", "upsert"}

PhaseOK(x) ==
    /\ ExecutionOK(x)
    /\ x.pc = "mirror" => x.jobDay \in Days
    /\ x.pc = "next" => x.todo # {}
    /\ x.pc \in Recomputing => x.day \in Days
    /\ x.pc = "upsert" => x.at \in DOMAIN x.plan

TypeInv == TypeOK /\ \A p \in Procs : PhaseOK(proc[p])

-----------------------------------------------------------------------------
(* Lemmas about days and executions. *)

LEMMA LastDayNat == LastDay \in Nat \ {0} /\ Reach \in Nat /\ Lookback \in Nat
  BY RollupAssumption, AssignmentDayAssumption

LEMMA SmallestDay ==
  ASSUME NEW T \in SUBSET Days, T # {}
  PROVE  \E e \in T : \A f \in T : e <= f
<1>1. T \subseteq Nat
  BY LastDayNat DEF Days
<1>2. PICK e \in T : \A f \in T : ~(<<f, e>> \in OpToRel(<, Nat))
  BY <1>1, NatLessThanWellFounded, WFMin
<1>3. \A f \in T : ~(f < e)
  BY <1>1, <1>2 DEF OpToRel
<1> QED BY <1>1, <1>3

LEMMA IdleOK == PhaseOK(Idle)
  BY LastDayNat DEF PhaseOK, ExecutionOK, Partial, Idle, NoOne, Recomputing

LEMMA PlannedOK ==
  ASSUME NEW days \in SUBSET Days, days # {}
  PROVE  PhaseOK([Idle EXCEPT !.pc = "next", !.todo = days])
  BY LastDayNat DEF PhaseOK, ExecutionOK, Partial, Idle, NoOne, Recomputing

LEMMA ProcTyped ==
  ASSUME TypeInv, NEW p \in Procs, NEW y, PhaseOK(y), proc' = [proc EXCEPT ![p] = y]
  PROVE  /\ proc' = [q \in Procs |-> proc'[q]]
         /\ \A q \in Procs : PhaseOK(proc'[q]) /\ ExecutionOK(proc'[q])
         /\ proc'[p] = y /\ \A q \in Procs \ {p} : proc'[q] = proc[q]
  BY DEF TypeInv, TypeOK, PhaseOK

LEMMA ReadAssignmentsOK ==
  ASSUME NEW x, PhaseOK(x), NEW d \in Days, NEW sets, Partial(sets, Assignments, AssignmentRow)
  PROVE  PhaseOK([x EXCEPT !.pc = "roster", !.day = d, !.todo = @ \ {d}, !.sets = sets])
  BY DEF PhaseOK, ExecutionOK, Recomputing

LEMMA ReadRosterOK ==
  ASSUME NEW x, PhaseOK(x), x.pc = "roster", NEW f, Partial(f, Students, Assignments \cup {None})
  PROVE  PhaseOK([x EXCEPT !.pc = "evidence", !.frozen = f])
  BY DEF PhaseOK, ExecutionOK, Recomputing

LEMMA PlanOK ==
  ASSUME NEW x, PhaseOK(x), x.pc \in Recomputing, NEW f, Partial(f, Students, Figures),
         NEW pc \in {"history", "persist"}
  PROVE  /\ PhaseOK([x EXCEPT !.pc = pc, !.plan = f])
         /\ PhaseOK([x EXCEPT !.pc = pc, !.plan = f, !.sets = NoOne, !.frozen = NoOne])
         /\ PhaseOK([x EXCEPT !.pc = pc, !.at = None, !.seen = None, !.plan = f])
  BY DEF PhaseOK, ExecutionOK, Recomputing, NoOne, Partial

LEMMA FindRowOK ==
  ASSUME NEW x, PhaseOK(x), x.pc = "persist", NEW s \in DOMAIN x.plan,
         NEW a \in Assignments \cup {None}
  PROVE  PhaseOK([x EXCEPT !.pc = "upsert", !.at = s, !.seen = a])
  BY DEF PhaseOK, ExecutionOK, Recomputing, Partial

-----------------------------------------------------------------------------
(* Lemmas about what a recompute evaluates. *)

LEMMA SelectOK ==
  ASSUME NEW scope, NEW home
  PROVE  LET a == SelectForScope(scope, home)
         IN  a = None \/ (a \in DOMAIN scope /\ ScopeApplies(scope[a], home))
<1> DEFINE reach == {a \in DOMAIN scope : ScopeApplies(scope[a], home)}
           Best(a) == \A b \in reach : Specificity(scope[b]) <= Specificity(scope[a])
<1>1. CASE reach = {}
  BY <1>1 DEF SelectForScope
<1>2. CASE reach # {}
  <2>1. \A a \in reach : Specificity(scope[a]) \in {0, 1, 2}
    BY DEF Specificity
  <2>2. \E a \in reach : Best(a)
    <3> DEFINE n(a) == Specificity(scope[a])
    <3> HIDE DEF reach
    <3>1. \A a \in reach : n(a) \in {0, 1, 2}
      BY <2>1
    <3> HIDE DEF n
    <3>2. \E a \in reach : \A b \in reach : n(b) <= n(a)
      <4>1. CASE \E a \in reach : n(a) = 2
        BY <3>1, <4>1
      <4>2. CASE (\A a \in reach : n(a) # 2) /\ \E a \in reach : n(a) = 1
        BY <3>1, <4>2
      <4>3. CASE \A a \in reach : n(a) = 0
        BY <1>2, <4>3
      <4> QED BY <3>1, <4>1, <4>2, <4>3
    <3> QED BY <3>2 DEF n
  <2>3. SelectForScope(scope, home) = CHOOSE a \in reach : Best(a)
    BY <1>2 DEF SelectForScope
  <2> QED BY <2>2, <2>3
<1> QED BY <1>1, <1>2

LEMMA StreakNat ==
  ASSUME NEW days, DOMAIN days \subseteq Days, NEW ref, NEW from
  PROVE  Streak(days, ref, from) \in Nat
<1>1. IsFiniteSet(Days)
  BY LastDayNat, FS_Interval DEF Days
<1>2. ASSUME NEW T \in SUBSET Days PROVE Cardinality(T) \in Nat
  BY <1>1, FS_Subset, FS_CardinalityType
<1> QED BY <1>2 DEF Streak

LEMMA FacedOK ==
  ASSUME NEW x, PhaseOK(x), x.pc = "evidence", NEW s \in DOMAIN x.frozen
  PROVE  Faced(x, s) \in DOMAIN x.sets \cup {None}
<1>1. CASE x.frozen[s] \in DOMAIN x.sets
  BY <1>1 DEF Faced
<1>2. CASE x.frozen[s] \notin DOMAIN x.sets
  BY <1>2, SelectOK DEF Faced
<1> QED BY <1>1, <1>2

LEMMA EvaluatedOK ==
  ASSUME NEW x, PhaseOK(x), x.pc = "evidence", NEW s \in DOMAIN x.frozen
  PROVE  Evaluated(x, s) \in Figures
<1> DEFINE a == Faced(x, s)
           assigned == IF a = None THEN {} ELSE x.sets[a].problems
<1>1. a \in DOMAIN x.sets \cup {None}
  BY FacedOK
<1>2. a \in Assignments \cup {None} /\ assigned \in SUBSET Problems
  BY <1>1 DEF PhaseOK, ExecutionOK, Partial, AssignmentRow
<1> HIDE DEF a, assigned
<1>3. /\ Solved(mirror[s], assigned) \in SUBSET Problems
      /\ SolvedInWindow(mirror[s], assigned, x.day) \in SUBSET Problems
  BY <1>2 DEF Solved, SolvedInWindow
<1> QED BY <1>2, <1>3 DEF Evaluated, Figures, a, assigned

-----------------------------------------------------------------------------
(* The steps of a recompute keep every execution in its phase. *)

LEMMA ReadAssignmentsStep ==
  ASSUME TypeInv, NEW p \in Procs, ReadAssignments(p)
  PROVE  TypeInv'
<1> DEFINE d == CHOOSE e \in proc[p].todo : \A f \in proc[p].todo : e <= f
           sets == [a \in SetsOf(d) |-> asg[a]]
           todo == proc[p].todo \ {d}
           y == [proc[p] EXCEPT !.pc = "roster", !.day = d, !.todo = todo, !.sets = sets]
<1>1. PhaseOK(proc[p]) /\ proc[p].pc = "next"
  BY DEF TypeInv, ReadAssignments
<1>2. d \in Days
  <2>1. proc[p].todo \in SUBSET Days /\ proc[p].todo # {}
    BY <1>1 DEF PhaseOK, ExecutionOK
  <2> QED BY <2>1, SmallestDay
<1>3. Partial(sets, Assignments, AssignmentRow)
  BY DEF SetsOf, Partial, TypeInv, TypeOK
<1>4. proc' = [proc EXCEPT ![p].pc = "roster", ![p].day = d, ![p].todo = @ \ {d},
                         ![p].sets = sets]
      /\ UNCHANGED <<stored, today, edits, mirrored>>
  BY Zenon DEF ReadAssignments
<1> HIDE DEF d, sets
<1>5. proc' = [proc EXCEPT ![p] = y]
  BY <1>4 DEF TypeInv, TypeOK
<1>6. PhaseOK(y)
  BY <1>1, <1>2, <1>3, ReadAssignmentsOK
<1> HIDE DEF y
<1> QED BY <1>4, <1>5, <1>6, ProcTyped DEF TypeInv, TypeOK, stored, Live

LEMMA ReadRosterStep ==
  ASSUME TypeInv, NEW p \in Procs, ReadRoster(p)
  PROVE  TypeInv'
<1> DEFINE d == proc[p].day
           f == [s \in {s \in active : EnrolledFrom[s] <= d} |-> Named(s, d)]
           y == [proc[p] EXCEPT !.pc = "evidence", !.frozen = f]
<1>1. PhaseOK(proc[p]) /\ proc[p].pc = "roster"
  BY DEF TypeInv, ReadRoster
<1>2. Partial(f, Students, Assignments \cup {None})
  BY DEF Partial, Named, TypeInv, TypeOK, Figures
<1>3. proc' = [proc EXCEPT ![p] = y] /\ UNCHANGED <<stored, today, edits, mirrored>>
  BY DEF ReadRoster
<1> HIDE DEF f
<1>4. PhaseOK(y)
  BY <1>1, <1>2, ReadRosterOK
<1> HIDE DEF y
<1> QED BY <1>3, <1>4, ProcTyped DEF TypeInv, TypeOK, stored, Live

LEMMA ReadEvidenceStep ==
  ASSUME TypeInv, NEW p \in Procs, ReadEvidence(p)
  PROVE  TypeInv'
<1> DEFINE x == proc[p]
           f == [s \in DOMAIN x.frozen |-> Evaluated(x, s)]
           y == [x EXCEPT !.pc = "history", !.plan = f, !.sets = NoOne, !.frozen = NoOne]
<1>1. PhaseOK(x) /\ x.pc = "evidence"
  BY DEF TypeInv, ReadEvidence
<1>2. Partial(f, Students, Figures)
  BY <1>1, EvaluatedOK DEF Partial, PhaseOK, ExecutionOK
<1>3. proc' = [proc EXCEPT ![p] = y] /\ UNCHANGED <<stored, today, edits, mirrored>>
  BY DEF ReadEvidence
<1> HIDE DEF f
<1>4. PhaseOK(y)
  BY <1>1, <1>2, PlanOK DEF Recomputing
<1> HIDE DEF y
<1> QED BY <1>3, <1>4, ProcTyped DEF TypeInv, TypeOK, stored, Live

LEMMA WithStreakOK ==
  ASSUME TypeOK, NEW s \in Students, NEW d \in Days, NEW r \in Figures
  PROVE  WithStreak(s, d, r) \in Figures
<1> DEFINE n == Streak(Stored(History(s, d), d, r), d, EnrolledFrom[s])
<1>1. DOMAIN Stored(History(s, d), d, r) \subseteq Days
  BY DEF Stored, History, TypeOK, Partial
<1>2. n \in Nat
  BY <1>1, StreakNat
<1> HIDE DEF n
<1>3. [r EXCEPT !.streak = n] \in Figures
  BY <1>2 DEF Figures
<1> QED BY <1>3 DEF WithStreak, n

LEMMA ReadHistoryStep ==
  ASSUME TypeInv, NEW p \in Procs, ReadHistory(p)
  PROVE  TypeInv'
<1> DEFINE x == proc[p]
           f == [s \in DOMAIN x.plan |-> WithStreak(s, x.day, x.plan[s])]
           y == [x EXCEPT !.pc = "persist", !.plan = f]
<1>1. PhaseOK(x) /\ x.pc = "history"
  BY DEF TypeInv, ReadHistory
<1>2. Partial(f, Students, Figures)
  <2>1. DOMAIN x.plan \subseteq Students /\ x.day \in Days
    BY <1>1 DEF PhaseOK, ExecutionOK, Partial, Recomputing
  <2>2. \A s \in DOMAIN x.plan : x.plan[s] \in Figures
    BY <1>1 DEF PhaseOK, ExecutionOK, Partial
  <2>3. \A s \in DOMAIN x.plan : WithStreak(s, x.day, x.plan[s]) \in Figures
    BY <2>1, <2>2, WithStreakOK DEF TypeInv
  <2> QED BY <2>1, <2>3 DEF Partial
<1>3. proc' = [proc EXCEPT ![p] = y] /\ UNCHANGED <<stored, today, edits, mirrored>>
  BY DEF ReadHistory
<1> HIDE DEF f
<1>4. PhaseOK(y)
  BY <1>1, <1>2, PlanOK DEF Recomputing
<1> HIDE DEF y
<1> QED BY <1>3, <1>4, ProcTyped DEF TypeInv, TypeOK, stored, Live

LEMMA FindRowStep ==
  ASSUME TypeInv, NEW p \in Procs, NEW s \in Students, FindRow(p, s)
  PROVE  TypeInv'
<1> DEFINE x == proc[p]
           a == Named(s, x.day)
           y == [x EXCEPT !.pc = "upsert", !.at = s, !.seen = a]
<1>1. PhaseOK(x) /\ x.pc = "persist" /\ s \in DOMAIN x.plan
  BY DEF TypeInv, FindRow
<1>2. a \in Assignments \cup {None}
  BY DEF Named, TypeInv, TypeOK, Partial, Figures
<1>3. proc' = [proc EXCEPT ![p] = y] /\ UNCHANGED <<stored, today, edits, mirrored>>
  BY DEF FindRow
<1> HIDE DEF a
<1>4. PhaseOK(y)
  BY <1>1, <1>2, FindRowOK
<1> HIDE DEF y
<1> QED BY <1>3, <1>4, ProcTyped DEF TypeInv, TypeOK, stored, Live

LEMMA StoredOK ==
  ASSUME NEW rows, Partial(rows, Days, Figures), NEW d \in Days, NEW r \in Figures
  PROVE  Partial(Stored(rows, d, r), Days, Figures)
  BY DEF Partial, Stored

LEMMA UpsertRowStep ==
  ASSUME TypeInv, NEW p \in Procs, UpsertRow(p)
  PROVE  TypeInv'
<1> DEFINE x == proc[p]
           s == x.at
           id == ResolveFrozenField(x.seen, x.plan[s].asg)
           f == [t \in DOMAIN x.plan \ {s} |-> x.plan[t]]
           y == [x EXCEPT !.pc = "persist", !.at = None, !.seen = None, !.plan = f]
           r == [x.plan[s] EXCEPT !.asg = id]
<1>1. PhaseOK(x) /\ x.pc = "upsert"
  BY DEF TypeInv, UpsertRow
<1>2. s \in DOMAIN x.plan /\ s \in Students /\ x.day \in Days /\ x.plan[s] \in Figures
  BY <1>1 DEF PhaseOK, ExecutionOK, Partial, Recomputing
<1>3. id \in Assignments \cup {None}
  BY <1>1, <1>2 DEF ResolveFrozenField, PhaseOK, ExecutionOK, Figures
<1>4. Partial(f, Students, Figures)
  BY <1>1 DEF PhaseOK, ExecutionOK, Partial
<1>5. CASE id \notin Live \cup {None}
  <2>1. proc' = [proc EXCEPT ![p] = Idle] /\ UNCHANGED <<stored, today, edits, mirrored>>
    BY <1>5 DEF UpsertRow, stored
  <2> HIDE DEF id, f, y, r
  <2> QED BY <2>1, IdleOK, ProcTyped DEF TypeInv, TypeOK, stored, Live
<1>6. CASE id \in Live \cup {None}
  <2>1. /\ proc' = [proc EXCEPT ![p] = y]
        /\ row' = [row EXCEPT ![s] = Stored(row[s], x.day, r)]
        /\ newer' = Computed(x.day)
        /\ UNCHANGED <<asg, targeted, mirror, active, today, edits, mirrored>>
    BY <1>6 DEF UpsertRow
  <2>2. r \in Figures
    <3> HIDE DEF id
    <3> QED BY <1>2, <1>3 DEF Figures
  <2> HIDE DEF id, f, r
  <2>3. PhaseOK(y)
    BY <1>1, <1>4, PlanOK DEF Recomputing
  <2>4. Partial(Stored(row[s], x.day, r), Days, Figures)
    BY <1>2, <2>2, StoredOK DEF TypeInv, TypeOK
  <2>5. /\ row' = [t \in Students |-> row'[t]]
        /\ \A t \in Students : Partial(row'[t], Days, Figures)
    BY <2>1, <2>4, <1>2 DEF TypeInv, TypeOK
  <2>6. newer' \in SUBSET Live'
    BY <2>1 DEF Computed, TypeInv, TypeOK, Live
  <2> HIDE DEF y
  <2> QED BY <2>1, <2>3, <2>5, <2>6, ProcTyped DEF TypeInv, TypeOK
<1> QED BY <1>5, <1>6

LEMMA DayDoneStep ==
  ASSUME TypeInv, NEW p \in Procs, DayDone(p)
  PROVE  TypeInv'
<1>1. PhaseOK(proc[p])
  BY DEF TypeInv
<1>2. UNCHANGED <<stored, today, edits, mirrored>>
  BY DEF DayDone
<1>3. PICK y : PhaseOK(y) /\ proc' = [proc EXCEPT ![p] = y]
  <2>1. CASE proc[p].todo = {}
    BY <2>1, IdleOK DEF DayDone
  <2>2. CASE proc[p].todo # {}
    <3>1. proc[p].todo \in SUBSET Days
      BY <1>1 DEF PhaseOK, ExecutionOK
    <3> QED BY <2>2, <3>1, PlannedOK DEF DayDone, Recompute
  <2> QED BY <2>1, <2>2
<1> QED BY <1>2, <1>3, ProcTyped DEF TypeInv, TypeOK, stored, Live

-----------------------------------------------------------------------------
(* The callers keep them as well: the days they ask for are days. *)

LEMMA StaleDaysOK ==
  ASSUME TypeInv, NEW from, NEW to
  PROVE  StaleDays(from, to) \in SUBSET Days
<1>1. \A a \in newer : asg[a].day \in Days
  BY DEF TypeInv, TypeOK, Live, AssignmentRow
<1>2. \A s \in Students : DOMAIN row[s] \subseteq Days
  BY DEF TypeInv, TypeOK, Partial
<1> QED BY <1>1, <1>2 DEF StaleDays

LEMMA StartSyncStep ==
  ASSUME TypeInv, NEW p \in Procs, StartSync(p)
  PROVE  TypeInv'
<1> DEFINE y == [proc[p] EXCEPT !.pc = "mirror", !.jobDay = today]
<1>1. PhaseOK(proc[p]) /\ today \in Days
  BY DEF TypeInv, TypeOK
<1>2. PhaseOK(y)
  BY <1>1 DEF PhaseOK, ExecutionOK, Recomputing
<1>3. proc' = [proc EXCEPT ![p] = y] /\ UNCHANGED <<stored, today, edits, mirrored>>
  BY DEF StartSync
<1> HIDE DEF y
<1> QED BY <1>2, <1>3, ProcTyped DEF TypeInv, TypeOK, stored, Live

LEMMA MirrorStep ==
  ASSUME TypeInv, NEW p \in Procs, NEW s \in Students, NEW q \in Problems, NEW d \in Days,
         Mirror(p, s, q, d)
  PROVE  TypeInv'
<1> DEFINE days == proc[p].affected \cup {d}
           y == [proc[p] EXCEPT !.affected = days]
           done == mirror[s] \cup {<<q, d>>}
<1>1. PhaseOK(proc[p])
  BY DEF TypeInv
<1>2. days \in SUBSET Days
  BY <1>1 DEF PhaseOK, ExecutionOK
<1>3. done \in SUBSET (Problems \X Days)
  BY DEF TypeInv, TypeOK
<1>4. /\ proc' = [proc EXCEPT ![p] = y]
      /\ mirror' = [mirror EXCEPT ![s] = done]
      /\ mirrored' = mirrored + 1
      /\ UNCHANGED <<asg, targeted, newer, active, row, today, edits>>
  BY DEF Mirror
<1> HIDE DEF days, done
<1>5. PhaseOK(y)
  BY <1>1, <1>2 DEF PhaseOK, ExecutionOK, Recomputing
<1>6. mirror' \in [Students -> SUBSET (Problems \X Days)] /\ mirrored' \in Nat
  BY <1>3, <1>4 DEF TypeInv, TypeOK
<1> HIDE DEF y
<1> QED BY <1>4, <1>5, <1>6, ProcTyped DEF TypeInv, TypeOK, Live

(* A step that only plans a recompute, or plans none. *)
LEMMA RecomputeOK ==
  ASSUME TypeInv, NEW p \in Procs, NEW days \in SUBSET Days, days # {}, Recompute(p, days)
  PROVE  \E y : PhaseOK(y) /\ proc' = [proc EXCEPT ![p] = y]
  BY PlannedOK DEF Recompute

LEMMA PlanStep ==
  ASSUME TypeInv, NEW p \in Procs, NEW y, PhaseOK(y), proc' = [proc EXCEPT ![p] = y],
         UNCHANGED <<stored, today, edits, mirrored>>
  PROVE  TypeInv'
  BY ProcTyped DEF TypeInv, TypeOK, stored, Live

LEMMA ResolveDaysStep ==
  ASSUME TypeInv, NEW p \in Procs, ResolveDays(p)
  PROVE  TypeInv'
<1> DEFINE x == proc[p]
<1>1. PhaseOK(x) /\ x.pc = "mirror"
  BY DEF TypeInv, ResolveDays
<1>2. x.jobDay \in Days /\ x.affected \in SUBSET Days
  BY <1>1 DEF PhaseOK, ExecutionOK
<1>3. (UNION {AssignmentDaysAffectedBy(d) : d \in x.affected}) \cap (x.jobDay - Reach) .. x.jobDay
         \in SUBSET Days
  BY <1>2, LastDayNat DEF Days, AssignmentDaysAffectedBy
<1>4. DaysToRecompute(x) \in SUBSET Days /\ DaysToRecompute(x) # {}
  BY <1>2, <1>3, StaleDaysOK DEF DaysToRecompute
<1>5. PICK y : PhaseOK(y) /\ proc' = [proc EXCEPT ![p] = y]
  BY <1>4, RecomputeOK DEF ResolveDays
<1> QED BY <1>5, PlanStep DEF ResolveDays

LEMMA DayRangeOK ==
  ASSUME NEW d \in Days, NEW to \in Days, d <= to
  PROVE  DayRange(d, to) \in SUBSET Days /\ DayRange(d, to) # {}
  BY LastDayNat DEF Days, DayRange

LEMMA ReconcileOK ==
  ASSUME TypeInv, NEW p \in Procs, NEW d \in Days, ReconcileAssignmentDay(p, d)
  PROVE  \E y : PhaseOK(y) /\ proc' = [proc EXCEPT ![p] = y]
<1> DEFINE to == IF d > today THEN d ELSE today
<1>1. to \in Days /\ d <= to
  BY LastDayNat DEF TypeInv, TypeOK, Days
<1>2. \/ UNCHANGED proc
      \/ Recompute(p, DayRange(d, to))
  BY DEF ReconcileAssignmentDay
<1> HIDE DEF to
<1>3. CASE UNCHANGED proc
  <2>1. proc' = [proc EXCEPT ![p] = proc[p]]
    BY <1>3 DEF TypeInv, TypeOK
  <2> QED BY <2>1 DEF TypeInv
<1>4. CASE Recompute(p, DayRange(d, to))
  BY <1>1, <1>4, DayRangeOK, RecomputeOK
<1> QED BY <1>2, <1>3, <1>4

LEMMA RunStep ==
  ASSUME TypeInv, NEW p \in Procs,
         NightlyRollup(p) \/ Fail(p) \/ \E d \in Days : BackfillDay(p, d)
  PROVE  TypeInv'
<1>1. UNCHANGED <<stored, today, edits, mirrored>>
  BY DEF NightlyRollup, Fail, BackfillDay
<1>2. PICK y : PhaseOK(y) /\ proc' = [proc EXCEPT ![p] = y]
  <2>1. CASE NightlyRollup(p)
    BY <2>1, RecomputeOK DEF NightlyRollup
  <2>2. CASE Fail(p)
    BY <2>2, IdleOK DEF Fail
  <2>3. ASSUME NEW d \in Days, BackfillDay(p, d)
        PROVE  \E y : PhaseOK(y) /\ proc' = [proc EXCEPT ![p] = y]
    <3>1. today \in Days
      BY DEF TypeInv, TypeOK
    <3> QED BY <2>3, <3>1, DayRangeOK, RecomputeOK DEF BackfillDay
  <2> QED BY <2>1, <2>2, <2>3
<1> QED BY <1>1, <1>2, PlanStep

-----------------------------------------------------------------------------
(* Edits of assignments. *)

LEMMA EditNat ==
  ASSUME TypeInv, Edit
  PROVE  edits' \in Nat
  BY DEF TypeInv, TypeOK, Edit

(* The assignment rows after a write of one of them. *)
LEMMA AssignmentWritten ==
  ASSUME TypeInv, NEW a \in Assignments, NEW r \in AssignmentRow, r.day # 0,
         asg' = [asg EXCEPT ![a] = r], newer' = newer \cup {a}
  PROVE  asg' \in [Assignments -> AssignmentRow] /\ newer' \in SUBSET Live'
  BY DEF TypeInv, TypeOK, Live

LEMMA CreateStep ==
  ASSUME TypeInv, NEW p \in Procs, NEW a \in Assignments, NEW d \in Days,
         NEW scope \in Scopes, NEW problems \in SUBSET Problems,
         Create(p, a, d, scope, problems)
  PROVE  TypeInv'
<1> DEFINE r == [day |-> d, scope |-> scope, problems |-> problems]
<1>1. r \in AssignmentRow /\ r.day # 0
  BY LastDayNat DEF AssignmentRow, Days
<1>2. /\ asg' = [asg EXCEPT ![a] = r]
      /\ newer' = newer \cup {a}
      /\ targeted' = [targeted EXCEPT ![a] = {scope}]
      /\ UNCHANGED <<mirror, active, row, today, mirrored>>
  BY DEF Create
<1> HIDE DEF r
<1>3. asg' \in [Assignments -> AssignmentRow] /\ newer' \in SUBSET Live'
  BY <1>1, <1>2, AssignmentWritten
<1>4. PICK y : PhaseOK(y) /\ proc' = [proc EXCEPT ![p] = y]
  BY ReconcileOK DEF Create
<1>5. targeted' \in [Assignments -> SUBSET Scopes]
  BY <1>2 DEF TypeInv, TypeOK
<1>6. edits' \in Nat
  BY EditNat DEF Create
<1> QED BY <1>2, <1>3, <1>4, <1>5, <1>6, ProcTyped DEF TypeInv, TypeOK

LEMMA UpdateStep ==
  ASSUME TypeInv, NEW p \in Procs, NEW a \in Assignments, NEW problems \in SUBSET Problems,
         Update(p, a, problems)
  PROVE  TypeInv'
<1> DEFINE r == [asg[a] EXCEPT !.problems = problems]
<1>1. r \in AssignmentRow /\ r.day # 0 /\ asg[a].day \in Days
  BY DEF AssignmentRow, Update, Live, TypeInv, TypeOK
<1>2. /\ asg' = [asg EXCEPT ![a] = r]
      /\ newer' = newer \cup {a}
      /\ UNCHANGED <<targeted, mirror, active, row, today, mirrored>>
  BY DEF Update
<1> HIDE DEF r
<1>3. asg' \in [Assignments -> AssignmentRow] /\ newer' \in SUBSET Live'
  BY <1>1, <1>2, AssignmentWritten
<1>4. PICK y : PhaseOK(y) /\ proc' = [proc EXCEPT ![p] = y]
  BY <1>1, ReconcileOK DEF Update
<1>5. edits' \in Nat
  BY EditNat DEF Update
<1> QED BY <1>2, <1>3, <1>4, <1>5, ProcTyped DEF TypeInv, TypeOK

LEMMA ChangeTargetStep ==
  ASSUME TypeInv, NEW p \in Procs, NEW a \in Assignments, NEW scope \in Scopes,
         ChangeTarget(p, a, scope)
  PROVE  TypeInv'
<1> DEFINE r == [asg[a] EXCEPT !.scope = scope]
<1>1. r \in AssignmentRow /\ r.day # 0
  BY DEF AssignmentRow, ChangeTarget, Live, TypeInv, TypeOK
<1>2. /\ asg' = [asg EXCEPT ![a] = r]
      /\ newer' = newer \cup {a}
      /\ UNCHANGED <<mirror, active, row, today, proc, mirrored>>
  BY DEF ChangeTarget
<1> HIDE DEF r
<1>3. asg' \in [Assignments -> AssignmentRow] /\ newer' \in SUBSET Live'
  BY <1>1, <1>2, AssignmentWritten
<1>4. targeted' \in [Assignments -> SUBSET Scopes]
  BY DEF ChangeTarget, TypeInv, TypeOK
<1>5. edits' \in Nat
  BY EditNat DEF ChangeTarget
<1> QED BY <1>2, <1>3, <1>4, <1>5 DEF TypeInv, TypeOK

(* A student's rows once assignment a is gone (onDelete: SetNull).          *)
Unnamed(rows, a) ==
    [d \in DOMAIN rows |->
       IF rows[d].asg = a THEN [rows[d] EXCEPT !.asg = None] ELSE rows[d]]

LEMMA UnnamedOK ==
  ASSUME NEW rows, Partial(rows, Days, Figures), NEW a
  PROVE  Partial(Unnamed(rows, a), Days, Figures)
<1>1. \A r \in Figures : [r EXCEPT !.asg = None] \in Figures
  BY DEF Figures
<1> QED BY <1>1 DEF Partial, Unnamed

LEMMA RemoveStep ==
  ASSUME TypeInv, NEW p \in Procs, NEW a \in Assignments, Remove(p, a)
  PROVE  TypeInv'
<1>1. NoAssignment \in AssignmentRow /\ asg[a].day \in Days
  BY DEF NoAssignment, AssignmentRow, Remove, Live, TypeInv, TypeOK
<1>2. /\ asg' = [asg EXCEPT ![a] = NoAssignment]
      /\ newer' = newer \ {a}
      /\ UNCHANGED <<targeted, mirror, active, today, mirrored>>
      /\ row' = [s \in Students |->
                   [d \in DOMAIN row[s] |->
                      IF row[s][d].asg = a THEN [row[s][d] EXCEPT !.asg = None]
                                           ELSE row[s][d]]]
  BY DEF Remove
<1>3. asg' \in [Assignments -> AssignmentRow] /\ newer' \in SUBSET Live'
  BY <1>1, <1>2 DEF TypeInv, TypeOK, Live
<1>4. row' = [s \in Students |-> row'[s]]
  BY <1>2
<1>7. ASSUME NEW s \in Students PROVE Partial(row'[s], Days, Figures)
  <2>1. Partial(row[s], Days, Figures)
    BY DEF TypeInv, TypeOK
  <2>2. row'[s] = Unnamed(row[s], a)
    BY <1>2 DEF Unnamed
  <2> QED BY <2>1, <2>2, UnnamedOK
<1>5. PICK y : PhaseOK(y) /\ proc' = [proc EXCEPT ![p] = y]
  BY <1>1, RecomputeOK DEF Remove
<1>6. edits' \in Nat
  BY EditNat DEF Remove
<1> QED BY <1>2, <1>3, <1>4, <1>5, <1>6, <1>7, ProcTyped DEF TypeInv, TypeOK

LEMMA OtherStep ==
  ASSUME TypeInv, (\E s \in Students : SetActive(s)) \/ Midnight \/ UNCHANGED vars
  PROVE  TypeInv'
<1>1. ASSUME NEW s \in Students, SetActive(s) PROVE TypeInv'
  <2>1. active' \in SUBSET Students
    BY <1>1 DEF SetActive, TypeInv, TypeOK
  <2> QED BY <1>1, <2>1 DEF SetActive, TypeInv, TypeOK, Live
<1>2. CASE Midnight
  <2>1. today' \in Days
    BY <1>2, LastDayNat DEF Midnight, TypeInv, TypeOK, Days
  <2> QED BY <1>2, <2>1 DEF Midnight, stored, TypeInv, TypeOK, Live
<1>3. CASE UNCHANGED vars
  BY <1>3 DEF vars, TypeInv, TypeOK, Live
<1> QED BY <1>1, <1>2, <1>3

LEMMA TypeStep == TypeInv /\ [Next]_vars => TypeInv'
<1> SUFFICES ASSUME TypeInv, [Next]_vars PROVE TypeInv'
  OBVIOUS
<1>1. ASSUME NEW p \in Procs, RecomputeStep(p) PROVE TypeInv'
  BY <1>1, ReadAssignmentsStep, ReadRosterStep, ReadEvidenceStep, ReadHistoryStep,
     FindRowStep, UpsertRowStep, DayDoneStep DEF RecomputeStep
<1>2. ASSUME NEW p \in Procs, SyncStep(p) PROVE TypeInv'
  BY <1>2, StartSyncStep, MirrorStep, ResolveDaysStep DEF SyncStep
<1>3. ASSUME NEW p \in Procs, EditStep(p) PROVE TypeInv'
  BY <1>3, CreateStep, UpdateStep, ChangeTargetStep, RemoveStep DEF EditStep
<1>4. ASSUME NEW p \in Procs,
             NightlyRollup(p) \/ Fail(p) \/ \E d \in Days : BackfillDay(p, d)
      PROVE  TypeInv'
  BY <1>4, RunStep
<1>5. CASE (\E s \in Students : SetActive(s)) \/ Midnight \/ UNCHANGED vars
  BY <1>5, OtherStep
<1> QED BY <1>1, <1>2, <1>3, <1>4, <1>5 DEF Next

LEMMA Typed == Spec => []TypeInv
<1>1. Init => TypeInv
  <2> SUFFICES ASSUME Init PROVE TypeInv
    OBVIOUS
  <2>1. NoAssignment \in AssignmentRow /\ 1 \in Days
    BY LastDayNat DEF NoAssignment, AssignmentRow, Days
  <2>2. Partial(NoOne, Days, Figures)
    BY DEF Partial, NoOne
  <2>3. asg \in [Assignments -> AssignmentRow] /\ newer \in SUBSET Live
    BY <2>1 DEF Init
  <2>4. row = [s \in Students |-> row[s]] /\ \A s \in Students : Partial(row[s], Days, Figures)
    BY <2>2 DEF Init
  <2>5. proc = [p \in Procs |-> proc[p]] /\ \A p \in Procs : PhaseOK(proc[p])
    BY IdleOK DEF Init
  <2> QED BY <2>1, <2>3, <2>4, <2>5 DEF Init, TypeInv, TypeOK, PhaseOK
<1> QED BY <1>1, TypeStep, PTL DEF Spec

(* Typing for every instance: the rows of all students and days, and what   *)
(* every recompute under way has read and planned.                          *)
THEOREM Typing == Spec => []TypeOK
<1>1. TypeInv => TypeOK
  BY DEF TypeInv
<1> QED BY <1>1, Typed, PTL

-----------------------------------------------------------------------------
(* Evidence.  A figure once planned or stored stays supported, because the  *)
(* mirror only grows and no later step touches more than its assignment and *)
(* its streak.                                                              *)
Credit(done, d, r) ==
    /\ r.inWindow \subseteq r.solved
    /\ r.solved \subseteq r.assigned
    /\ \A q \in r.solved : \E x \in done : x[1] = q
    /\ \A q \in r.inWindow : \E x \in done : x[1] = q /\ d - Lookback <= x[2] /\ x[2] <= d

Planning == {"history", "persist", "upsert"}

PlanCredit(m, x) ==
    x.pc \in Planning => \A s \in DOMAIN x.plan : Credit(m[s], x.day, x.plan[s])

CreditInv ==
    /\ \A s \in Students : \A d \in DOMAIN row[s] : Credit(mirror[s], d, row[s][d])
    /\ \A p \in Procs : PlanCredit(mirror, proc[p])

LEMMA CreditGrows ==
  ASSUME NEW done, NEW more, done \subseteq more, NEW d, NEW r, Credit(done, d, r)
  PROVE  Credit(more, d, r)
  BY DEF Credit

LEMMA CreditKept ==
  ASSUME NEW done, NEW d, NEW r \in Figures, Credit(done, d, r), NEW a, NEW n
  PROVE  Credit(done, d, [r EXCEPT !.asg = a]) /\ Credit(done, d, [r EXCEPT !.streak = n])
  BY DEF Credit, Figures

LEMMA EvaluatedCredit ==
  ASSUME TypeInv, NEW x, PhaseOK(x), x.pc = "evidence", NEW s \in DOMAIN x.frozen
  PROVE  Credit(mirror[s], x.day, Evaluated(x, s))
<1> DEFINE assigned == IF Faced(x, s) = None THEN {} ELSE x.sets[Faced(x, s)].problems
           solved == Solved(mirror[s], assigned)
           inWindow == SolvedInWindow(mirror[s], assigned, x.day)
<1>1. s \in Students /\ x.day \in Days
  BY DEF PhaseOK, ExecutionOK, Partial, Recomputing
<1>2. mirror[s] \in SUBSET (Problems \X Days)
  BY <1>1 DEF TypeInv, TypeOK
<1> HIDE DEF assigned
<1>3. ASSUME NEW q \in inWindow
      PROVE  \E z \in mirror[s] : z[1] = q /\ x.day - Lookback <= z[2] /\ z[2] <= x.day
  <2>1. PICK e \in AssignmentWindow(x.day) : <<q, e>> \in mirror[s]
    BY <1>3 DEF SolvedInWindow
  <2>2. x.day - Lookback <= e /\ e <= x.day
    BY <1>1, <2>1, LastDayNat DEF AssignmentWindow, Days
  <2> QED BY <2>1, <2>2
<1>4. inWindow \subseteq solved /\ solved \subseteq assigned
  <2>1. ASSUME NEW q \in inWindow PROVE q \in solved
    BY <1>3, <2>1 DEF Solved, SolvedInWindow
  <2> QED BY <2>1 DEF Solved
<1>5. \A q \in solved : \E z \in mirror[s] : z[1] = q
  BY DEF Solved
<1> HIDE DEF solved, inWindow
<1>6. /\ Evaluated(x, s).assigned = assigned
      /\ Evaluated(x, s).solved = solved
      /\ Evaluated(x, s).inWindow = inWindow
  BY DEF Evaluated, assigned, solved, inWindow
<1> QED BY <1>3, <1>4, <1>5, <1>6 DEF Credit

(* Every step but those below leaves the rows alone and plans nothing.      *)
LEMMA NothingPlanned ==
  ASSUME TypeInv, CreditInv, NEW p \in Procs,
         proc'[p].pc \notin Planning \/ proc'[p] = proc[p],
         \A q \in Procs \ {p} : proc'[q] = proc[q],
         UNCHANGED <<mirror, row>>
  PROVE  CreditInv'
<1>1. \A q \in Procs : PlanCredit(mirror, proc'[q])
  BY DEF CreditInv, PlanCredit
<1> QED BY <1>1 DEF CreditInv

(* A step that revises the plan of one execution.                           *)
LEMMA PlanRevised ==
  ASSUME TypeInv, CreditInv, NEW p \in Procs, NEW y, PlanCredit(mirror, y),
         proc' = [proc EXCEPT ![p] = y], UNCHANGED <<mirror, row>>
  PROVE  CreditInv'
<1>1. \A q \in Procs : PlanCredit(mirror, proc'[q])
  BY DEF CreditInv, TypeInv, TypeOK
<1> QED BY <1>1 DEF CreditInv

LEMMA ReadEvidenceCredit ==
  ASSUME TypeInv, CreditInv, NEW p \in Procs, ReadEvidence(p)
  PROVE  CreditInv'
<1> DEFINE x == proc[p]
           f == [s \in DOMAIN x.frozen |-> Evaluated(x, s)]
           y == [x EXCEPT !.pc = "history", !.plan = f, !.sets = NoOne, !.frozen = NoOne]
<1>1. PhaseOK(x) /\ x.pc = "evidence"
  BY DEF TypeInv, ReadEvidence
<1>2. \A s \in DOMAIN f : Credit(mirror[s], x.day, f[s])
  BY <1>1, EvaluatedCredit
<1>3. proc' = [proc EXCEPT ![p] = y] /\ UNCHANGED <<mirror, row>>
  BY DEF ReadEvidence, stored
<1> HIDE DEF f
<1>4. y.plan = f /\ y.day = x.day
  BY <1>1 DEF PhaseOK, ExecutionOK
<1>5. PlanCredit(mirror, y)
  BY <1>2, <1>4 DEF PlanCredit
<1> HIDE DEF y
<1> QED BY <1>3, <1>5, PlanRevised

LEMMA ReadHistoryCredit ==
  ASSUME TypeInv, CreditInv, NEW p \in Procs, ReadHistory(p)
  PROVE  CreditInv'
<1> DEFINE x == proc[p]
           f == [s \in DOMAIN x.plan |-> WithStreak(s, x.day, x.plan[s])]
           y == [x EXCEPT !.pc = "persist", !.plan = f]
<1>1. PhaseOK(x) /\ x.pc = "history" /\ PlanCredit(mirror, x)
  BY DEF TypeInv, CreditInv, ReadHistory
<1>2. ASSUME NEW s \in DOMAIN f PROVE Credit(mirror[s], x.day, f[s])
  <2>1. Credit(mirror[s], x.day, x.plan[s])
    BY <1>1 DEF PlanCredit, Planning
  <2>2. x.plan[s] \in Figures
    BY <1>1 DEF PhaseOK, ExecutionOK, Partial
  <2> QED BY <2>1, <2>2, CreditKept DEF WithStreak
<1>3. proc' = [proc EXCEPT ![p] = y] /\ UNCHANGED <<mirror, row>>
  BY DEF ReadHistory, stored
<1> HIDE DEF f
<1>4. y.plan = f /\ y.day = x.day
  BY <1>1 DEF PhaseOK, ExecutionOK
<1>5. PlanCredit(mirror, y)
  BY <1>2, <1>4 DEF PlanCredit
<1> HIDE DEF y
<1> QED BY <1>3, <1>5, PlanRevised

LEMMA FindRowCredit ==
  ASSUME TypeInv, CreditInv, NEW p \in Procs, NEW s \in Students, FindRow(p, s)
  PROVE  CreditInv'
<1> DEFINE x == proc[p]
           a == Named(s, x.day)
           y == [x EXCEPT !.pc = "upsert", !.at = s, !.seen = a]
<1>1. PhaseOK(x) /\ x.pc = "persist" /\ PlanCredit(mirror, x)
  BY DEF TypeInv, CreditInv, FindRow
<1>2. proc' = [proc EXCEPT ![p] = y] /\ UNCHANGED <<mirror, row>>
  BY DEF FindRow, stored
<1> HIDE DEF a
<1>3. y.plan = x.plan /\ y.day = x.day
  BY <1>1 DEF PhaseOK, ExecutionOK
<1>4. PlanCredit(mirror, y)
  BY <1>1, <1>3 DEF PlanCredit, Planning
<1> HIDE DEF y
<1> QED BY <1>2, <1>4, PlanRevised

LEMMA UpsertRowCredit ==
  ASSUME TypeInv, CreditInv, NEW p \in Procs, UpsertRow(p)
  PROVE  CreditInv'
<1> DEFINE x == proc[p]
           s == x.at
           id == ResolveFrozenField(x.seen, x.plan[s].asg)
           f == [t \in DOMAIN x.plan \ {s} |-> x.plan[t]]
           y == [x EXCEPT !.pc = "persist", !.at = None, !.seen = None, !.plan = f]
           r == [x.plan[s] EXCEPT !.asg = id]
<1>1. PhaseOK(x) /\ x.pc = "upsert" /\ PlanCredit(mirror, x)
  BY DEF TypeInv, CreditInv, UpsertRow
<1>2. s \in DOMAIN x.plan /\ s \in Students /\ x.plan[s] \in Figures
  BY <1>1 DEF PhaseOK, ExecutionOK, Partial, Recomputing
<1>3. CASE id \notin Live \cup {None}
  <2>1. proc' = [proc EXCEPT ![p] = Idle] /\ UNCHANGED <<mirror, row>>
    BY <1>3 DEF UpsertRow
  <2>2. PlanCredit(mirror, Idle)
    BY DEF PlanCredit, Idle, Planning
  <2> HIDE DEF id, f, y, r
  <2> QED BY <2>1, <2>2, PlanRevised
<1>4. CASE id \in Live \cup {None}
  <2>1. /\ proc' = [proc EXCEPT ![p] = y]
        /\ row' = [row EXCEPT ![s] = Stored(row[s], x.day, r)]
        /\ UNCHANGED mirror
    BY <1>4 DEF UpsertRow
  <2> HIDE DEF id
  <2>2. Credit(mirror[s], x.day, r)
    BY <1>1, <1>2, CreditKept DEF PlanCredit, Planning
  <2>3. \A t \in DOMAIN f : Credit(mirror[t], x.day, f[t])
    BY <1>1 DEF PlanCredit, Planning
  <2> HIDE DEF f, r
  <2>4. y.plan = f /\ y.day = x.day
    BY <1>1 DEF PhaseOK, ExecutionOK
  <2>5. PlanCredit(mirror, y)
    BY <2>3, <2>4 DEF PlanCredit
  <2> HIDE DEF y
  <2>6. \A q \in Procs : PlanCredit(mirror, proc'[q])
    BY <2>1, <2>5 DEF CreditInv, TypeInv, TypeOK
  <2>7. ASSUME NEW t \in Students, NEW d \in DOMAIN row'[t]
        PROVE  Credit(mirror[t], d, row'[t][d])
    <3>1. CASE t = s /\ d = x.day
      BY <1>2, <2>1, <2>2, <2>7, <3>1 DEF TypeInv, TypeOK, Stored
    <3>2. CASE t # s \/ d # x.day
      <4>1. d \in DOMAIN row[t] /\ row'[t][d] = row[t][d]
        BY <1>2, <2>1, <2>7, <3>2 DEF TypeInv, TypeOK, Stored
      <4> QED BY <4>1 DEF CreditInv
    <3> QED BY <3>1, <3>2
  <2> QED BY <2>1, <2>6, <2>7 DEF CreditInv
<1> QED BY <1>3, <1>4

LEMMA MirrorCredit ==
  ASSUME TypeInv, CreditInv, NEW p \in Procs, NEW s \in Students, NEW q \in Problems,
         NEW d \in Days, Mirror(p, s, q, d)
  PROVE  CreditInv'
<1> DEFINE y == [proc[p] EXCEPT !.affected = @ \cup {d}]
<1>1. \A t \in Students : mirror[t] \subseteq mirror'[t]
  BY DEF Mirror, TypeInv, TypeOK
<1>2. proc' = [proc EXCEPT ![p] = y] /\ UNCHANGED row
  BY DEF Mirror
<1>3. PhaseOK(proc[p]) /\ y.pc \notin Planning
  BY DEF Mirror, TypeInv, PhaseOK, ExecutionOK, Planning
<1> HIDE DEF y
<1>4. ASSUME NEW o \in Procs PROVE PlanCredit(mirror', proc'[o])
  <2>1. CASE o = p
    BY <1>2, <1>3, <2>1 DEF PlanCredit, TypeInv, TypeOK
  <2>2. CASE o # p
    <3>1. proc'[o] = proc[o]
      BY <1>2, <2>2 DEF TypeInv, TypeOK
    <3>2. DOMAIN proc[o].plan \subseteq Students
      BY DEF TypeInv, PhaseOK, ExecutionOK, Partial
    <3> QED BY <1>1, <3>1, <3>2, CreditGrows DEF CreditInv, PlanCredit
  <2> QED BY <2>1, <2>2
<1>5. \A t \in Students : \A e \in DOMAIN row[t] : Credit(mirror'[t], e, row[t][e])
  BY <1>1, CreditGrows DEF CreditInv
<1> QED BY <1>2, <1>4, <1>5 DEF CreditInv

LEMMA RemoveCredit ==
  ASSUME TypeInv, CreditInv, NEW p \in Procs, NEW a \in Assignments, Remove(p, a)
  PROVE  CreditInv'
<1>1. UNCHANGED mirror /\ \A s \in Students : row'[s] = Unnamed(row[s], a)
  BY DEF Remove, Unnamed
<1>2. \A q \in Procs : PlanCredit(mirror, proc'[q])
  <2>1. PlanCredit(mirror, [Idle EXCEPT !.pc = "next", !.todo = {asg[a].day}])
    BY DEF PlanCredit, Idle, Planning
  <2>2. proc' = [proc EXCEPT ![p] = [Idle EXCEPT !.pc = "next", !.todo = {asg[a].day}]]
    BY DEF Remove, Recompute
  <2> QED BY <2>1, <2>2 DEF CreditInv, TypeInv, TypeOK
<1>3. ASSUME NEW s \in Students, NEW d \in DOMAIN row'[s]
      PROVE  Credit(mirror[s], d, row'[s][d])
  <2>1. d \in DOMAIN row[s] /\ row[s][d] \in Figures /\ Credit(mirror[s], d, row[s][d])
    BY <1>1, <1>3 DEF Unnamed, CreditInv, TypeInv, TypeOK, Partial
  <2>2. Credit(mirror[s], d, [row[s][d] EXCEPT !.asg = None])
    BY <2>1, CreditKept
  <2> QED BY <1>1, <2>1, <2>2 DEF Unnamed
<1> QED BY <1>1, <1>2, <1>3 DEF CreditInv

(* The steps that begin or end an execution, or leave all of them alone.    *)
Waiting == {"idle", "mirror", "next"}
Elsewhere(p) == \A q \in Procs \ {p} : proc'[q] = proc[q]
Restarts(p) == Elsewhere(p) /\ (proc'[p].pc \in Waiting \/ proc'[p] = proc[p])

LEMMA RecomputeRestarts ==
  ASSUME TypeInv, NEW p \in Procs, NEW days, Recompute(p, days) \/ UNCHANGED proc
  PROVE  Restarts(p)
<1>1. CASE UNCHANGED proc
  BY <1>1 DEF Restarts, Elsewhere
<1>2. CASE Recompute(p, days)
  BY <1>2 DEF Recompute, Restarts, Elsewhere, Waiting, Idle, TypeInv, TypeOK
<1> QED BY <1>1, <1>2

LEMMA IdleRestarts ==
  ASSUME TypeInv, NEW p \in Procs, proc' = [proc EXCEPT ![p] = Idle]
  PROVE  Restarts(p)
  BY DEF Restarts, Elsewhere, Waiting, Idle, TypeInv, TypeOK

LEMMA StartSyncRestarts ==
  ASSUME TypeInv, NEW p \in Procs, StartSync(p)
  PROVE  Restarts(p)
<1>1. ExecutionOK(proc[p])
  BY DEF TypeInv, TypeOK
<1>2. proc'[p].pc = "mirror"
  BY <1>1 DEF StartSync, ExecutionOK, TypeInv, TypeOK
<1>3. Elsewhere(p)
  BY DEF StartSync, Elsewhere, TypeInv, TypeOK
<1> QED BY <1>2, <1>3 DEF Restarts, Waiting

LEMMA RunRestarts ==
  ASSUME TypeInv, NEW p \in Procs,
         \/ DayDone(p) \/ StartSync(p) \/ ResolveDays(p) \/ NightlyRollup(p) \/ Fail(p)
         \/ \E d \in Days : BackfillDay(p, d)
  PROVE  Restarts(p) /\ UNCHANGED <<mirror, row, asg, targeted>>
<1>1. UNCHANGED <<mirror, row, asg, targeted>>
  BY DEF DayDone, StartSync, ResolveDays, NightlyRollup, Fail, BackfillDay, stored
<1>2. CASE DayDone(p)
  BY <1>1, <1>2, IdleRestarts, RecomputeRestarts DEF DayDone
<1>3. CASE ResolveDays(p) \/ NightlyRollup(p) \/ Fail(p) \/ \E d \in Days : BackfillDay(p, d)
  BY <1>1, <1>3, IdleRestarts, RecomputeRestarts DEF ResolveDays, NightlyRollup, Fail, BackfillDay
<1> QED BY <1>1, <1>2, <1>3, StartSyncRestarts

LEMMA EditRestarts ==
  ASSUME TypeInv, NEW p \in Procs, NEW a \in Assignments, NEW d, NEW scope, NEW problems,
         \/ Create(p, a, d, scope, problems) \/ Update(p, a, problems)
         \/ ChangeTarget(p, a, scope)
  PROVE  Restarts(p) /\ UNCHANGED <<mirror, row>>
<1>1. UNCHANGED <<mirror, row>>
  BY DEF Create, Update, ChangeTarget
<1>2. ASSUME NEW e, ReconcileAssignmentDay(p, e) PROVE Restarts(p)
  BY <1>2, RecomputeRestarts DEF ReconcileAssignmentDay
<1>3. CASE ChangeTarget(p, a, scope)
  BY <1>3, RecomputeRestarts DEF ChangeTarget
<1>4. CASE Create(p, a, d, scope, problems) \/ Update(p, a, problems)
  BY <1>2, <1>4 DEF Create, Update
<1> QED BY <1>1, <1>3, <1>4

LEMMA ReadingPlansNothing ==
  ASSUME TypeInv, NEW p \in Procs, ReadAssignments(p) \/ ReadRoster(p)
  PROVE  Elsewhere(p) /\ proc'[p].pc \notin Planning /\ UNCHANGED <<mirror, row>>
<1>1. UNCHANGED <<mirror, row>> /\ ExecutionOK(proc[p])
  BY DEF ReadAssignments, ReadRoster, stored, TypeInv, TypeOK
<1>2. CASE ReadAssignments(p)
  <2>1. proc'[p].pc = "roster"
    BY <1>1, <1>2 DEF ReadAssignments, ExecutionOK, TypeInv, TypeOK
  <2>2. Elsewhere(p)
    BY <1>2 DEF ReadAssignments, Elsewhere, TypeInv, TypeOK
  <2> QED BY <1>1, <2>1, <2>2 DEF Planning
<1>3. CASE ReadRoster(p)
  <2>1. proc'[p].pc = "evidence"
    BY <1>1, <1>3 DEF ReadRoster, ExecutionOK, TypeInv, TypeOK
  <2>2. Elsewhere(p)
    BY <1>3 DEF ReadRoster, Elsewhere, TypeInv, TypeOK
  <2> QED BY <1>1, <2>1, <2>2 DEF Planning
<1> QED BY <1>2, <1>3

LEMMA CreditStep == TypeInv /\ CreditInv /\ [Next]_vars => CreditInv'
<1> SUFFICES ASSUME TypeInv, CreditInv, [Next]_vars PROVE CreditInv'
  OBVIOUS
<1>1. ASSUME NEW p \in Procs, Restarts(p), UNCHANGED <<mirror, row>> PROVE CreditInv'
  BY <1>1, NothingPlanned DEF Restarts, Elsewhere, Waiting, Planning
<1>2. ASSUME NEW p \in Procs, RecomputeStep(p) PROVE CreditInv'
  <2>1. CASE ReadAssignments(p) \/ ReadRoster(p)
    BY <2>1, ReadingPlansNothing, NothingPlanned DEF Elsewhere
  <2> QED BY <1>1, <1>2, <2>1, RunRestarts, ReadEvidenceCredit, ReadHistoryCredit,
             FindRowCredit, UpsertRowCredit DEF RecomputeStep
<1>3. ASSUME NEW p \in Procs, SyncStep(p) PROVE CreditInv'
  BY <1>1, <1>3, RunRestarts, MirrorCredit DEF SyncStep
<1>4. ASSUME NEW p \in Procs, EditStep(p) PROVE CreditInv'
  BY <1>1, <1>4, EditRestarts, RemoveCredit DEF EditStep
<1>5. ASSUME NEW p \in Procs,
             NightlyRollup(p) \/ Fail(p) \/ \E d \in Days : BackfillDay(p, d)
      PROVE  CreditInv'
  BY <1>1, <1>5, RunRestarts
<1>6. CASE (\E s \in Students : SetActive(s)) \/ Midnight \/ UNCHANGED vars
  <2>1. UNCHANGED <<mirror, row, proc>>
    BY <1>6 DEF SetActive, Midnight, stored, vars
  <2> QED BY <2>1 DEF CreditInv
<1> QED BY <1>2, <1>3, <1>4, <1>5, <1>6 DEF Next

(* Every credit of every row is backed by the mirror and lies within the    *)
(* assigned problems and the window, for any number of recomputes and edits *)
(* interleaved query by query (calculateAssignmentCompletion).              *)
THEOREM EvidencedCredit == Spec => []CreditIsEvidenced
<1>1. Init => CreditInv
  BY DEF Init, CreditInv, PlanCredit, Idle, Planning, NoOne
<1>2. CreditInv => CreditIsEvidenced
  BY DEF CreditInv, Credit, CreditIsEvidenced
<1> QED BY <1>1, <1>2, CreditStep, Typed, PTL DEF Spec

-----------------------------------------------------------------------------
(* Audiences.  What an execution has read of the assignments can be out of  *)
(* date, but an audience once targeted stays on record, so that whatever it *)
(* read or planned was aimed at the student at some time.                   *)
Aimed(t, s, a) == a # None => \E scope \in t[a] : ScopeApplies(scope, Home[s])

ReadAimed(t, x) ==
    /\ x.pc \in {"roster", "evidence"} =>
         \A a \in DOMAIN x.sets : x.sets[a].scope \in t[a]
    /\ x.pc = "evidence" => \A s \in DOMAIN x.frozen : Aimed(t, s, x.frozen[s])
    /\ x.pc \in Planning => \A s \in DOMAIN x.plan : Aimed(t, s, x.plan[s].asg)
    /\ x.pc = "upsert" => Aimed(t, x.at, x.seen)

AudienceInv ==
    /\ \A a \in Live : asg[a].scope \in targeted[a]
    /\ \A s \in Students : \A d \in DOMAIN row[s] : Aimed(targeted, s, row[s][d].asg)
    /\ \A p \in Procs : ReadAimed(targeted, proc[p])

LEMMA AimedGrows ==
  ASSUME NEW t, NEW u, \A a \in Assignments : t[a] \subseteq u[a],
         NEW a \in Assignments \cup {None}, NEW s, Aimed(t, s, a)
  PROVE  Aimed(u, s, a)
  BY DEF Aimed

LEMMA ReadAimedGrows ==
  ASSUME NEW t, NEW u, \A a \in Assignments : t[a] \subseteq u[a],
         NEW x, PhaseOK(x), ReadAimed(t, x)
  PROVE  ReadAimed(u, x)
<1>1. DOMAIN x.sets \subseteq Assignments /\ x.seen \in Assignments \cup {None}
  BY DEF PhaseOK, ExecutionOK, Partial
<1>2. \A s \in DOMAIN x.frozen : x.frozen[s] \in Assignments \cup {None}
  BY DEF PhaseOK, ExecutionOK, Partial
<1>3. \A s \in DOMAIN x.plan : x.plan[s].asg \in Assignments \cup {None}
  BY DEF PhaseOK, ExecutionOK, Partial, Figures
<1> QED BY <1>1, <1>2, <1>3, AimedGrows DEF ReadAimed

(* A step that changes one execution only.                                  *)
LEMMA OneReads ==
  ASSUME TypeInv, AudienceInv, NEW p \in Procs, NEW y, ReadAimed(targeted, y),
         proc' = [proc EXCEPT ![p] = y], UNCHANGED <<asg, targeted, row>>
  PROVE  AudienceInv'
<1>1. \A q \in Procs : ReadAimed(targeted, proc'[q])
  BY DEF AudienceInv, TypeInv, TypeOK
<1> QED BY <1>1 DEF AudienceInv, Live

LEMMA ReadAssignmentsAimed ==
  ASSUME TypeInv, AudienceInv, NEW p \in Procs, ReadAssignments(p)
  PROVE  AudienceInv'
<1> DEFINE x == proc[p]
           d == CHOOSE e \in x.todo : \A f \in x.todo : e <= f
           sets == [a \in SetsOf(d) |-> asg[a]]
           todo == x.todo \ {d}
           y == [x EXCEPT !.pc = "roster", !.day = d, !.todo = todo, !.sets = sets]
<1>1. PhaseOK(x) /\ x.pc = "next"
  BY DEF TypeInv, ReadAssignments
<1>2. d \in Days
  <2>1. x.todo \in SUBSET Days /\ x.todo # {}
    BY <1>1 DEF PhaseOK, ExecutionOK
  <2> QED BY <2>1, SmallestDay
<1>3. \A a \in DOMAIN sets : sets[a].scope \in targeted[a]
  <2> HIDE DEF d
  <2>1. d # 0
    BY <1>2, LastDayNat DEF Days
  <2>2. DOMAIN sets \subseteq Live
    BY <2>1 DEF SetsOf, Live
  <2> QED BY <2>2 DEF AudienceInv
<1>4. proc' = [proc EXCEPT ![p].pc = "roster", ![p].day = d, ![p].todo = @ \ {d},
                         ![p].sets = sets]
      /\ UNCHANGED <<stored, today, edits, mirrored>>
  BY Zenon DEF ReadAssignments
<1> HIDE DEF d, sets
<1>5. proc' = [proc EXCEPT ![p] = y]
  BY <1>4 DEF TypeInv, TypeOK
<1>6. y.pc = "roster" /\ y.sets = sets
  BY <1>1 DEF PhaseOK, ExecutionOK
<1>7. ReadAimed(targeted, y)
  BY <1>3, <1>6 DEF ReadAimed, Planning
<1> HIDE DEF y
<1> QED BY <1>4, <1>5, <1>7, OneReads DEF stored

LEMMA NamedAimed ==
  ASSUME AudienceInv, NEW s \in Students, NEW d
  PROVE  Aimed(targeted, s, Named(s, d))
  BY DEF AudienceInv, Named, Aimed

LEMMA ReadRosterAimed ==
  ASSUME TypeInv, AudienceInv, NEW p \in Procs, ReadRoster(p)
  PROVE  AudienceInv'
<1> DEFINE x == proc[p]
           f == [s \in {s \in active : EnrolledFrom[s] <= x.day} |-> Named(s, x.day)]
           y == [x EXCEPT !.pc = "evidence", !.frozen = f]
<1>1. PhaseOK(x) /\ x.pc = "roster" /\ ReadAimed(targeted, x)
  BY DEF TypeInv, AudienceInv, ReadRoster
<1>2. \A s \in DOMAIN f : Aimed(targeted, s, f[s])
  BY NamedAimed DEF TypeInv, TypeOK
<1>3. proc' = [proc EXCEPT ![p] = y] /\ UNCHANGED <<asg, targeted, row>>
  BY DEF ReadRoster, stored
<1> HIDE DEF f
<1>4. y.pc = "evidence" /\ y.sets = x.sets /\ y.frozen = f
  BY <1>1 DEF PhaseOK, ExecutionOK
<1>5. ReadAimed(targeted, y)
  BY <1>1, <1>2, <1>4 DEF ReadAimed, Planning
<1> HIDE DEF y
<1> QED BY <1>3, <1>5, OneReads

LEMMA FacedAimed ==
  ASSUME NEW t, NEW x, PhaseOK(x), x.pc = "evidence", ReadAimed(t, x), NEW s \in DOMAIN x.frozen
  PROVE  Aimed(t, s, Faced(x, s))
<1>1. CASE x.frozen[s] \in DOMAIN x.sets
  BY <1>1 DEF Faced, ReadAimed
<1>2. CASE x.frozen[s] \notin DOMAIN x.sets
  <2> DEFINE scope == [a \in DOMAIN x.sets |-> x.sets[a].scope]
  <2>1. Faced(x, s) = SelectForScope(scope, Home[s])
    BY <1>2 DEF Faced
  <2>2. \A a \in DOMAIN scope : scope[a] \in t[a]
    BY DEF ReadAimed
  <2> HIDE DEF scope
  <2> QED BY <2>1, <2>2, SelectOK DEF Aimed
<1> QED BY <1>1, <1>2

LEMMA ReadEvidenceAimed ==
  ASSUME TypeInv, AudienceInv, NEW p \in Procs, ReadEvidence(p)
  PROVE  AudienceInv'
<1> DEFINE x == proc[p]
           f == [s \in DOMAIN x.frozen |-> Evaluated(x, s)]
           y == [x EXCEPT !.pc = "history", !.plan = f, !.sets = NoOne, !.frozen = NoOne]
<1>1. PhaseOK(x) /\ x.pc = "evidence" /\ ReadAimed(targeted, x)
  BY DEF TypeInv, AudienceInv, ReadEvidence
<1>2. ASSUME NEW s \in DOMAIN f PROVE Aimed(targeted, s, f[s].asg)
  <2>1. f[s].asg = Faced(x, s)
    BY DEF Evaluated
  <2> QED BY <1>1, <2>1, FacedAimed
<1>3. proc' = [proc EXCEPT ![p] = y] /\ UNCHANGED <<asg, targeted, row>>
  BY DEF ReadEvidence, stored
<1> HIDE DEF f
<1>4. y.pc = "history" /\ y.plan = f
  BY <1>1 DEF PhaseOK, ExecutionOK
<1>5. ReadAimed(targeted, y)
  BY <1>2, <1>4 DEF ReadAimed
<1> HIDE DEF y
<1> QED BY <1>3, <1>5, OneReads

LEMMA ReadHistoryAimed ==
  ASSUME TypeInv, AudienceInv, NEW p \in Procs, ReadHistory(p)
  PROVE  AudienceInv'
<1> DEFINE x == proc[p]
           f == [s \in DOMAIN x.plan |-> WithStreak(s, x.day, x.plan[s])]
           y == [x EXCEPT !.pc = "persist", !.plan = f]
<1>1. PhaseOK(x) /\ x.pc = "history" /\ ReadAimed(targeted, x)
  BY DEF TypeInv, AudienceInv, ReadHistory
<1>2. ASSUME NEW s \in DOMAIN f PROVE Aimed(targeted, s, f[s].asg)
  <2>1. x.plan[s] \in Figures /\ Aimed(targeted, s, x.plan[s].asg)
    BY <1>1 DEF PhaseOK, ExecutionOK, Partial, ReadAimed, Planning
  <2>2. f[s].asg = x.plan[s].asg
    BY <2>1 DEF WithStreak, Figures
  <2> QED BY <2>1, <2>2
<1>3. proc' = [proc EXCEPT ![p] = y] /\ UNCHANGED <<asg, targeted, row>>
  BY DEF ReadHistory, stored
<1> HIDE DEF f
<1>4. y.pc = "persist" /\ y.plan = f
  BY <1>1 DEF PhaseOK, ExecutionOK
<1>5. ReadAimed(targeted, y)
  BY <1>2, <1>4 DEF ReadAimed
<1> HIDE DEF y
<1> QED BY <1>3, <1>5, OneReads

LEMMA FindRowAimed ==
  ASSUME TypeInv, AudienceInv, NEW p \in Procs, NEW s \in Students, FindRow(p, s)
  PROVE  AudienceInv'
<1> DEFINE x == proc[p]
           a == Named(s, x.day)
           y == [x EXCEPT !.pc = "upsert", !.at = s, !.seen = a]
<1>1. PhaseOK(x) /\ x.pc = "persist" /\ ReadAimed(targeted, x)
  BY DEF TypeInv, AudienceInv, FindRow
<1>2. Aimed(targeted, s, a)
  BY NamedAimed
<1>3. proc' = [proc EXCEPT ![p] = y] /\ UNCHANGED <<asg, targeted, row>>
  BY DEF FindRow, stored
<1> HIDE DEF a
<1>4. y.pc = "upsert" /\ y.plan = x.plan /\ y.at = s /\ y.seen = a
  BY <1>1 DEF PhaseOK, ExecutionOK
<1>5. ReadAimed(targeted, y)
  BY <1>1, <1>2, <1>4 DEF ReadAimed, Planning
<1> HIDE DEF y
<1> QED BY <1>3, <1>5, OneReads

LEMMA UpsertRowAimed ==
  ASSUME TypeInv, AudienceInv, NEW p \in Procs, UpsertRow(p)
  PROVE  AudienceInv'
<1> DEFINE x == proc[p]
           s == x.at
           id == ResolveFrozenField(x.seen, x.plan[s].asg)
           f == [t \in DOMAIN x.plan \ {s} |-> x.plan[t]]
           y == [x EXCEPT !.pc = "persist", !.at = None, !.seen = None, !.plan = f]
           r == [x.plan[s] EXCEPT !.asg = id]
<1>1. PhaseOK(x) /\ x.pc = "upsert" /\ ReadAimed(targeted, x)
  BY DEF TypeInv, AudienceInv, UpsertRow
<1>2. s \in DOMAIN x.plan /\ s \in Students /\ x.plan[s] \in Figures
  BY <1>1 DEF PhaseOK, ExecutionOK, Partial, Recomputing
<1>3. Aimed(targeted, s, id)
  BY <1>1, <1>2 DEF ReadAimed, Planning, ResolveFrozenField
<1>4. CASE id \notin Live \cup {None}
  <2>1. proc' = [proc EXCEPT ![p] = Idle] /\ UNCHANGED <<asg, targeted, row>>
    BY <1>4 DEF UpsertRow
  <2>2. ReadAimed(targeted, Idle)
    BY DEF ReadAimed, Idle, Planning
  <2> HIDE DEF id, f, y, r
  <2> QED BY <2>1, <2>2, OneReads
<1>5. CASE id \in Live \cup {None}
  <2>1. /\ proc' = [proc EXCEPT ![p] = y]
        /\ row' = [row EXCEPT ![s] = Stored(row[s], x.day, r)]
        /\ UNCHANGED <<asg, targeted>>
    BY <1>5 DEF UpsertRow
  <2> HIDE DEF id
  <2>2. r.asg = id
    BY <1>2 DEF Figures
  <2>3. \A t \in DOMAIN f : Aimed(targeted, t, f[t].asg)
    BY <1>1 DEF ReadAimed, Planning
  <2> HIDE DEF f, r
  <2>4. y.pc = "persist" /\ y.plan = f
    BY <1>1 DEF PhaseOK, ExecutionOK
  <2>5. ReadAimed(targeted, y)
    BY <2>3, <2>4 DEF ReadAimed
  <2> HIDE DEF y
  <2>6. \A q \in Procs : ReadAimed(targeted, proc'[q])
    BY <2>1, <2>5 DEF AudienceInv, TypeInv, TypeOK
  <2>7. ASSUME NEW t \in Students, NEW d \in DOMAIN row'[t]
        PROVE  Aimed(targeted, t, row'[t][d].asg)
    <3>1. CASE t = s /\ d = x.day
      <4>1. row'[t][d] = r
        BY <1>2, <2>1, <3>1 DEF TypeInv, TypeOK, Stored
      <4> QED BY <1>3, <2>2, <3>1, <4>1
    <3>2. CASE t # s \/ d # x.day
      <4>1. d \in DOMAIN row[t] /\ row'[t][d] = row[t][d]
        BY <1>2, <2>1, <2>7, <3>2 DEF TypeInv, TypeOK, Stored
      <4> QED BY <4>1 DEF AudienceInv
    <3> QED BY <3>1, <3>2
  <2> QED BY <2>1, <2>6, <2>7 DEF AudienceInv, Live
<1> QED BY <1>4, <1>5

(* The other steps: what is on record of the audiences only grows.          *)
LEMMA RestartsAimed ==
  ASSUME TypeInv, AudienceInv, NEW p \in Procs, Restarts(p),
         \A a \in Assignments : targeted[a] \subseteq targeted'[a],
         \A a \in Live' : asg'[a].scope \in targeted'[a],
         \A s \in Students : \A d \in DOMAIN row'[s] :
           d \in DOMAIN row[s] /\ row'[s][d].asg \in {row[s][d].asg, None}
  PROVE  AudienceInv'
<1>1. ASSUME NEW q \in Procs PROVE ReadAimed(targeted', proc'[q])
  <2>1. CASE proc'[q] = proc[q]
    BY <2>1, ReadAimedGrows DEF AudienceInv, TypeInv
  <2>2. CASE proc'[q].pc \in Waiting
    BY <2>2 DEF ReadAimed, Waiting, Planning
  <2> QED BY <2>1, <2>2 DEF Restarts, Elsewhere
<1>2. ASSUME NEW s \in Students, NEW d \in DOMAIN row'[s]
      PROVE  Aimed(targeted', s, row'[s][d].asg)
  <2>1. d \in DOMAIN row[s] /\ row[s][d].asg \in Assignments \cup {None}
        /\ Aimed(targeted, s, row[s][d].asg)
    BY <1>2 DEF AudienceInv, TypeInv, TypeOK, Partial, Figures
  <2>2. Aimed(targeted', s, row[s][d].asg)
    BY <2>1, AimedGrows
  <2> QED BY <1>2, <2>2 DEF Aimed
<1> QED BY <1>1, <1>2 DEF AudienceInv

LEMMA EditAimed ==
  ASSUME TypeInv, AudienceInv, NEW p \in Procs, EditStep(p)
  PROVE  AudienceInv'
<1>1. PICK a \in Assignments :
        \/ \E problems \in SUBSET Problems :
             \/ \E d \in Days, scope \in Scopes : Create(p, a, d, scope, problems)
             \/ Update(p, a, problems)
        \/ \E scope \in Scopes : ChangeTarget(p, a, scope)
        \/ Remove(p, a)
  BY DEF EditStep
<1>2. ASSUME NEW problems \in SUBSET Problems, NEW d \in Days, NEW scope \in Scopes,
             Create(p, a, d, scope, problems)
      PROVE  AudienceInv'
  <2>1. Restarts(p) /\ UNCHANGED row
    BY <1>2, EditRestarts
  <2>2. /\ \A b \in Assignments : targeted[b] \subseteq targeted'[b]
        /\ \A b \in Live' : asg'[b].scope \in targeted'[b]
    BY <1>2 DEF Create, Live, AudienceInv, TypeInv, TypeOK
  <2> QED BY <2>1, <2>2, RestartsAimed
<1>3. ASSUME NEW problems \in SUBSET Problems, Update(p, a, problems)
      PROVE  AudienceInv'
  <2>1. Restarts(p) /\ UNCHANGED row
    BY <1>3, EditRestarts
  <2>2. /\ \A b \in Assignments : targeted[b] \subseteq targeted'[b]
        /\ \A b \in Live' : asg'[b].scope \in targeted'[b]
    <3>1. asg[a] \in AssignmentRow
      BY DEF TypeInv, TypeOK
    <3>2. \A b \in Assignments : asg'[b].scope = asg[b].scope /\ (asg'[b].day = asg[b].day)
      BY <1>3, <3>1 DEF Update, AssignmentRow, TypeInv, TypeOK
    <3> QED BY <1>3, <3>2 DEF Update, Live, AudienceInv
  <2> QED BY <2>1, <2>2, RestartsAimed
<1>4. ASSUME NEW scope \in Scopes, ChangeTarget(p, a, scope)
      PROVE  AudienceInv'
  <2>1. Restarts(p) /\ UNCHANGED row
    BY <1>4, EditRestarts
  <2>2. /\ \A b \in Assignments : targeted[b] \subseteq targeted'[b]
        /\ \A b \in Live' : asg'[b].scope \in targeted'[b]
    <3>1. asg[a] \in AssignmentRow
      BY DEF TypeInv, TypeOK
    <3>2. asg'[a].scope = scope /\ \A b \in Assignments \ {a} : asg'[b] = asg[b]
      BY <1>4, <3>1 DEF ChangeTarget, AssignmentRow, TypeInv, TypeOK
    <3>3. targeted' = [targeted EXCEPT ![a] = targeted[a] \cup {scope}]
      BY <1>4 DEF ChangeTarget
    <3> QED BY <3>2, <3>3 DEF Live, AudienceInv, TypeInv, TypeOK
  <2> QED BY <2>1, <2>2, RestartsAimed
<1>5. CASE Remove(p, a)
  <2>1. Restarts(p) /\ UNCHANGED targeted
    BY <1>5, RecomputeRestarts DEF Remove
  <2>2. \A b \in Live' : asg'[b].scope \in targeted'[b]
    BY <1>5 DEF Remove, Live, NoAssignment, AudienceInv, TypeInv, TypeOK
  <2>3. \A s \in Students : row'[s] = Unnamed(row[s], a)
    BY <1>5 DEF Remove, Unnamed
  <2>4. ASSUME NEW s \in Students, NEW d \in DOMAIN row'[s]
        PROVE  d \in DOMAIN row[s] /\ row'[s][d].asg \in {row[s][d].asg, None}
    <3>1. d \in DOMAIN row[s] /\ row[s][d] \in Figures
      BY <2>3, <2>4 DEF Unnamed, TypeInv, TypeOK, Partial
    <3>2. [row[s][d] EXCEPT !.asg = None].asg = None
      BY <3>1 DEF Figures
    <3> QED BY <2>3, <3>1, <3>2 DEF Unnamed
  <2> QED BY <2>1, <2>2, <2>4, RestartsAimed
<1> QED BY <1>1, <1>2, <1>3, <1>4, <1>5

LEMMA MirrorAimed ==
  ASSUME TypeInv, AudienceInv, NEW p \in Procs, NEW s \in Students, NEW q \in Problems,
         NEW d \in Days, Mirror(p, s, q, d)
  PROVE  AudienceInv'
<1> DEFINE y == [proc[p] EXCEPT !.affected = @ \cup {d}]
<1>1. proc' = [proc EXCEPT ![p] = y] /\ UNCHANGED <<asg, targeted, row>>
  BY DEF Mirror
<1>2. y.pc = "mirror"
  BY DEF Mirror, TypeInv, PhaseOK, ExecutionOK
<1>3. ReadAimed(targeted, y)
  BY <1>2 DEF ReadAimed, Planning
<1> HIDE DEF y
<1> QED BY <1>1, <1>3, OneReads

LEMMA AudienceStep == TypeInv /\ AudienceInv /\ [Next]_vars => AudienceInv'
<1> SUFFICES ASSUME TypeInv, AudienceInv, [Next]_vars PROVE AudienceInv'
  OBVIOUS
<1>1. ASSUME NEW p \in Procs, Restarts(p), UNCHANGED <<row, asg, targeted>>
      PROVE  AudienceInv'
  <2>1. \A a \in Live' : asg'[a].scope \in targeted'[a]
    BY <1>1 DEF AudienceInv, Live
  <2> QED BY <1>1, <2>1, RestartsAimed
<1>2. ASSUME NEW p \in Procs, RecomputeStep(p) PROVE AudienceInv'
  BY <1>1, <1>2, RunRestarts, ReadAssignmentsAimed, ReadRosterAimed, ReadEvidenceAimed,
     ReadHistoryAimed, FindRowAimed, UpsertRowAimed DEF RecomputeStep
<1>3. ASSUME NEW p \in Procs, SyncStep(p) PROVE AudienceInv'
  BY <1>1, <1>3, RunRestarts, MirrorAimed DEF SyncStep
<1>4. ASSUME NEW p \in Procs,
             NightlyRollup(p) \/ Fail(p) \/ \E d \in Days : BackfillDay(p, d)
      PROVE  AudienceInv'
  BY <1>1, <1>4, RunRestarts
<1>5. CASE (\E s \in Students : SetActive(s)) \/ Midnight \/ UNCHANGED vars
  <2>1. UNCHANGED <<asg, targeted, row, proc>>
    BY <1>5 DEF SetActive, Midnight, stored, vars
  <2> QED BY <2>1 DEF AudienceInv, Live
<1> QED BY <1>2, <1>3, <1>4, <1>5, EditAimed DEF Next

(* No student is measured against a set that was never aimed at that        *)
(* student's campus and batch, for any number of assignments, audiences,    *)
(* retargetings and recomputes under way (selectAssignmentForScope).        *)
THEOREM MeasuredInAudience == Spec => []EvaluatedInAudience
<1>1. Init => AudienceInv
  BY DEF Init, AudienceInv, ReadAimed, Live, NoAssignment, Idle, Planning, NoOne
<1>2. AudienceInv => EvaluatedInAudience
  BY DEF AudienceInv, Aimed, ScopeApplies, EvaluatedInAudience
<1> QED BY <1>1, <1>2, AudienceStep, Typed, PTL DEF Spec

-----------------------------------------------------------------------------
(* One recompute at a time.  Nothing an execution has read changes before   *)
(* it is done: the edits wait for it.                                       *)
SingleWriter == \E p \in Procs : Procs = {p}

LEMMA OneMoves ==
  ASSUME SingleWriter, TypeInv, NEW p \in Procs, NEW y, proc' = [proc EXCEPT ![p] = y]
  PROVE  \A q \in Procs : q = p /\ proc'[q] = y
  BY DEF SingleWriter, TypeInv, TypeOK

(* A scored day keeps its set: what the upsert is about to write was named  *)
(* by the row just read.                                                    *)
SeenIsNamed(x) == x.pc = "upsert" => x.seen = Named(x.at, x.day)

LEMMA SeenStep ==
  ASSUME SingleWriter, TypeInv, \A p \in Procs : SeenIsNamed(proc[p]), [Next]_vars
  PROVE  \A p \in Procs : SeenIsNamed(proc[p])'
<1>1. ASSUME NEW p \in Procs, proc'[p].pc # "upsert"
      PROVE  \A q \in Procs : SeenIsNamed(proc[q])'
  BY <1>1 DEF SingleWriter, SeenIsNamed
<1>2. ASSUME UNCHANGED <<row, proc>>
      PROVE  \A q \in Procs : SeenIsNamed(proc[q])'
  BY <1>2 DEF SeenIsNamed, Named
<1>3. ASSUME NEW p \in Procs, proc'[p].pc \in Waiting
      PROVE  \A q \in Procs : SeenIsNamed(proc[q])'
  BY <1>1, <1>3 DEF Waiting
<1>4. ASSUME NEW p \in Procs, Restarts(p), UNCHANGED row
      PROVE  \A q \in Procs : SeenIsNamed(proc[q])'
  <2>1. CASE proc'[p] = proc[p]
    BY <1>4, <2>1 DEF SingleWriter, SeenIsNamed, Named
  <2> QED BY <1>3, <1>4, <2>1 DEF Restarts
<1>5. ASSUME NEW p \in Procs, RecomputeStep(p)
      PROVE  \A q \in Procs : SeenIsNamed(proc[q])'
  <2>1. ExecutionOK(proc[p])
    BY DEF TypeInv, TypeOK
  <2>2. CASE ReadAssignments(p) \/ ReadRoster(p)
    <3>1. proc'[p].pc # "upsert"
      BY <2>2, ReadingPlansNothing DEF Planning
    <3> QED BY <1>1, <3>1
  <2>3. CASE ReadEvidence(p) \/ ReadHistory(p)
    <3>1. proc'[p].pc # "upsert"
      BY <2>1, <2>3 DEF ReadEvidence, ReadHistory, ExecutionOK, TypeInv, TypeOK
    <3> QED BY <1>1, <3>1
  <2>4. ASSUME NEW s \in Students, FindRow(p, s)
        PROVE  \A q \in Procs : SeenIsNamed(proc[q])'
    <3> DEFINE y == [proc[p] EXCEPT !.pc = "upsert", !.at = s, !.seen = Named(s, proc[p].day)]
    <3>1. proc' = [proc EXCEPT ![p] = y] /\ UNCHANGED row
      BY <2>4 DEF FindRow, stored
    <3>2. y.at = s /\ y.day = proc[p].day /\ y.seen = Named(s, y.day)
      BY <2>1 DEF ExecutionOK
    <3> HIDE DEF y
    <3>3. \A q \in Procs : proc'[q] = y
      BY <3>1, OneMoves
    <3> QED BY <3>1, <3>2, <3>3 DEF SeenIsNamed, Named
  <2>5. CASE UpsertRow(p)
    <3>1. proc'[p].pc # "upsert"
      BY <2>1, <2>5 DEF UpsertRow, ExecutionOK, Idle, TypeInv, TypeOK
    <3> QED BY <1>1, <3>1
  <2>6. CASE DayDone(p)
    BY <1>4, <2>6, RunRestarts
  <2> QED BY <1>5, <2>2, <2>3, <2>4, <2>5, <2>6 DEF RecomputeStep
<1>6. ASSUME NEW p \in Procs, SyncStep(p)
      PROVE  \A q \in Procs : SeenIsNamed(proc[q])'
  <2>1. ASSUME NEW s \in Students, NEW q \in Problems, NEW d \in Days, Mirror(p, s, q, d)
        PROVE  proc'[p].pc \in Waiting
    BY <2>1 DEF Mirror, Waiting, TypeInv, TypeOK, ExecutionOK
  <2> QED BY <1>3, <1>4, <1>6, <2>1, RunRestarts DEF SyncStep
<1>7. ASSUME NEW p \in Procs, EditStep(p)
      PROVE  \A q \in Procs : SeenIsNamed(proc[q])'
  <2>1. ASSUME NEW a \in Assignments, Remove(p, a)
        PROVE  proc'[p].pc \in Waiting
    BY <2>1 DEF Remove, Recompute, Waiting, Idle, TypeInv, TypeOK
  <2> QED BY <1>3, <1>4, <1>7, <2>1, EditRestarts DEF EditStep
<1>8. ASSUME NEW p \in Procs, NightlyRollup(p) \/ Fail(p) \/ \E d \in Days : BackfillDay(p, d)
      PROVE  \A q \in Procs : SeenIsNamed(proc[q])'
  BY <1>4, <1>8, RunRestarts
<1>9. CASE (\E s \in Students : SetActive(s)) \/ Midnight \/ UNCHANGED vars
  BY <1>2, <1>9 DEF SetActive, Midnight, stored, vars
<1> QED BY <1>5, <1>6, <1>7, <1>8, <1>9 DEF Next

FrozenKept ==
    \A s \in Students : \A d \in DOMAIN row[s] :
        LET a == row[s][d].asg
        IN  a # None /\ asg'[a].day # 0 => row'[s][d].asg = a

LEMMA FrozenStep ==
  ASSUME TypeInv, \A p \in Procs : SeenIsNamed(proc[p]), Next
  PROVE  FrozenKept
<1>1. ASSUME UNCHANGED row PROVE FrozenKept
  BY <1>1 DEF FrozenKept
<1>2. ASSUME NEW p \in Procs, UpsertRow(p) PROVE FrozenKept
  <2> DEFINE x == proc[p]
             id == ResolveFrozenField(x.seen, x.plan[x.at].asg)
             r == [x.plan[x.at] EXCEPT !.asg = id]
  <2>1. UNCHANGED row \/ row' = [row EXCEPT ![x.at] = Stored(row[x.at], x.day, r)]
    BY <1>2 DEF UpsertRow
  <2>2. x.seen = Named(x.at, x.day) /\ x.plan[x.at] \in Figures /\ x.at \in Students
    BY <1>2 DEF UpsertRow, SeenIsNamed, TypeInv, PhaseOK, ExecutionOK, Partial
  <2>3. r.asg = id
    BY <2>2 DEF Figures
  <2>4. ASSUME row' = [row EXCEPT ![x.at] = Stored(row[x.at], x.day, r)],
               NEW s \in Students, NEW d \in DOMAIN row[s], row[s][d].asg # None
        PROVE  row'[s][d].asg = row[s][d].asg
    <3>1. CASE s = x.at /\ d = x.day
      <4>1. x.seen = row[s][d].asg
        BY <2>2, <3>1 DEF Named
      <4>2. id = row[s][d].asg
        BY <2>4, <4>1 DEF ResolveFrozenField
      <4> HIDE DEF x, id, r
      <4>3. row'[s][d] = r
        BY <2>4, <3>1 DEF Stored, TypeInv, TypeOK
      <4> QED BY <2>3, <4>2, <4>3
    <3>2. CASE ~ (s = x.at /\ d = x.day)
      <4> HIDE DEF x, r
      <4> QED BY <2>4, <3>2 DEF Stored, TypeInv, TypeOK
    <3> QED BY <3>1, <3>2
  <2> HIDE DEF x, r
  <2> QED BY <1>1, <2>1, <2>4 DEF FrozenKept
<1>3. ASSUME NEW p \in Procs, NEW a \in Assignments, Remove(p, a) PROVE FrozenKept
  <2>1. asg'[a].day = 0
    BY <1>3 DEF Remove, NoAssignment, TypeInv, TypeOK
  <2>2. \A s \in Students : \A d \in DOMAIN row[s] :
            row[s][d].asg # a => row'[s][d].asg = row[s][d].asg
    BY <1>3 DEF Remove
  <2> QED BY <2>1, <2>2 DEF FrozenKept
<1>4. ASSUME NEW p \in Procs, EditStep(p) PROVE FrozenKept
  <2>1. CASE \E a \in Assignments : Remove(p, a)
    BY <1>3, <2>1
  <2>2. CASE ~ \E a \in Assignments : Remove(p, a)
    BY <1>1, <1>4, <2>2, EditRestarts DEF EditStep
  <2> QED BY <2>1, <2>2
<1>5. ASSUME NEW p \in Procs, RecomputeStep(p) \/ SyncStep(p) PROVE FrozenKept
  BY <1>1, <1>2, <1>5
     DEF RecomputeStep, SyncStep, ReadAssignments, ReadRoster, ReadEvidence, ReadHistory, FindRow,
         DayDone, StartSync, ResolveDays, Mirror, stored
<1>6. ASSUME NEW p \in Procs, NightlyRollup(p) \/ Fail(p) \/ \E d \in Days : BackfillDay(p, d)
      PROVE  FrozenKept
  BY <1>1, <1>6, RunRestarts
<1>7. CASE (\E s \in Students : SetActive(s)) \/ Midnight
  BY <1>1, <1>7 DEF SetActive, Midnight, stored
<1> QED BY <1>4, <1>5, <1>6, <1>7 DEF Next

(* With one recompute at a time, a row once scored against an assignment    *)
(* that still exists is never scored against another one, for any edits,    *)
(* retargetings, status changes and failures (persistDailyStatus).          *)
THEOREM FrozenStays == Spec /\ SingleWriter => AssignmentFrozen
<1> DEFINE IInv == SingleWriter /\ \A p \in Procs : SeenIsNamed(proc[p])
<1>1. Init /\ SingleWriter => IInv
  BY DEF Init, SeenIsNamed, Idle
<1>2. TypeInv /\ IInv /\ [Next]_vars => IInv'
  BY SeenStep DEF SingleWriter
<1>3. TypeInv /\ IInv /\ [Next]_vars => [FrozenKept]_vars
  BY FrozenStep
<1>4. [][FrozenKept]_vars <=> AssignmentFrozen
  BY PTL DEF AssignmentFrozen, FrozenKept
<1> HIDE DEF IInv
<1> QED BY <1>1, <1>2, <1>3, <1>4, Typed, PTL DEF Spec
-----------------------------------------------------------------------------
(* What is out of date is reported or about to be recomputed, where one     *)
(* recompute runs at a time, none fails, the students stay active and no    *)
(* assignment is entered ahead of its day.                                  *)
OneWriter == SingleWriter /\ Uses \cap {"archive", "restore", "fail"} = {} /\ Ahead = 0

DaySets(d) == [a \in SetsOf(d) |-> asg[a]]
Roster(d) == {s \in active : EnrolledFrom[s] <= d}

(* Figures r of day d are those of the sets of that day.                    *)
Right(sets, done, home, d, r) ==
    LET a == IF r.asg # None THEN r.asg
             ELSE SelectForScope([b \in DOMAIN sets |-> sets[b].scope], home)
        assigned == IF a = None THEN {} ELSE sets[a].problems
    IN  /\ r.asg = a
        /\ r.assigned = assigned
        /\ r.inWindow = SolvedInWindow(done, assigned, d)
RightRow(s, d) == Right(DaySets(d), mirror[s], Home[s], d, row[s][d])

(* What findStaleAssignmentDays sees of a day.                              *)
Reported(d) ==
    \/ \E a \in newer : asg[a].day = d
    \/ \E t \in Students : d \in DOMAIN row[t] /\ row[t][d].asg = None /\ row[t][d].assigned # {}

Tables ==
    /\ active = Students
    /\ \A a \in Assignments : asg[a].day # 0 => targeted[a] # {} /\ asg[a].day <= today
    /\ \A s \in Students : \A d \in DOMAIN row[s] :
          /\ d <= today /\ EnrolledFrom[s] <= d
          /\ row[s][d].asg # None => row[s][d].asg \in SetsOf(d)

(* An execution holds what the tables say.                                  *)
Planned(s, d, r) ==
    /\ r.asg \in SetsOf(d) \cup {None}
    /\ Named(s, d) # None => r.asg = Named(s, d)
    /\ Right(DaySets(d), mirror[s], Home[s], d, r)
Working(x) ==
    /\ x.pc \in {"roster", "evidence"} => x.sets = DaySets(x.day)
    /\ x.pc = "evidence" => DOMAIN x.frozen = Roster(x.day)
                            /\ \A s \in DOMAIN x.frozen : x.frozen[s] = Named(s, x.day)
    /\ x.pc = "history" => DOMAIN x.plan = Roster(x.day)
    /\ x.pc \in Planning => DOMAIN x.plan \subseteq Roster(x.day)
                            /\ \A s \in DOMAIN x.plan : Planned(s, x.day, x.plan[s])
    /\ x.pc \in {"persist", "upsert"} =>
          \A s \in Students :
             x.day \in DOMAIN row[s] /\ s \notin DOMAIN x.plan => RightRow(s, x.day)
    /\ SeenIsNamed(x)

(* The days it works on are no days to come.                                *)
Scheduled(x) ==
    /\ \A d \in x.todo : d <= today
    /\ x.pc \in Recomputing => x.day <= today
    /\ x.pc = "mirror" => x.jobDay <= today
                          /\ \A s \in Students : \A d \in DOMAIN row[s] : d <= x.jobDay

(* It will recompute the row of s for day d.                                *)
Owed(x, s, d) ==
    \/ x.pc = "mirror" /\ \E e \in x.affected : d \in AssignmentDaysAffectedBy(e)
    \/ x.pc \in {"next"} \cup Recomputing /\ d \in x.todo
    \/ x.pc \in {"roster", "evidence", "history"} /\ d = x.day
    \/ x.pc \in {"persist", "upsert"} /\ d = x.day /\ s \in DOMAIN x.plan

FoundBy(x) ==
    \A s \in Students : \A d \in DOMAIN row[s] :
        today - Reach <= d => RightRow(s, d) \/ Reported(d) \/ Owed(x, s, d)

JobInv(x) == Working(x) /\ Scheduled(x) /\ FoundBy(x)
StaleInv == Tables /\ \A p \in Procs : JobInv(proc[p])

-----------------------------------------------------------------------------
LEMMA SameJob ==
  ASSUME UNCHANGED <<stored, today>>, NEW y, JobInv(y)
  PROVE  JobInv(y)'
<1>1. Working(y)'
  BY DEF stored, JobInv, Working, SeenIsNamed, Planned, RightRow, DaySets, SetsOf, Roster, Named
<1>2. Scheduled(y)'
  BY DEF stored, JobInv, Scheduled
<1>3. FoundBy(y)'
  BY DEF stored, JobInv, FoundBy, RightRow, Reported, DaySets, SetsOf
<1> QED BY <1>1, <1>2, <1>3 DEF JobInv

LEMMA SameTables ==
  ASSUME UNCHANGED <<stored, today>>, Tables
  PROVE  Tables'
  BY DEF stored, Tables, SetsOf

(* A step that changes no table. *)
LEMMA ReadKeeps ==
  ASSUME SingleWriter, TypeInv, Tables, NEW p \in Procs, NEW y, proc' = [proc EXCEPT ![p] = y],
         UNCHANGED <<stored, today>>, JobInv(y)
  PROVE  StaleInv'
<1>1. JobInv(y)' /\ Tables'
  BY SameJob, SameTables
<1>2. \A q \in Procs : proc'[q] = y
  BY OneMoves
<1> HIDE DEF JobInv, Tables
<1>3. ASSUME NEW q \in Procs PROVE JobInv(proc[q])'
  BY <1>1, <1>2
<1> QED BY <1>1, <1>3 DEF StaleInv

LEMMA ReadAssignmentsStale ==
  ASSUME SingleWriter, TypeInv, StaleInv, NEW p \in Procs, ReadAssignments(p)
  PROVE  StaleInv'
<1> DEFINE x == proc[p]
           d == CHOOSE e \in x.todo : \A f \in x.todo : e <= f
           y == [x EXCEPT !.pc = "roster", !.day = d, !.todo = x.todo \ {d}, !.sets = DaySets(d)]
<1>1. x.pc = "next" /\ ExecutionOK(x) /\ x.todo \in SUBSET Days /\ x.todo # {} /\ JobInv(x) /\ Tables
  BY DEF ReadAssignments, TypeInv, TypeOK, PhaseOK, ExecutionOK, StaleInv
<1>2. d \in x.todo
  BY <1>1, SmallestDay
<1>8. proc' = [proc EXCEPT ![p].pc = "roster", ![p].day = d, ![p].todo = @ \ {d},
                         ![p].sets = DaySets(d)]
      /\ UNCHANGED <<stored, today>>
  BY Zenon DEF ReadAssignments, DaySets
<1> HIDE DEF d
<1>3. proc' = [proc EXCEPT ![p] = y] /\ UNCHANGED <<stored, today>>
  BY <1>8 DEF TypeInv, TypeOK
<1>4. /\ y.pc = "roster" /\ y.day = d /\ y.todo = x.todo \ {d} /\ y.sets = DaySets(d)
  BY <1>1 DEF ExecutionOK
<1> HIDE DEF y
<1>5. Working(y)
  BY <1>4 DEF Working, Planning, SeenIsNamed
<1>6. Scheduled(y)
  BY <1>1, <1>2, <1>4 DEF Scheduled, JobInv
<1>7. FoundBy(y)
  <2>1. ASSUME NEW s \in Students, NEW e \in DOMAIN row[s], Owed(x, s, e)
        PROVE  Owed(y, s, e)
    BY <1>1, <1>4, <2>1 DEF Owed, Recomputing
  <2> QED BY <1>1, <2>1 DEF JobInv, FoundBy
<1> QED BY <1>1, <1>3, <1>5, <1>6, <1>7, ReadKeeps DEF JobInv

LEMMA ReadRosterStale ==
  ASSUME SingleWriter, TypeInv, StaleInv, NEW p \in Procs, ReadRoster(p)
  PROVE  StaleInv'
<1> DEFINE x == proc[p]
           f == [s \in Roster(x.day) |-> Named(s, x.day)]
           y == [x EXCEPT !.pc = "evidence", !.frozen = f]
<1>1. x.pc = "roster" /\ ExecutionOK(x) /\ JobInv(x) /\ Tables
  BY DEF ReadRoster, TypeInv, TypeOK, StaleInv
<1>2. proc' = [proc EXCEPT ![p] = y] /\ UNCHANGED <<stored, today>>
  BY <1>1 DEF ReadRoster, Roster, TypeInv, TypeOK, ExecutionOK
<1>3. /\ y.pc = "evidence" /\ y.day = x.day /\ y.todo = x.todo /\ y.sets = x.sets /\ y.frozen = f
  BY <1>1 DEF ExecutionOK
<1> HIDE DEF y
<1>5. Working(y)
  BY <1>1, <1>3 DEF Working, Planning, SeenIsNamed, JobInv
<1>6. Scheduled(y)
  BY <1>1, <1>3 DEF Scheduled, JobInv, Recomputing
<1>7. FoundBy(y)
  <2>1. ASSUME NEW s \in Students, NEW e \in DOMAIN row[s], Owed(x, s, e)
        PROVE  Owed(y, s, e)
    BY <1>1, <1>3, <2>1 DEF Owed, Recomputing
  <2> QED BY <1>1, <2>1 DEF JobInv, FoundBy
<1> QED BY <1>1, <1>2, <1>5, <1>6, <1>7, ReadKeeps DEF JobInv

(* What is evaluated is right, of the sets and the mirror as they are.      *)
LEMMA EvaluatedRight ==
  ASSUME TypeInv, Tables, NEW x, PhaseOK(x), x.pc = "evidence", Working(x), NEW s \in DOMAIN x.frozen
  PROVE  Planned(s, x.day, Evaluated(x, s))
<1> DEFINE d == x.day
           a == Faced(x, s)
           r == Evaluated(x, s)
           best == SelectForScope([b \in DOMAIN x.sets |-> x.sets[b].scope], Home[s])
           assigned == IF a = None THEN {} ELSE x.sets[a].problems
<1>1. /\ x.sets = DaySets(d) /\ x.frozen[s] = Named(s, d)
      /\ DOMAIN x.sets = SetsOf(d) /\ None \notin DOMAIN x.sets
  BY RollupAssumption DEF Working, DaySets, SetsOf
<1>2. a \in DOMAIN x.sets \cup {None}
  BY FacedOK
<1>3. a = IF x.frozen[s] \in DOMAIN x.sets THEN x.frozen[s] ELSE best
  BY DEF Faced
<1>4. r.asg = a /\ r.assigned = assigned /\ r.inWindow = SolvedInWindow(mirror[s], assigned, d)
  BY DEF Evaluated
<1>5. s \in Students
  BY DEF PhaseOK, ExecutionOK, Partial
<1>6. Named(s, d) # None => Named(s, d) \in SetsOf(d)
  BY <1>5 DEF Named, Tables
<1> HIDE DEF a, r, best, d
<1>7. a = None => best = None
  BY <1>1, <1>3
<1>8. Right(x.sets, mirror[s], Home[s], d, r)
  BY <1>4, <1>7 DEF Right, best
<1>9. r.asg \in SetsOf(d) \cup {None} /\ (Named(s, d) # None => r.asg = Named(s, d))
  BY <1>1, <1>2, <1>3, <1>4, <1>6
<1> QED BY <1>1, <1>8, <1>9 DEF Planned, d, r

LEMMA ReadEvidenceStale ==
  ASSUME SingleWriter, TypeInv, StaleInv, NEW p \in Procs, ReadEvidence(p)
  PROVE  StaleInv'
<1> DEFINE x == proc[p]
           f == [s \in DOMAIN x.frozen |-> Evaluated(x, s)]
           y == [x EXCEPT !.pc = "history", !.plan = f, !.sets = NoOne, !.frozen = NoOne]
<1>1. x.pc = "evidence" /\ ExecutionOK(x) /\ PhaseOK(x) /\ JobInv(x) /\ Tables
  BY DEF ReadEvidence, TypeInv, TypeOK, StaleInv
<1>2. proc' = [proc EXCEPT ![p] = y] /\ UNCHANGED <<stored, today>>
  BY <1>1 DEF ReadEvidence, TypeInv, TypeOK, ExecutionOK
<1>3. /\ y.pc = "history" /\ y.day = x.day /\ y.todo = x.todo /\ y.plan = f
  BY <1>1 DEF ExecutionOK
<1> HIDE DEF y
<1>4. \A s \in DOMAIN x.frozen : Planned(s, x.day, Evaluated(x, s))
  BY <1>1, EvaluatedRight DEF JobInv
<1>5. Working(y)
  <2>1. DOMAIN f = Roster(x.day)
    BY <1>1 DEF Working, JobInv
  <2>2. \A s \in DOMAIN f : Planned(s, y.day, f[s])
    BY <1>3, <1>4
  <2> HIDE DEF f
  <2> QED BY <1>3, <2>1, <2>2 DEF Working, SeenIsNamed
<1>6. Scheduled(y)
  BY <1>1, <1>3 DEF Scheduled, JobInv, Recomputing
<1>7. FoundBy(y)
  <2>1. ASSUME NEW s \in Students, NEW e \in DOMAIN row[s], Owed(x, s, e)
        PROVE  Owed(y, s, e)
    BY <1>1, <1>3, <2>1 DEF Owed, Recomputing
  <2> QED BY <1>1, <2>1 DEF JobInv, FoundBy
<1> QED BY <1>1, <1>2, <1>5, <1>6, <1>7, ReadKeeps DEF JobInv

(* A row for the day belongs to a student of its roster. *)
LEMMA RowOfRoster ==
  ASSUME Tables, NEW s \in Students, NEW d \in DOMAIN row[s]
  PROVE  s \in Roster(d)
  BY DEF Tables, Roster

LEMMA ReadHistoryStale ==
  ASSUME SingleWriter, TypeInv, StaleInv, NEW p \in Procs, ReadHistory(p)
  PROVE  StaleInv'
<1> DEFINE x == proc[p]
           f == [s \in DOMAIN x.plan |-> WithStreak(s, x.day, x.plan[s])]
           y == [x EXCEPT !.pc = "persist", !.plan = f]
<1>1. x.pc = "history" /\ ExecutionOK(x) /\ PhaseOK(x) /\ JobInv(x) /\ Tables
  BY DEF ReadHistory, TypeInv, TypeOK, StaleInv
<1>2. proc' = [proc EXCEPT ![p] = y] /\ UNCHANGED <<stored, today>>
  BY <1>1 DEF ReadHistory, TypeInv, TypeOK, ExecutionOK
<1>3. /\ y.pc = "persist" /\ y.day = x.day /\ y.todo = x.todo /\ y.plan = f
  BY <1>1 DEF ExecutionOK
<1> HIDE DEF y
<1>4. \A s \in DOMAIN x.plan : Planned(s, x.day, WithStreak(s, x.day, x.plan[s]))
  <2> SUFFICES ASSUME NEW s \in DOMAIN x.plan
               PROVE  Planned(s, x.day, WithStreak(s, x.day, x.plan[s]))
    OBVIOUS
  <2>1. x.plan[s] \in Figures /\ Planned(s, x.day, x.plan[s])
    BY <1>1 DEF ExecutionOK, Partial, JobInv, Working, Planning
  <2> DEFINE w == WithStreak(s, x.day, x.plan[s])
  <2>2. w.asg = x.plan[s].asg /\ w.assigned = x.plan[s].assigned /\ w.inWindow = x.plan[s].inWindow
    BY <2>1 DEF WithStreak, Figures
  <2> HIDE DEF w
  <2>3. Planned(s, x.day, w)
    BY <2>1, <2>2 DEF Planned, Right
  <2> QED BY <2>3 DEF w
<1>5. Working(y)
  <2>1. DOMAIN f = Roster(x.day)
    BY <1>1 DEF Working, JobInv
  <2>2. \A s \in DOMAIN f : Planned(s, y.day, f[s])
    BY <1>3, <1>4
  <2> HIDE DEF f
  <2>3. \A s \in Students : y.day \in DOMAIN row[s] => s \in DOMAIN y.plan
    BY <1>1, <1>3, <2>1, RowOfRoster
  <2> QED BY <1>3, <2>1, <2>2, <2>3 DEF Working, SeenIsNamed
<1>6. Scheduled(y)
  BY <1>1, <1>3 DEF Scheduled, JobInv, Recomputing
<1>7. FoundBy(y)
  <2>1. ASSUME NEW s \in Students, NEW e \in DOMAIN row[s], Owed(x, s, e)
        PROVE  Owed(y, s, e)
    <3>1. DOMAIN y.plan = Roster(x.day)
      BY <1>1, <1>3 DEF Working, JobInv
    <3> QED BY <1>1, <1>3, <2>1, <3>1, RowOfRoster DEF Owed, Recomputing
  <2> QED BY <1>1, <2>1 DEF JobInv, FoundBy
<1> QED BY <1>1, <1>2, <1>5, <1>6, <1>7, ReadKeeps DEF JobInv

LEMMA FindRowStale ==
  ASSUME SingleWriter, TypeInv, StaleInv, NEW p \in Procs, NEW t \in Students, FindRow(p, t)
  PROVE  StaleInv'
<1> DEFINE x == proc[p]
           y == [x EXCEPT !.pc = "upsert", !.at = t, !.seen = Named(t, x.day)]
<1>1. x.pc = "persist" /\ ExecutionOK(x) /\ JobInv(x) /\ Tables
  BY DEF FindRow, TypeInv, TypeOK, StaleInv
<1>2. proc' = [proc EXCEPT ![p] = y] /\ UNCHANGED <<stored, today>>
  BY <1>1 DEF FindRow, TypeInv, TypeOK, ExecutionOK
<1>3. /\ y.pc = "upsert" /\ y.day = x.day /\ y.todo = x.todo /\ y.plan = x.plan
      /\ y.at = t /\ y.seen = Named(t, x.day)
  BY <1>1 DEF ExecutionOK
<1> HIDE DEF y
<1>5. Working(y)
  BY <1>1, <1>3 DEF Working, Planning, SeenIsNamed, JobInv
<1>6. Scheduled(y)
  BY <1>1, <1>3 DEF Scheduled, JobInv, Recomputing
<1>7. FoundBy(y)
  <2>1. ASSUME NEW s \in Students, NEW e \in DOMAIN row[s], Owed(x, s, e)
        PROVE  Owed(y, s, e)
    BY <1>1, <1>3, <2>1 DEF Owed, Recomputing
  <2> QED BY <1>1, <2>1 DEF JobInv, FoundBy
<1> QED BY <1>1, <1>2, <1>5, <1>6, <1>7, ReadKeeps DEF JobInv

LEMMA DayDoneStale ==
  ASSUME SingleWriter, TypeInv, StaleInv, NEW p \in Procs, DayDone(p)
  PROVE  StaleInv'
<1> DEFINE x == proc[p]
<1>1. /\ x.pc = "persist" /\ DOMAIN x.plan = {} /\ JobInv(x) /\ Tables
      /\ UNCHANGED <<stored, today>>
  BY DEF DayDone, StaleInv
<1>2. \A s \in Students : \A d \in DOMAIN row[s] :
         today - Reach <= d => RightRow(s, d) \/ Reported(d) \/ d \in x.todo
  BY <1>1 DEF JobInv, FoundBy, Working, Owed, Recomputing
<1>3. CASE x.todo = {}
  <2>1. proc' = [proc EXCEPT ![p] = Idle]
    BY <1>3 DEF DayDone
  <2>2. JobInv(Idle)
    BY <1>2, <1>3 DEF Idle, JobInv, Working, Scheduled, FoundBy, Planning, Recomputing, SeenIsNamed
  <2> QED BY <1>1, <2>1, <2>2, ReadKeeps
<1>4. CASE x.todo # {}
  <2> DEFINE y == [Idle EXCEPT !.pc = "next", !.todo = x.todo]
  <2>1. proc' = [proc EXCEPT ![p] = y] /\ y.pc = "next" /\ y.todo = x.todo
    BY <1>4 DEF DayDone, Recompute, Idle
  <2> HIDE DEF y
  <2>2. JobInv(y)
    BY <1>1, <1>2, <2>1
       DEF JobInv, Working, Scheduled, FoundBy, Planning, Recomputing, SeenIsNamed, Owed
  <2> QED BY <1>1, <2>1, <2>2, ReadKeeps
<1> QED BY <1>3, <1>4

Without(f, s) == [t \in DOMAIN f \ {s} |-> f[t]]

(* The tables once the row of s for day d holds figures r.                  *)
LEMMA RowWritten ==
  ASSUME SingleWriter, TypeInv, Tables, NEW p \in Procs, NEW x, NEW y,
         NEW s \in Students, NEW d \in Days, NEW r, ExecutionOK(x), JobInv(x),
         x.pc = "upsert", x.day = d, s \in DOMAIN x.plan,
         r.asg \in SetsOf(d) \cup {None}, Right(DaySets(d), mirror[s], Home[s], d, r),
         y.pc = "persist", y.day = d, y.todo = x.todo,
         y.plan = Without(x.plan, s),
         row' = [row EXCEPT ![s] = Stored(row[s], d, r)], newer' = newer \ SetsOf(d),
         proc' = [proc EXCEPT ![p] = y], UNCHANGED <<asg, targeted, mirror, active, today>>
  PROVE  StaleInv'
<1> DEFINE f == [t \in DOMAIN x.plan \ {s} |-> x.plan[t]]
<1>1. Working(x) /\ Tables /\ y.plan = f /\ DOMAIN f = DOMAIN x.plan \ {s}
  BY DEF JobInv, Without
<1>9. \A q \in Procs : proc'[q] = y
  BY ZenonT(40), OneMoves
<1>10. /\ DOMAIN row'[s] = DOMAIN row[s] \cup {d} /\ row'[s][d] = r
       /\ \A e \in DOMAIN row[s] : e # d => row'[s][e] = row[s][e]
       /\ \A t \in Students : t # s => row'[t] = row[t]
  BY DEF Stored, TypeInv, TypeOK
<1>11. \A e : SetsOf(e)' = SetsOf(e) /\ DaySets(e)' = DaySets(e) /\ Roster(e)' = Roster(e)
  BY DEF SetsOf, DaySets, Roster
<1>12. Tables'
  <2>1. d <= today /\ EnrolledFrom[s] <= d
    BY <1>1 DEF JobInv, Working, Planning, Scheduled, Recomputing, Roster
  <2>2. ASSUME NEW t \in Students, NEW e \in DOMAIN row'[t]
        PROVE  e <= today /\ EnrolledFrom[t] <= e
               /\ (row'[t][e].asg # None => row'[t][e].asg \in SetsOf(e))
    <3>1. CASE t = s /\ e = d
      BY <1>10, <2>1, <3>1
    <3>2. CASE ~ (t = s /\ e = d)
      <4>1. e \in DOMAIN row[t] /\ row'[t][e] = row[t][e]
        BY <1>10, <3>2
      <4> QED BY <1>1, <4>1 DEF Tables
    <3> QED BY <3>1, <3>2
  <2> QED BY <1>1, <1>11, <2>2 DEF Tables
<1>13. \A t \in Students : \A e \in DOMAIN row[t] :
          ~ (t = s /\ e = d) => (RightRow(t, e) => RightRow(t, e)')
  BY <1>10, <1>11 DEF RightRow
<1>14. RightRow(s, d)'
  BY <1>10, <1>11 DEF RightRow
<1>15. \A t \in Students : t # s => Named(t, d)' = Named(t, d)
  BY <1>10 DEF Named
<1>16. Working(y)'
  <2>1. ASSUME NEW t \in DOMAIN f PROVE Planned(t, d, f[t])' /\ t \in Roster(d)
    <3>1. t \in DOMAIN x.plan /\ t # s /\ f[t] = x.plan[t] /\ t \in Students
      BY <1>1 DEF ExecutionOK, Partial
    <3>2. Planned(t, d, x.plan[t]) /\ t \in Roster(d)
      BY <1>1, <3>1 DEF Working, Planning
    <3> HIDE DEF f
    <3> QED BY <1>11, <1>15, <3>1, <3>2 DEF Planned
  <2>2. ASSUME NEW t \in Students, d \in DOMAIN row'[t], t \notin DOMAIN f
        PROVE  RightRow(t, d)'
    <3>1. CASE t = s
      BY <1>14, <3>1
    <3>2. CASE t # s
      <4>1. t \notin DOMAIN x.plan /\ d \in DOMAIN row[t]
        BY <1>10, <2>2, <3>2
      <4>2. RightRow(t, d)
        BY <1>1, <4>1 DEF Working
      <4> QED BY <1>13, <3>2, <4>1, <4>2
    <3> QED BY <3>1, <3>2
  <2> HIDE DEF f
  <2> QED BY <1>1, <1>11, <2>1, <2>2 DEF Working, SeenIsNamed
<1>17. Scheduled(y)'
  BY <1>1 DEF Scheduled, JobInv, Recomputing
<1>18. FoundBy(y)'
  <2> SUFFICES ASSUME NEW t \in Students, NEW e \in DOMAIN row'[t], today - Reach <= e,
                      ~ RightRow(t, e)', ~ Owed(y, t, e)
               PROVE  Reported(e)'
    BY DEF FoundBy, Owed
  <2>1. ~ (t = s /\ e = d)
    BY <1>14
  <2>2. e \in DOMAIN row[t] /\ ~ RightRow(t, e)
    BY <1>10, <1>13, <2>1
  <2>3. e # d
    <3> SUFFICES ASSUME e = d PROVE FALSE
      OBVIOUS
    <3>1. t \notin DOMAIN x.plan
      BY <1>1, <2>1 DEF Owed
    <3> QED BY <1>1, <2>2, <3>1 DEF Working
  <2>4. ~ Owed(x, t, e)
    BY <1>1, <2>3 DEF Owed, Recomputing
  <2>5. Reported(e)
    BY <1>1, <2>2, <2>4 DEF JobInv, FoundBy
  <2>6. CASE \E a \in newer : asg[a].day = e
    <3>1. PICK a \in newer : asg[a].day = e
      BY <2>6
    <3>2. a \in newer'
      BY <2>3, <3>1 DEF SetsOf
    <3> QED BY <3>1, <3>2 DEF Reported
  <2>7. CASE \E u \in Students : e \in DOMAIN row[u] /\ row[u][e].asg = None /\ row[u][e].assigned # {}
    <3>1. PICK u \in Students : e \in DOMAIN row[u] /\ row[u][e].asg = None /\ row[u][e].assigned # {}
      BY <2>7
    <3>2. e \in DOMAIN row'[u] /\ row'[u][e] = row[u][e]
      BY <1>10, <2>3, <3>1
    <3> QED BY <3>1, <3>2 DEF Reported
  <2> QED BY <2>5, <2>6, <2>7 DEF Reported
<1>19. JobInv(y)'
  BY <1>16, <1>17, <1>18 DEF JobInv
<1>20. ASSUME NEW q \in Procs PROVE JobInv(proc[q])'
  <2> HIDE DEF JobInv
  <2> QED BY <1>9, <1>19
<1> QED BY <1>12, <1>20 DEF StaleInv

(* The upsert writes the planned figures as they are. *)
LEMMA UpsertStale ==
  ASSUME SingleWriter, TypeInv, StaleInv, NEW p \in Procs, UpsertRow(p)
  PROVE  StaleInv'
<1> DEFINE x == proc[p]
           s == x.at
           d == x.day
           id == ResolveFrozenField(x.seen, x.plan[s].asg)
           r == [x.plan[s] EXCEPT !.asg = id]
           f == Without(x.plan, s)
           y == [x EXCEPT !.pc = "persist", !.at = None, !.seen = None, !.plan = f]
<1>1. x.pc = "upsert" /\ ExecutionOK(x) /\ PhaseOK(x) /\ JobInv(x) /\ Working(x) /\ Tables
  BY DEF UpsertRow, TypeInv, TypeOK, StaleInv, JobInv
<1>2. s \in DOMAIN x.plan /\ s \in Students /\ d \in Days /\ d # 0 /\ x.plan[s] \in Figures
  BY <1>1, LastDayNat DEF PhaseOK, ExecutionOK, Partial, Recomputing, Days
<1>3. Planned(s, d, x.plan[s]) /\ x.seen = Named(s, d) /\ s \in Roster(d)
  BY <1>1, <1>2 DEF Working, Planning, SeenIsNamed
<1>4. id = x.plan[s].asg /\ id \in Live \cup {None} /\ id \in SetsOf(d) \cup {None}
  BY <1>2, <1>3 DEF ResolveFrozenField, Planned, Live, SetsOf
<1>5. r.asg = id /\ r.assigned = x.plan[s].assigned /\ r.inWindow = x.plan[s].inWindow
  BY <1>2 DEF Figures
<1>9. x.day = d
  BY DEF d
<1>6. Right(DaySets(d), mirror[s], Home[s], d, r)
  <2> HIDE DEF r
  <2> QED BY <1>3, <1>4, <1>5 DEF Planned, Right
<1>7. /\ row' = [row EXCEPT ![s] = Stored(row[s], d, r)]
      /\ newer' = newer \ SetsOf(d)
      /\ proc' = [proc EXCEPT ![p] = y]
      /\ UNCHANGED <<asg, targeted, mirror, active, today>>
  BY <1>4 DEF UpsertRow, Computed, Without
<1>8. y.pc = "persist" /\ y.day = d /\ y.todo = x.todo /\ y.plan = f
  BY <1>1 DEF ExecutionOK
<1>10. r.asg \in SetsOf(d) \cup {None}
  BY <1>4, <1>5
<1> HIDE DEF id, r, y, s, d, x
<1> QED BY <1>1, <1>2, <1>6, <1>7, <1>8, <1>9, <1>10, RowWritten

-----------------------------------------------------------------------------
(* An execution that is about to begin has read nothing yet. *)
Fresh(y) == y.pc \in {"idle", "next"} /\ \A d \in y.todo : d <= today

LEMMA FreshJob ==
  ASSUME NEW y, Fresh(y)
  PROVE  Working(y) /\ Scheduled(y)
  BY DEF Fresh, Working, Scheduled, Planning, Recomputing, SeenIsNamed

LEMMA RecomputeFresh ==
  ASSUME TypeInv, NEW p \in Procs, NEW days, Recompute(p, days), \A d \in days : d <= today
  PROVE  \E y : proc' = [proc EXCEPT ![p] = y] /\ Fresh(y) /\ y.pc = "next" /\ y.todo = days
<1> DEFINE y == [Idle EXCEPT !.pc = "next", !.todo = days]
<1>1. proc' = [proc EXCEPT ![p] = y] /\ y.pc = "next" /\ y.todo = days
  BY DEF Recompute, Idle
<1> HIDE DEF y
<1> QED BY <1>1 DEF Fresh

LEMMA IdleFound ==
  ASSUME StaleInv, NEW p \in Procs, proc[p].pc = "idle"
  PROVE  /\ Tables
         /\ \A s \in Students : \A d \in DOMAIN row[s] :
               today - Reach <= d => RightRow(s, d) \/ Reported(d)
  BY DEF StaleInv, JobInv, FoundBy, Owed, Recomputing

(* A recompute begun from rest: nightly close-out and backfill. *)
LEMMA BegunStale ==
  ASSUME SingleWriter, TypeInv, StaleInv, NEW p \in Procs, proc[p].pc = "idle",
         NEW days, Recompute(p, days), \A d \in days : d <= today,
         UNCHANGED <<stored, today>>
  PROVE  StaleInv'
<1>1. PICK y : proc' = [proc EXCEPT ![p] = y] /\ Fresh(y) /\ y.pc = "next" /\ y.todo = days
  BY RecomputeFresh
<1>2. Tables /\ FoundBy(y)
  BY IdleFound DEF FoundBy
<1>3. JobInv(y)
  BY <1>1, <1>2, FreshJob DEF JobInv
<1> QED BY <1>1, <1>2, <1>3, ReadKeeps

LEMMA StartSyncStale ==
  ASSUME SingleWriter, TypeInv, StaleInv, NEW p \in Procs, StartSync(p)
  PROVE  StaleInv'
<1> DEFINE x == proc[p]
           y == [x EXCEPT !.pc = "mirror", !.jobDay = today]
<1>1. x.pc = "idle" /\ ExecutionOK(x) /\ JobInv(x) /\ Tables /\ today \in Int
  BY DEF StartSync, TypeInv, TypeOK, StaleInv, Days
<1>2. proc' = [proc EXCEPT ![p] = y] /\ UNCHANGED <<stored, today>>
  BY <1>1 DEF StartSync, TypeInv, TypeOK, ExecutionOK
<1>3. y.pc = "mirror" /\ y.jobDay = today /\ y.todo = x.todo
  BY <1>1 DEF ExecutionOK
<1> HIDE DEF y
<1>4. Working(y)
  BY <1>3 DEF Working, Planning, SeenIsNamed
<1>5. Scheduled(y)
  BY <1>1, <1>3 DEF Scheduled, JobInv, Recomputing, Tables
<1>6. FoundBy(y)
  BY <1>1, IdleFound DEF FoundBy
<1> QED BY <1>1, <1>2, <1>4, <1>5, <1>6, ReadKeeps DEF JobInv

(* Every row is of the job's day or earlier, and a recent one is within the *)
(* job's reach.                                                             *)
LEMMA ResolveDaysStale ==
  ASSUME SingleWriter, TypeInv, StaleInv, NEW p \in Procs, ResolveDays(p)
  PROVE  StaleInv'
<1> DEFINE x == proc[p]
           days == DaysToRecompute(x)
<1>1. /\ x.pc = "mirror" /\ ExecutionOK(x) /\ JobInv(x) /\ Tables
      /\ Recompute(p, days) /\ UNCHANGED <<stored, today>>
  BY DEF ResolveDays, TypeInv, TypeOK, StaleInv
<1>2. x.jobDay \in Int /\ today \in Int /\ x.jobDay <= today
  BY <1>1 DEF JobInv, Scheduled, TypeInv, TypeOK, ExecutionOK, Days
<1>3. \A d \in days : d <= today
  BY <1>2, LastDayNat DEF DaysToRecompute, StaleDays
<1>4. PICK y : proc' = [proc EXCEPT ![p] = y] /\ Fresh(y) /\ y.pc = "next" /\ y.todo = days
  BY <1>1, <1>3, RecomputeFresh
<1>5. FoundBy(y)
  <2> SUFFICES ASSUME NEW s \in Students, NEW d \in DOMAIN row[s], today - Reach <= d,
                      ~ RightRow(s, d), ~ Reported(d)
               PROVE  d \in days
    BY <1>4 DEF FoundBy, Owed
  <2>1. \E e \in x.affected : d \in AssignmentDaysAffectedBy(e)
    BY <1>1 DEF JobInv, FoundBy, Owed, Recomputing
  <2>2. d <= x.jobDay
    BY <1>1 DEF JobInv, Scheduled
  <2>3. d \in Int
    BY DEF TypeInv, TypeOK, Partial, Days
  <2>4. d \in (x.jobDay - Reach) .. x.jobDay
    BY <1>2, <2>2, <2>3, LastDayNat
  <2> QED BY <2>1, <2>4 DEF DaysToRecompute
<1>6. JobInv(y)
  BY <1>4, <1>5, FreshJob DEF JobInv
<1> QED BY <1>1, <1>4, <1>6, ReadKeeps

(* A submission changes the figures of the days of its window only. *)
LEMMA MirrorGrown ==
  ASSUME SingleWriter, TypeInv, NEW p \in Procs, NEW x, NEW y, NEW s \in Students,
         NEW q \in Problems, NEW d \in Days, Tables, JobInv(x), x.pc = "mirror",
         y.pc = "mirror", y.jobDay = x.jobDay, y.todo = x.todo, y.affected = x.affected \cup {d},
         proc' = [proc EXCEPT ![p] = y], mirror' = [mirror EXCEPT ![s] = @ \cup {<<q, d>>}],
         UNCHANGED <<asg, targeted, newer, active, row, today>>
  PROVE  StaleInv'
<1>1. \A r \in Procs : proc'[r] = y
  BY OneMoves
<1>2. Working(y)'
  BY DEF Working, Planning, SeenIsNamed
<1>3. Scheduled(y)'
  BY DEF Scheduled, JobInv, Recomputing
<1>4. FoundBy(y)'
  <2> SUFFICES ASSUME NEW t \in Students, NEW e \in DOMAIN row[t], today - Reach <= e,
                      ~ Reported(e)', ~ Owed(y, t, e)
               PROVE  RightRow(t, e)'
    BY DEF FoundBy, Owed
  <2>1. ~ Reported(e)
    BY DEF Reported
  <2>2. ~ Owed(x, t, e)
    BY DEF Owed, Recomputing
  <2>3. RightRow(t, e)
    BY <2>1, <2>2 DEF JobInv, FoundBy
  <2>4. DaySets(e)' = DaySets(e)
    BY DEF DaySets, SetsOf
  <2>5. CASE t # s
    <3>1. mirror'[t] = mirror[t]
      BY <2>5 DEF TypeInv, TypeOK
    <3> QED BY <2>3, <2>4, <3>1 DEF RightRow
  <2>6. CASE t = s
    <3> DEFINE old == mirror[s]
               new == mirror'[s]
    <3>1. new = old \cup {<<q, d>>}
      BY DEF TypeInv, TypeOK
    <3>2. e \notin AssignmentDaysAffectedBy(d) /\ e \in Int /\ d \in Int
      BY DEF Owed, TypeInv, TypeOK, Partial, Days
    <3>3. ASSUME NEW assigned
          PROVE  SolvedInWindow(new, assigned, e) = SolvedInWindow(old, assigned, e)
      <4> HIDE DEF old, new
      <4>1. d \notin AssignmentWindow(e)
        BY <3>2, LastDayNat DEF AssignmentWindow, AssignmentDaysAffectedBy
      <4>2. \A z \in assigned : \A w \in AssignmentWindow(e) :
               <<z, w>> \in new <=> <<z, w>> \in old
        BY <3>1, <4>1
      <4> QED BY <4>2 DEF SolvedInWindow
    <3>4. Right(DaySets(e), old, Home[t], e, row[t][e])
      BY <2>3, <2>6 DEF RightRow
    <3> DEFINE sets == DaySets(e)
               r == row[t][e]
               a == IF r.asg # None THEN r.asg
                    ELSE SelectForScope([b \in DOMAIN sets |-> sets[b].scope], Home[t])
               assigned == IF a = None THEN {} ELSE sets[a].problems
    <3>5. r.asg = a /\ r.assigned = assigned /\ r.inWindow = SolvedInWindow(old, assigned, e)
      BY <3>4 DEF Right
    <3> HIDE DEF assigned, old, new
    <3>6. r.inWindow = SolvedInWindow(new, assigned, e)
      BY <3>3, <3>5
    <3>7. Right(DaySets(e), new, Home[t], e, row[t][e])
      BY <3>5, <3>6 DEF Right, assigned
    <3> QED BY <2>4, <2>6, <3>7 DEF RightRow, new
  <2> QED BY <2>5, <2>6
<1>5. Tables'
  BY DEF Tables, SetsOf
<1>6. JobInv(y)'
  BY <1>2, <1>3, <1>4 DEF JobInv
<1>7. ASSUME NEW r \in Procs PROVE JobInv(proc[r])'
  <2> HIDE DEF JobInv
  <2> QED BY <1>1, <1>6
<1> QED BY <1>5, <1>7 DEF StaleInv

LEMMA MirrorStale ==
  ASSUME SingleWriter, TypeInv, StaleInv, NEW p \in Procs, NEW s \in Students, NEW q \in Problems,
         NEW d \in Days, Mirror(p, s, q, d)
  PROVE  StaleInv'
<1> DEFINE x == proc[p]
           y == [x EXCEPT !.affected = x.affected \cup {d}]
<1>1. x.pc = "mirror" /\ ExecutionOK(x) /\ JobInv(x) /\ Tables
  BY DEF Mirror, TypeInv, TypeOK, StaleInv
<1>2. /\ proc' = [proc EXCEPT ![p] = y] /\ mirror' = [mirror EXCEPT ![s] = @ \cup {<<q, d>>}]
      /\ UNCHANGED <<asg, targeted, newer, active, row, today>>
  BY <1>1 DEF Mirror, TypeInv, TypeOK, ExecutionOK
<1>3. /\ y.pc = "mirror" /\ y.jobDay = x.jobDay /\ y.todo = x.todo
      /\ y.affected = x.affected \cup {d}
  BY <1>1 DEF ExecutionOK
<1> HIDE DEF x, y
<1> QED BY <1>1, <1>2, <1>3, MirrorGrown

-----------------------------------------------------------------------------
(* An edit of day d: the assignment is newer than every row of it. *)
LEMMA EditStale ==
  ASSUME TypeInv, NEW p \in Procs, StaleInv, proc[p].pc = "idle",
         NEW y, Fresh(y), \A q \in Procs : proc'[q] = y,
         NEW a \in Assignments, NEW d \in Days, d <= today,
         asg[a].day \in {0, d}, asg'[a].day = d, targeted'[a] # {},
         \A b \in Assignments : b # a => asg'[b] = asg[b] /\ targeted'[b] = targeted[b],
         newer' = newer \cup {a}, UNCHANGED <<mirror, active, row, today>>,
         DOMAIN asg' = DOMAIN asg
  PROVE  StaleInv'
<1>2. Tables /\ d # 0
  BY IdleFound, LastDayNat DEF Days
<1>3. ASSUME NEW e \in Days, e # d
      PROVE  DaySets(e)' = DaySets(e) /\ SetsOf(e)' = SetsOf(e)
  <2>1. e # 0
    BY <1>3, LastDayNat DEF Days
  <2>2. \A b \in Assignments : asg'[b].day = e <=> asg[b].day = e
    BY <1>3, <2>1
  <2>3. SetsOf(e)' = SetsOf(e)
    BY <2>2 DEF SetsOf
  <2>4. \A b \in SetsOf(e) : asg'[b] = asg[b]
    BY <1>3, <2>1 DEF SetsOf
  <2> QED BY <2>3, <2>4 DEF DaySets
<1>4. Working(y)' /\ Scheduled(y)'
  <2>1. Fresh(y)'
    BY DEF Fresh
  <2> QED BY <2>1 DEF Fresh, Working, Scheduled, Planning, Recomputing, SeenIsNamed
<1>5. FoundBy(y)'
  <2> SUFFICES ASSUME NEW s \in Students, NEW e \in DOMAIN row[s], today - Reach <= e
               PROVE  RightRow(s, e)' \/ Reported(e)'
    BY DEF FoundBy
  <2>1. e \in Days
    BY DEF TypeInv, TypeOK, Partial
  <2>2. RightRow(s, e) \/ Reported(e)
    BY IdleFound
  <2>3. CASE e = d
    BY <2>3 DEF Reported
  <2>4. CASE e # d /\ RightRow(s, e)
    BY <1>3, <2>1, <2>4 DEF RightRow
  <2>5. CASE e # d /\ Reported(e)
    <3>1. CASE \E b \in newer : asg[b].day = e
      <4>1. PICK b \in newer : asg[b].day = e
        BY <3>1
      <4>2. b \in Assignments /\ b # a
        BY <2>1, <2>5, <4>1, LastDayNat DEF TypeInv, TypeOK, Live, Days
      <4> QED BY <4>1, <4>2 DEF Reported
    <3>2. CASE ~ \E b \in newer : asg[b].day = e
      BY <2>5, <3>2 DEF Reported
    <3> QED BY <3>1, <3>2
  <2> QED BY <2>2, <2>3, <2>4, <2>5
<1>6. Tables'
  <2>1. \A b \in Assignments : asg'[b].day # 0 => targeted'[b] # {} /\ asg'[b].day <= today
    BY <1>2 DEF Tables
  <2>2. ASSUME NEW s \in Students, NEW e \in DOMAIN row[s], row[s][e].asg # None
        PROVE  row[s][e].asg \in SetsOf(e)'
    <3>1. e \in Days /\ row[s][e].asg \in SetsOf(e)
      BY <1>2, <2>2 DEF TypeInv, TypeOK, Partial, Tables
    <3>2. CASE e # d
      BY <1>3, <3>1, <3>2
    <3>3. CASE e = d
      BY <3>1, <3>3 DEF SetsOf
    <3> QED BY <3>2, <3>3
  <2> QED BY <1>2, <2>1, <2>2 DEF Tables
<1>7. JobInv(y)'
  BY <1>4, <1>5 DEF JobInv
<1>8. ASSUME NEW q \in Procs PROVE JobInv(proc[q])'
  <2> HIDE DEF JobInv
  <2> QED BY <1>7
<1> QED BY <1>6, <1>8 DEF StaleInv

(* What reconcileAssignmentDay schedules of a day that is not ahead. *)
LEMMA ReconcileFresh ==
  ASSUME SingleWriter, TypeInv, StaleInv, NEW p \in Procs, proc[p].pc = "idle",
         NEW d \in Days, d <= today, ReconcileAssignmentDay(p, d)
  PROVE  \E y : Fresh(y) /\ \A q \in Procs : proc'[q] = y
<1>1. CASE UNCHANGED proc
  <2>1. Fresh(proc[p])
    BY DEF StaleInv, JobInv, Scheduled, Fresh
  <2>2. \A q \in Procs : proc'[q] = proc[p]
    BY <1>1 DEF SingleWriter
  <2> QED BY <2>1, <2>2
<1>2. CASE Recompute(p, DayRange(d, IF d > today THEN d ELSE today))
  <2>1. \A e \in DayRange(d, IF d > today THEN d ELSE today) : e <= today
    BY DEF DayRange, TypeInv, TypeOK, Days
  <2>2. PICK y : proc' = [proc EXCEPT ![p] = y] /\ Fresh(y)
    BY <1>2, <2>1, RecomputeFresh
  <2> QED BY <2>2, OneMoves
<1> QED BY <1>1, <1>2 DEF ReconcileAssignmentDay

LEMMA CreateStale ==
  ASSUME OneWriter, TypeInv, StaleInv, NEW p \in Procs, NEW a \in Assignments, NEW d \in Days,
         NEW scope \in Scopes, NEW problems \in SUBSET Problems, Create(p, a, d, scope, problems)
  PROVE  StaleInv'
<1> DEFINE entry == [day |-> d, scope |-> scope, problems |-> problems]
<1>1. /\ proc[p].pc = "idle" /\ targeted[a] = {} /\ ReconcileAssignmentDay(p, d)
      /\ asg' = [asg EXCEPT ![a] = entry] /\ targeted' = [targeted EXCEPT ![a] = {scope}]
      /\ newer' = newer \cup {a} /\ UNCHANGED <<mirror, active, row, today>>
  BY DEF Create
<1>2. d <= today
  BY DEF Create, OneWriter, TypeInv, TypeOK, Days
<1>3. PICK y : Fresh(y) /\ \A q \in Procs : proc'[q] = y
  BY <1>1, <1>2, ReconcileFresh DEF OneWriter
<1>4. asg[a].day = 0
  BY <1>1, IdleFound DEF Tables
<1>5. /\ asg'[a].day = d /\ targeted'[a] # {} /\ DOMAIN asg' = DOMAIN asg
      /\ \A b \in Assignments : b # a => asg'[b] = asg[b] /\ targeted'[b] = targeted[b]
  BY <1>1 DEF TypeInv, TypeOK
<1> QED BY <1>1, <1>2, <1>3, <1>4, <1>5, EditStale

LEMMA UpdateStale ==
  ASSUME OneWriter, TypeInv, StaleInv, NEW p \in Procs, NEW a \in Assignments,
         NEW problems \in SUBSET Problems, Update(p, a, problems)
  PROVE  StaleInv'
<1> DEFINE d == asg[a].day
<1>1. /\ proc[p].pc = "idle" /\ a \in Live /\ ReconcileAssignmentDay(p, d)
      /\ asg' = [asg EXCEPT ![a].problems = problems]
      /\ newer' = newer \cup {a} /\ UNCHANGED <<targeted, mirror, active, row, today>>
  BY DEF Update
<1>2. d \in Days /\ d # 0
  BY <1>1 DEF Live, TypeInv, TypeOK, AssignmentRow
<1>3. d <= today /\ targeted[a] # {}
  BY <1>1, <1>2, IdleFound DEF Tables
<1>4. /\ asg'[a].day = d /\ DOMAIN asg' = DOMAIN asg
      /\ \A b \in Assignments : b # a => asg'[b] = asg[b]
  BY <1>1 DEF TypeInv, TypeOK, AssignmentRow
<1> HIDE DEF d
<1>5. PICK y : Fresh(y) /\ \A q \in Procs : proc'[q] = y
  BY <1>1, <1>2, <1>3, ReconcileFresh DEF OneWriter
<1>6. asg[a].day = d
  BY DEF d
<1> QED BY <1>1, <1>2, <1>3, <1>4, <1>5, <1>6, EditStale

LEMMA ChangeTargetStale ==
  ASSUME OneWriter, TypeInv, StaleInv, NEW p \in Procs, NEW a \in Assignments,
         NEW scope \in Scopes, ChangeTarget(p, a, scope)
  PROVE  StaleInv'
<1> DEFINE d == asg[a].day
           y == proc[p]
<1>1. /\ proc[p].pc = "idle" /\ a \in Live /\ UNCHANGED proc
      /\ asg' = [asg EXCEPT ![a].scope = scope]
      /\ targeted' = [targeted EXCEPT ![a] = @ \cup {scope}]
      /\ newer' = newer \cup {a} /\ UNCHANGED <<mirror, active, row, today>>
  BY DEF ChangeTarget
<1>2. d \in Days /\ d # 0
  BY <1>1 DEF Live, TypeInv, TypeOK, AssignmentRow
<1>3. d <= today
  BY <1>1, <1>2, IdleFound DEF Tables
<1>4. /\ asg'[a].day = d /\ targeted'[a] # {} /\ DOMAIN asg' = DOMAIN asg
      /\ \A b \in Assignments : b # a => asg'[b] = asg[b] /\ targeted'[b] = targeted[b]
  BY <1>1 DEF TypeInv, TypeOK, AssignmentRow
<1>5. \A q \in Procs : proc'[q] = y
  BY <1>1 DEF OneWriter, SingleWriter
<1>6. Fresh(y)
  BY <1>1 DEF StaleInv, JobInv, Scheduled, Fresh
<1>7. asg[a].day = d
  BY DEF d
<1> HIDE DEF d, y
<1> QED BY <1>1, <1>2, <1>3, <1>4, <1>5, <1>6, <1>7, EditStale

(* A removal: the rows of that day lose the name, and are recomputed. *)
LEMMA RemovedStale ==
  ASSUME TypeInv, NEW p \in Procs, StaleInv, proc[p].pc = "idle",
         NEW a \in Live, NEW d \in Days, asg[a].day = d,
         NEW y, Fresh(y), y.pc = "next", y.todo = {d}, \A q \in Procs : proc'[q] = y,
         asg'[a].day = 0, \A b \in Assignments : b # a => asg'[b] = asg[b],
         newer' = newer \ {a}, UNCHANGED <<targeted, mirror, active, today>>,
         \A s \in Students :
            /\ DOMAIN row'[s] = DOMAIN row[s]
            /\ \A e \in DOMAIN row[s] :
                  /\ row[s][e].asg # a => row'[s][e] = row[s][e]
                  /\ row[s][e].asg = a => row'[s][e].asg = None
  PROVE  StaleInv'
<1>1. Tables /\ d # 0
  BY IdleFound, LastDayNat DEF Days
<1>2. ASSUME NEW e \in Days, e # d
      PROVE  DaySets(e)' = DaySets(e) /\ SetsOf(e)' = SetsOf(e)
  <2>1. e # 0
    BY LastDayNat DEF Days
  <2>2. \A b \in Assignments : asg'[b].day = e <=> asg[b].day = e
    BY <1>2, <2>1
  <2>3. SetsOf(e)' = SetsOf(e)
    BY <2>2 DEF SetsOf
  <2>4. \A b \in SetsOf(e) : asg'[b] = asg[b]
    BY <1>2, <2>1 DEF SetsOf
  <2> QED BY <2>3, <2>4 DEF DaySets
<1>3. ASSUME NEW s \in Students, NEW e \in DOMAIN row[s], e # d
      PROVE  row'[s][e] = row[s][e]
  BY <1>1, <1>3, RollupAssumption DEF Tables, SetsOf, Live
<1>4. Working(y)' /\ Scheduled(y)'
  <2>1. Fresh(y)'
    BY DEF Fresh
  <2> QED BY <2>1 DEF Fresh, Working, Scheduled, Planning, Recomputing, SeenIsNamed
<1>5. FoundBy(y)'
  <2> SUFFICES ASSUME NEW s \in Students, NEW e \in DOMAIN row'[s], today - Reach <= e, e # d
               PROVE  RightRow(s, e)' \/ Reported(e)'
    BY DEF FoundBy, Owed
  <2>1. e \in Days /\ e \in DOMAIN row[s]
    BY DEF TypeInv, TypeOK, Partial
  <2>2. RightRow(s, e) \/ Reported(e)
    BY <2>1, IdleFound
  <2>3. CASE RightRow(s, e)
    BY <1>2, <1>3, <2>1, <2>3 DEF RightRow
  <2>4. CASE Reported(e)
    <3>1. CASE \E b \in newer : asg[b].day = e
      <4>1. PICK b \in newer : asg[b].day = e
        BY <3>1
      <4>2. b \in Assignments /\ b # a
        BY <4>1 DEF TypeInv, TypeOK, Live
      <4> QED BY <4>1, <4>2 DEF Reported
    <3>2. CASE ~ \E b \in newer : asg[b].day = e
      <4>1. PICK t \in Students : e \in DOMAIN row[t] /\ row[t][e].asg = None /\ row[t][e].assigned # {}
        BY <2>4, <3>2 DEF Reported
      <4>2. e \in DOMAIN row'[t] /\ row'[t][e] = row[t][e]
        BY <1>3, <4>1
      <4> QED BY <4>1, <4>2 DEF Reported
    <3> QED BY <3>1, <3>2
  <2> QED BY <2>2, <2>3, <2>4
<1>6. Tables'
  <2>1. \A b \in Assignments : asg'[b].day # 0 => targeted'[b] # {} /\ asg'[b].day <= today
    BY <1>1 DEF Tables
  <2>2. ASSUME NEW s \in Students, NEW e \in DOMAIN row'[s]
        PROVE  e <= today /\ EnrolledFrom[s] <= e
               /\ (row'[s][e].asg # None => row'[s][e].asg \in SetsOf(e)')
    <3>1. e \in DOMAIN row[s] /\ e \in Days /\ e <= today /\ EnrolledFrom[s] <= e
      BY <1>1 DEF TypeInv, TypeOK, Partial, Tables
    <3>2. CASE row[s][e].asg # a
      BY <1>1, <3>1, <3>2 DEF Tables, SetsOf
    <3>3. CASE row[s][e].asg = a
      BY <3>1, <3>3
    <3> QED BY <3>1, <3>2, <3>3
  <2> QED BY <1>1, <2>1, <2>2 DEF Tables
<1>7. JobInv(y)'
  BY <1>4, <1>5 DEF JobInv
<1>8. ASSUME NEW q \in Procs PROVE JobInv(proc[q])'
  <2> HIDE DEF JobInv
  <2> QED BY <1>7
<1> QED BY <1>6, <1>8 DEF StaleInv

LEMMA RemoveStale ==
  ASSUME OneWriter, TypeInv, StaleInv, NEW p \in Procs, NEW a \in Assignments, Remove(p, a)
  PROVE  StaleInv'
<1> DEFINE d == asg[a].day
<1>1. /\ proc[p].pc = "idle" /\ a \in Live /\ Recompute(p, {d})
      /\ asg' = [asg EXCEPT ![a] = NoAssignment]
      /\ newer' = newer \ {a} /\ UNCHANGED <<targeted, mirror, active, today>>
  BY DEF Remove
<1>2. d \in Days
  BY <1>1 DEF Live, TypeInv, TypeOK, AssignmentRow
<1>3. d <= today
  BY <1>1, IdleFound DEF Tables, Live
<1>4. asg'[a].day = 0 /\ \A b \in Assignments : b # a => asg'[b] = asg[b]
  BY <1>1 DEF TypeInv, TypeOK, NoAssignment
<1>5. ASSUME NEW s \in Students
      PROVE  /\ DOMAIN row'[s] = DOMAIN row[s]
             /\ \A e \in DOMAIN row[s] :
                  /\ row[s][e].asg # a => row'[s][e] = row[s][e]
                  /\ row[s][e].asg = a => row'[s][e].asg = None
  <2>1. /\ DOMAIN row'[s] = DOMAIN row[s]
        /\ \A e \in DOMAIN row[s] :
              row'[s][e] = IF row[s][e].asg = a THEN [row[s][e] EXCEPT !.asg = None] ELSE row[s][e]
    BY DEF Remove
  <2>2. \A e \in DOMAIN row[s] : row[s][e] \in Figures
    BY DEF TypeInv, TypeOK, Partial
  <2> QED BY <2>1, <2>2 DEF Figures
<1> HIDE DEF d
<1>6. PICK y : proc' = [proc EXCEPT ![p] = y] /\ Fresh(y) /\ y.pc = "next" /\ y.todo = {d}
  BY <1>1, <1>3, RecomputeFresh
<1>7. \A q \in Procs : proc'[q] = y
  BY <1>6, OneMoves DEF OneWriter
<1>8. asg[a].day = d
  BY DEF d
<1> QED BY <1>1, <1>2, <1>4, <1>5, <1>6, <1>7, <1>8, RemovedStale

LEMMA ReachShrinks ==
  ASSUME NEW t \in Int, NEW u \in Int, t <= u, NEW d \in Int, u - Reach <= d
  PROVE  t - Reach <= d
  BY LastDayNat

(* Another day: the reach of the syncs moves on. *)
LEMMA MidnightStale ==
  ASSUME TypeInv, StaleInv, UNCHANGED stored, UNCHANGED proc,
         today' = today \/ today' = today + 1
  PROVE  StaleInv'
<1>1. today \in Int /\ today' \in Int /\ today <= today'
  BY DEF TypeInv, TypeOK, Days
<1>2. Tables'
  <2>1. \A a \in Assignments : asg[a].day \in Int
    BY DEF TypeInv, TypeOK, AssignmentRow, Days
  <2>2. \A s \in Students : \A d \in DOMAIN row[s] : d \in Int
    BY DEF TypeInv, TypeOK, Partial, Days
  <2> QED BY <1>1, <2>1, <2>2 DEF StaleInv, Tables, SetsOf, stored
<1>3. ASSUME NEW x, ExecutionOK(x), JobInv(x)
      PROVE  JobInv(x)'
  <2>1. Working(x)'
    BY <1>3 DEF stored, JobInv, Working, SeenIsNamed, Planned, RightRow, DaySets, SetsOf, Roster, Named
  <2>2. Scheduled(x)'
    <3>1. x.day \in Int /\ x.jobDay \in Int /\ \A d \in x.todo : d \in Int
      BY <1>3 DEF ExecutionOK, Days
    <3> QED BY <1>1, <1>3, <3>1 DEF stored, JobInv, Scheduled
  <2>3. FoundBy(x)'
    <3> SUFFICES ASSUME NEW s \in Students, NEW d \in DOMAIN row[s], today' - Reach <= d
                 PROVE  (RightRow(s, d) \/ Reported(d) \/ Owed(x, s, d))'
      BY DEF FoundBy, stored
    <3>1. d \in Int
      BY DEF TypeInv, TypeOK, Partial, Days
    <3>2. today - Reach <= d
      BY <1>1, <3>1, ReachShrinks
    <3>3. RightRow(s, d) \/ Reported(d) \/ Owed(x, s, d)
      BY <1>3, <3>2 DEF JobInv, FoundBy
    <3>4. RightRow(s, d) => RightRow(s, d)'
      BY DEF RightRow, DaySets, SetsOf, stored
    <3>5. Reported(d) => Reported(d)'
      BY DEF Reported, stored
    <3>6. Owed(x, s, d) => Owed(x, s, d)'
      BY DEF Owed
    <3> QED BY <3>3, <3>4, <3>5, <3>6
  <2> QED BY <2>1, <2>2, <2>3 DEF JobInv
<1>4. ASSUME NEW q \in Procs PROVE JobInv(proc[q])'
  <2>1. JobInv(proc[q]) /\ ExecutionOK(proc[q]) /\ proc'[q] = proc[q]
    BY DEF StaleInv, TypeInv, TypeOK
  <2> HIDE DEF JobInv
  <2> QED BY <1>3, <2>1
<1> QED BY <1>2, <1>4 DEF StaleInv

LEMMA StaleStep == OneWriter /\ TypeInv /\ StaleInv /\ [Next]_vars => StaleInv'
<1> SUFFICES ASSUME OneWriter, TypeInv, StaleInv, [Next]_vars PROVE StaleInv'
  OBVIOUS
<1> USE DEF OneWriter
<1>1. ASSUME NEW p \in Procs, RecomputeStep(p) PROVE StaleInv'
  BY <1>1, ReadAssignmentsStale, ReadRosterStale, ReadEvidenceStale, ReadHistoryStale,
     FindRowStale, UpsertStale, DayDoneStale DEF RecomputeStep
<1>2. ASSUME NEW p \in Procs, SyncStep(p) PROVE StaleInv'
  BY <1>2, StartSyncStale, ResolveDaysStale, MirrorStale DEF SyncStep
<1>3. ASSUME NEW p \in Procs, EditStep(p) PROVE StaleInv'
  BY <1>3, CreateStale, UpdateStale, ChangeTargetStale, RemoveStale DEF EditStep
<1>4. ASSUME NEW p \in Procs, NightlyRollup(p) PROVE StaleInv'
  <2>1. \A d \in {today - 1} : d <= today
    BY DEF TypeInv, TypeOK, Days
  <2> QED BY <1>4, <2>1, BegunStale DEF NightlyRollup
<1>5. ASSUME NEW p \in Procs, NEW d \in Days, BackfillDay(p, d) PROVE StaleInv'
  <2>1. \A e \in DayRange(d, today) : e <= today
    BY DEF DayRange, TypeInv, TypeOK, Days
  <2> QED BY <1>5, <2>1, BegunStale DEF BackfillDay
<1>6. CASE Midnight \/ UNCHANGED vars
  BY <1>6, MidnightStale DEF Midnight, vars, stored
<1>7. ~ (\E p \in Procs : Fail(p)) /\ ~ (\E s \in Students : SetActive(s))
  BY DEF Fail, SetActive
<1> QED BY <1>1, <1>2, <1>3, <1>4, <1>5, <1>6, <1>7 DEF Next

(* What Measured asks of a row is that its figures are right. *)
LEMMA MeasuredIs ==
  ASSUME TypeInv, Tables, NEW s \in Students, NEW d \in DOMAIN row[s], RightRow(s, d)
  PROVE  Measured(s, d)
<1> DEFINE r == row[s][d]
           sets == DaySets(d)
           a == IF r.asg # None THEN r.asg
                ELSE SelectForScope([b \in DOMAIN sets |-> sets[b].scope], Home[s])
           assigned == IF a = None THEN {} ELSE sets[a].problems
           best == SelectForScope([b \in SetsOf(d) |-> asg[b].scope], Home[s])
           c == IF r.asg # None THEN r.asg ELSE best
           problems == IF c = None THEN {} ELSE asg[c].problems
<1>1. r.asg = a /\ r.assigned = assigned /\ r.inWindow = SolvedInWindow(mirror[s], assigned, d)
  BY DEF RightRow, Right
<1>2. DOMAIN sets = SetsOf(d) /\ \A b \in SetsOf(d) : sets[b] = asg[b]
  BY DEF DaySets
<1>3. [b \in DOMAIN sets |-> sets[b].scope] = [b \in SetsOf(d) |-> asg[b].scope]
  BY <1>2
<1>4. a = c
  BY <1>3
<1>5. a # None => a \in SetsOf(d)
  BY <1>1 DEF Tables
<1>6. assigned = problems
  BY <1>2, <1>4, <1>5
<1>7. d \in Int /\ mirror[s] \subseteq Problems \X Days
  BY DEF TypeInv, TypeOK, Partial, Days
<1>8. SolvedInWindow(mirror[s], problems, d)
        = {q \in problems : \E x \in mirror[s] : x[1] = q /\ d - Lookback <= x[2] /\ x[2] <= d}
  <2> HIDE DEF problems
  <2>1. ASSUME NEW q \in problems, NEW e \in AssignmentWindow(d), <<q, e>> \in mirror[s]
        PROVE  \E x \in mirror[s] : x[1] = q /\ d - Lookback <= x[2] /\ x[2] <= d
    BY <1>7, <2>1, LastDayNat DEF AssignmentWindow
  <2>2. ASSUME NEW q \in problems, NEW x \in mirror[s], x[1] = q, d - Lookback <= x[2], x[2] <= d
        PROVE  \E e \in AssignmentWindow(d) : <<q, e>> \in mirror[s]
    <3>1. x[2] \in AssignmentWindow(d) /\ x = <<q, x[2]>>
      BY <1>7, <2>2, LastDayNat DEF AssignmentWindow, Days
    <3> QED BY <3>1
  <2> QED BY <2>1, <2>2 DEF SolvedInWindow
<1>9. r.asg = c /\ r.assigned = problems
  BY <1>1, <1>4, <1>6
<1>10. r.inWindow = {q \in problems : \E x \in mirror[s] : x[1] = q /\ d - Lookback <= x[2] /\ x[2] <= d}
  BY Zenon, <1>1, <1>6, <1>8
<1> QED BY Zenon, <1>9, <1>10 DEF Measured

LEMMA StaleInit == Init => StaleInv
  BY LastDayNat
     DEF Init, StaleInv, Tables, NoAssignment, NoOne, JobInv, Working, Scheduled, FoundBy, Idle,
         Planning, Recomputing, SeenIsNamed

(* With one recompute at a time, none of them failing, no student archived  *)
(* and no assignment entered ahead of its day: a recent row that is out of  *)
(* date is of a day that findStaleAssignmentDays reports, whatever the      *)
(* edits, retargetings, removals, backfills and late submissions.           *)
THEOREM StaleFound == Spec /\ OneWriter => []StaleDaysAreFound
<1> DEFINE IInv == OneWriter /\ StaleInv
<1>1. Init /\ OneWriter => IInv
  BY StaleInit
<1>2. TypeInv /\ IInv /\ [Next]_vars => IInv'
  BY StaleStep DEF OneWriter, SingleWriter
<1>3. TypeInv /\ IInv => StaleDaysAreFound
  <2> SUFFICES ASSUME TypeInv, IInv, Quiet, NEW s \in Students, NEW d \in DOMAIN row[s] \cap Recent,
                      ~ Measured(s, d)
               PROVE  d \in StaleDays(today - Reach, today)
    BY DEF StaleDaysAreFound, TypeInv, TypeOK
  <2>1. PICK p \in Procs : proc[p].pc = "idle"
    BY DEF Quiet, OneWriter, SingleWriter
  <2>2. today - Reach <= d /\ d \in (today - Reach) .. today
    BY LastDayNat DEF Recent, TypeInv, TypeOK, Days
  <2>3. Tables /\ (RightRow(s, d) \/ Reported(d))
    BY <2>1, <2>2, IdleFound
  <2>4. Reported(d)
    BY <2>3, MeasuredIs
  <2> QED BY <2>2, <2>4 DEF Reported, StaleDays
<1> HIDE DEF IInv
<1> QED BY <1>1, <1>2, <1>3, Typed, PTL DEF Spec

-----------------------------------------------------------------------------
(* Every recompute ends on the last day that has rows, so that the newest   *)
(* row of a student is counted from the rows before it as they stand.       *)
Upcoming(x) == IF x.pc = "next" THEN x.todo ELSE x.todo \cup {x.day}
Newest(s, d) == d \in DOMAIN row[s] /\ \A e \in DOMAIN row[s] : e <= d

Ends(x) ==
    /\ x.pc \in Recomputing => \A e \in x.todo : x.day < e
    /\ x.pc \in {"next"} \cup Recomputing =>
          \A s \in Students : \A d \in DOMAIN row[s] : \E e \in Upcoming(x) : d <= e
Counted(x) ==
    /\ x.pc \in {"idle", "mirror"} =>
          \A s \in Students : \A d \in DOMAIN row[s] : Newest(s, d) => Reconciled(s, d)
    /\ x.pc \in {"persist", "upsert"} =>
          /\ \A s \in DOMAIN x.plan :
                x.plan[s].streak
                  = Streak(Stored(History(s, x.day), x.day, x.plan[s]), x.day, EnrolledFrom[s])
          /\ \A s \in Students \ DOMAIN x.plan :
                EnrolledFrom[s] <= x.day => x.day \in DOMAIN row[s] /\ Reconciled(s, x.day)
Followed(x) == Ends(x) /\ Counted(x)
FollowInv == Removed = {} => \A p \in Procs : Followed(proc[p])

(* Days after the reference day, and the streaks stored, do not count. *)
LEMMA StreakAgree ==
  ASSUME NEW f, NEW g, NEW ref, NEW from,
         \A d : d <= ref => (d \in DOMAIN f <=> d \in DOMAIN g),
         \A d \in DOMAIN f : d <= ref => f[d].assigned = g[d].assigned /\ f[d].inWindow = g[d].inWindow
  PROVE  Streak(f, ref, from) = Streak(g, ref, from)
<1> DEFINE C(h) == {d \in DOMAIN h : h[d].assigned # {} /\ from <= d /\ d <= ref}
           M(h) == {d \in C(h) : Qualifies(h[d])}
           U(h) == C(h) \ (M(h) \cup {ref})
           R(h) == {d \in M(h) : \A m \in U(h) : m < d}
<1>1. C(f) = C(g)
  OBVIOUS
<1>2. \A d \in C(f) : Qualifies(f[d]) <=> Qualifies(g[d])
  BY DEF Qualifies
<1> HIDE DEF C
<1>3. M(f) = M(g)
  BY <1>1, <1>2
<1> HIDE DEF M
<1>4. U(f) = U(g)
  BY <1>1, <1>3
<1> HIDE DEF U
<1>5. R(f) = R(g)
  BY <1>3, <1>4
<1>6. \A h : Streak(h, ref, from) = Cardinality(R(h))
  BY DEF Streak, C, M, U
<1> HIDE DEF R
<1> QED BY <1>5, <1>6

LEMMA SameFollowed ==
  ASSUME UNCHANGED row, NEW y, Followed(y)
  PROVE  Followed(y)'
<1>1. Ends(y)'
  BY DEF Followed, Ends, Upcoming
<1>2. Counted(y)'
  BY DEF Followed, Counted, Newest, Reconciled, History
<1> QED BY <1>1, <1>2 DEF Followed

(* A step that changes no row. *)
LEMMA RowsKept ==
  ASSUME UNCHANGED row, NEW y, \A q \in Procs : proc'[q] = y, Followed(y)
  PROVE  FollowInv'
<1>1. Followed(y)'
  BY SameFollowed
<1> HIDE DEF Followed
<1>2. ASSUME NEW q \in Procs PROVE Followed(proc[q])'
  BY <1>1
<1> QED BY <1>2 DEF FollowInv

LEMMA ReadAssignmentsFollow ==
  ASSUME SingleWriter, TypeInv, NEW p \in Procs, Followed(proc[p]), ReadAssignments(p)
  PROVE  FollowInv'
<1> DEFINE x == proc[p]
           d == CHOOSE e \in x.todo : \A f \in x.todo : e <= f
           y == [x EXCEPT !.pc = "roster", !.day = d, !.todo = x.todo \ {d}, !.sets = DaySets(d)]
<1>1. x.pc = "next" /\ ExecutionOK(x) /\ x.todo \in SUBSET Days /\ x.todo # {}
  BY DEF ReadAssignments, TypeInv, TypeOK, PhaseOK, ExecutionOK
<1>2. d \in x.todo /\ \A f \in x.todo : d <= f
  BY <1>1, SmallestDay
<1>8. proc' = [proc EXCEPT ![p].pc = "roster", ![p].day = d, ![p].todo = @ \ {d},
                         ![p].sets = DaySets(d)]
      /\ UNCHANGED row
  BY Zenon DEF ReadAssignments, DaySets, stored
<1> HIDE DEF d
<1>3. proc' = [proc EXCEPT ![p] = y] /\ UNCHANGED row
  BY <1>8 DEF TypeInv, TypeOK
<1>4. y.pc = "roster" /\ y.day = d /\ y.todo = x.todo \ {d}
  BY <1>1 DEF ExecutionOK
<1> HIDE DEF y
<1>5. Ends(y)
  <2>1. \A e \in y.todo : y.day < e
    BY <1>1, <1>2, <1>4 DEF Days
  <2>2. Upcoming(y) = Upcoming(x)
    BY <1>1, <1>2, <1>4 DEF Upcoming
  <2> QED BY <1>1, <1>4, <2>1, <2>2 DEF Followed, Ends
<1>6. Followed(y)
  BY <1>4, <1>5 DEF Followed, Counted
<1>7. \A q \in Procs : proc'[q] = y
  BY <1>3, OneMoves
<1> QED BY <1>3, <1>6, <1>7, RowsKept

LEMMA ReadFollow ==
  ASSUME SingleWriter, TypeInv, NEW p \in Procs, Followed(proc[p]), ReadRoster(p) \/ ReadEvidence(p)
  PROVE  FollowInv'
<1> DEFINE x == proc[p]
<1>1. x.pc \in {"roster", "evidence"} /\ UNCHANGED row
  BY DEF ReadRoster, ReadEvidence, stored
<1>2. /\ proc'[p].pc \in {"evidence", "history"}
      /\ proc'[p].day = x.day /\ proc'[p].todo = x.todo
  BY DEF ReadRoster, ReadEvidence, TypeInv, TypeOK, ExecutionOK
<1>3. PICK y : y = proc'[p]
  OBVIOUS
<1>4. \A q \in Procs : proc'[q] = y
  BY <1>3 DEF SingleWriter
<1>5. Upcoming(y) = Upcoming(x)
  BY <1>1, <1>2, <1>3 DEF Upcoming
<1>6. Followed(y)
  BY <1>1, <1>2, <1>3, <1>5 DEF Followed, Ends, Counted, Recomputing
<1> QED BY <1>1, <1>4, <1>6, RowsKept

LEMMA ReadHistoryFollow ==
  ASSUME SingleWriter, TypeInv, StaleInv, NEW p \in Procs, Followed(proc[p]), ReadHistory(p)
  PROVE  FollowInv'
<1> DEFINE x == proc[p]
           f == [s \in DOMAIN x.plan |-> WithStreak(s, x.day, x.plan[s])]
           y == [x EXCEPT !.pc = "persist", !.plan = f]
<1>1. x.pc = "history" /\ ExecutionOK(x) /\ JobInv(x)
  BY DEF ReadHistory, TypeInv, TypeOK, StaleInv
<1>2. proc' = [proc EXCEPT ![p] = y] /\ UNCHANGED row
  BY <1>1 DEF ReadHistory, TypeInv, TypeOK, ExecutionOK, stored
<1>3. /\ y.pc = "persist" /\ y.day = x.day /\ y.todo = x.todo /\ y.plan = f
  BY <1>1 DEF ExecutionOK
<1> HIDE DEF y
<1>4. ASSUME NEW s \in DOMAIN x.plan
      PROVE  f[s].streak = Streak(Stored(History(s, x.day), x.day, f[s]), x.day, EnrolledFrom[s])
  <2> DEFINE old == x.plan[s]
             d == x.day
             n == Streak(Stored(History(s, d), d, old), d, EnrolledFrom[s])
             new == [old EXCEPT !.streak = n]
  <2>1. old \in Figures
    BY <1>1 DEF ExecutionOK, Partial
  <2>2. f[s] = new
    BY DEF WithStreak
  <2> HIDE DEF n
  <2>3. new.streak = n /\ new.assigned = old.assigned /\ new.inWindow = old.inWindow
    BY <2>1 DEF Figures
  <2> HIDE DEF new, old, d, f
  <2> DEFINE a == Stored(History(s, d), d, old)
             b == Stored(History(s, d), d, new)
  <2>4. DOMAIN a = DOMAIN b
        /\ \A e \in DOMAIN a : a[e].assigned = b[e].assigned /\ a[e].inWindow = b[e].inWindow
    BY <2>3 DEF Stored
  <2> HIDE DEF a, b
  <2>5. Streak(a, d, EnrolledFrom[s]) = Streak(b, d, EnrolledFrom[s])
    BY <2>4, StreakAgree
  <2> QED BY <2>2, <2>3, <2>5 DEF n, a, b, d
<1>5. \A s \in Students \ DOMAIN f : ~ (EnrolledFrom[s] <= x.day)
  BY <1>1 DEF JobInv, Working, Roster, StaleInv, Tables
<1>6. Counted(y)
  <2> HIDE DEF f
  <2> QED BY <1>3, <1>4, <1>5 DEF Counted, f
<1>7. Upcoming(y) = Upcoming(x)
  BY <1>1, <1>3 DEF Upcoming
<1>8. Ends(y)
  BY <1>1, <1>3, <1>7 DEF Followed, Ends, Recomputing
<1>9. \A q \in Procs : proc'[q] = y
  BY <1>2, OneMoves
<1> QED BY <1>2, <1>6, <1>8, <1>9, RowsKept DEF Followed

LEMMA FindRowFollow ==
  ASSUME SingleWriter, TypeInv, NEW p \in Procs, Followed(proc[p]), NEW t \in Students, FindRow(p, t)
  PROVE  FollowInv'
<1> DEFINE x == proc[p]
           y == [x EXCEPT !.pc = "upsert", !.at = t, !.seen = Named(t, x.day)]
<1>1. x.pc = "persist" /\ ExecutionOK(x)
  BY DEF FindRow, TypeInv, TypeOK
<1>2. proc' = [proc EXCEPT ![p] = y] /\ UNCHANGED row
  BY <1>1 DEF FindRow, TypeInv, TypeOK, ExecutionOK, stored
<1>3. y.pc = "upsert" /\ y.day = x.day /\ y.todo = x.todo /\ y.plan = x.plan
  BY <1>1 DEF ExecutionOK
<1> HIDE DEF y
<1>4. Upcoming(y) = Upcoming(x)
  BY <1>1, <1>3 DEF Upcoming
<1>5. Followed(y)
  BY <1>1, <1>3, <1>4 DEF Followed, Ends, Counted, Recomputing
<1>6. \A q \in Procs : proc'[q] = y
  BY <1>2, OneMoves
<1> QED BY <1>2, <1>5, <1>6, RowsKept

(* The row written is counted from the rows before it, which stay. *)
LEMMA RowCounted ==
  ASSUME TypeInv, NEW x, NEW y, NEW s \in Students, NEW d \in Days, NEW r,
         ExecutionOK(x), Followed(x), x.pc = "upsert", x.day = d, s \in DOMAIN x.plan,
         r.assigned = x.plan[s].assigned, r.inWindow = x.plan[s].inWindow,
         r.streak = x.plan[s].streak,
         y.pc = "persist", y.day = d, y.todo = x.todo, y.plan = Without(x.plan, s),
         row' = [row EXCEPT ![s] = Stored(row[s], d, r)], \A q \in Procs : proc'[q] = y
  PROVE  FollowInv'
<1> DEFINE f == Without(x.plan, s)
<1>1. y.plan = f /\ DOMAIN f = DOMAIN x.plan \ {s} /\ \A t \in DOMAIN f : f[t] = x.plan[t]
  BY DEF Without
<1>2. DOMAIN x.plan \subseteq Students
  BY DEF ExecutionOK, Partial
<1>3. /\ DOMAIN row'[s] = DOMAIN row[s] \cup {d} /\ row'[s][d] = r
      /\ \A e \in DOMAIN row[s] : e # d => row'[s][e] = row[s][e]
      /\ \A t \in Students : t # s => row'[t] = row[t]
  BY DEF Stored, TypeInv, TypeOK
<1>4. d \in Int /\ \A t \in Students : \A e \in DOMAIN row[t] : e \in Int
  BY DEF TypeInv, TypeOK, Partial, Days
<1> HIDE DEF f
<1>5. Ends(y)'
  <2>1. Upcoming(y) = Upcoming(x) /\ d \in Upcoming(y)
    BY DEF Upcoming
  <2>2. ASSUME NEW t \in Students, NEW e \in DOMAIN row'[t]
        PROVE  \E u \in Upcoming(y) : e <= u
    <3>1. CASE e \in DOMAIN row[t]
      BY <2>1, <3>1 DEF Followed, Ends, Recomputing
    <3>2. CASE e \notin DOMAIN row[t]
      <4>1. e = d
        BY <1>3, <2>2, <3>2
      <4> QED BY <1>4, <2>1, <4>1
    <3> QED BY <3>1, <3>2
  <2>3. Upcoming(y)' = Upcoming(y)
    BY DEF Upcoming
  <2> QED BY <2>2, <2>3 DEF Followed, Ends, Recomputing
<1>6. Reconciled(s, d)' /\ d \in DOMAIN row'[s]
  <2> DEFINE a == Stored(History(s, d), d, x.plan[s])
             b == row'[s]
  <2>1. x.plan[s].streak = Streak(a, d, EnrolledFrom[s])
    BY DEF Followed, Counted
  <2>2. DOMAIN a = {e \in DOMAIN row[s] : e < d} \cup {d}
        /\ \A e \in DOMAIN a : a[e] = IF e = d THEN x.plan[s] ELSE row[s][e]
    BY DEF Stored, History
  <2>3. \A e : e <= d => (e \in DOMAIN a <=> e \in DOMAIN b)
    BY <1>3, <1>4, <2>2
  <2>4. \A e \in DOMAIN a : e <= d => a[e].assigned = b[e].assigned /\ a[e].inWindow = b[e].inWindow
    BY <1>3, <2>2
  <2>5. b[d].streak = x.plan[s].streak
    BY <1>3
  <2> HIDE DEF a, b
  <2>6. Streak(a, d, EnrolledFrom[s]) = Streak(b, d, EnrolledFrom[s])
    BY <2>3, <2>4, StreakAgree
  <2>7. b[d].streak = Streak(b, d, EnrolledFrom[s])
    BY <2>1, <2>5, <2>6
  <2> QED BY <1>3, <2>7 DEF b, Reconciled
<1>7. ASSUME NEW t \in DOMAIN f
      PROVE  f[t].streak = Streak(Stored(History(t, d), d, f[t]), d, EnrolledFrom[t])'
  <2>1. t \in DOMAIN x.plan /\ t \in Students /\ t # s /\ f[t] = x.plan[t]
    BY <1>1, <1>2
  <2>2. History(t, d)' = History(t, d)
    BY <1>3, <2>1 DEF History
  <2> QED BY <2>1, <2>2 DEF Followed, Counted
<1>8. ASSUME NEW t \in Students \ DOMAIN f, EnrolledFrom[t] <= d
      PROVE  d \in DOMAIN row'[t] /\ Reconciled(t, d)'
  <2>1. CASE t = s
    BY <1>6, <2>1
  <2>2. CASE t # s
    <3>1. t \in Students \ DOMAIN x.plan /\ row'[t] = row[t]
      BY <1>1, <1>3, <2>2
    <3>2. d \in DOMAIN row[t] /\ Reconciled(t, d)
      BY <1>8, <3>1 DEF Followed, Counted
    <3> QED BY <3>1, <3>2 DEF Reconciled
  <2> QED BY <2>1, <2>2
<1>9. Counted(y)'
  BY <1>1, <1>7, <1>8 DEF Counted
<1>10. Followed(y)'
  BY <1>5, <1>9 DEF Followed
<1>11. ASSUME NEW q \in Procs PROVE Followed(proc[q])'
  <2> HIDE DEF Followed
  <2> QED BY <1>10
<1> QED BY <1>11 DEF FollowInv

LEMMA UpsertFollow ==
  ASSUME SingleWriter, TypeInv, StaleInv, NEW p \in Procs, Followed(proc[p]), UpsertRow(p)
  PROVE  FollowInv'
<1> DEFINE x == proc[p]
           s == x.at
           d == x.day
           id == ResolveFrozenField(x.seen, x.plan[s].asg)
           r == [x.plan[s] EXCEPT !.asg = id]
           f == Without(x.plan, s)
           y == [x EXCEPT !.pc = "persist", !.at = None, !.seen = None, !.plan = f]
<1>1. x.pc = "upsert" /\ ExecutionOK(x) /\ PhaseOK(x) /\ JobInv(x) /\ Working(x) /\ Tables
  BY DEF UpsertRow, TypeInv, TypeOK, StaleInv, JobInv
<1>2. s \in DOMAIN x.plan /\ s \in Students /\ d \in Days /\ d # 0 /\ x.plan[s] \in Figures
  BY <1>1, LastDayNat DEF PhaseOK, ExecutionOK, Partial, Recomputing, Days
<1>3. Planned(s, d, x.plan[s]) /\ x.seen = Named(s, d)
  BY <1>1, <1>2 DEF Working, Planning, SeenIsNamed
<1>4. id \in Live \cup {None}
  BY <1>2, <1>3 DEF ResolveFrozenField, Planned, Live, SetsOf
<1>5. /\ r.assigned = x.plan[s].assigned /\ r.inWindow = x.plan[s].inWindow
      /\ r.streak = x.plan[s].streak
  BY <1>2 DEF Figures
<1>6. x.day = d
  BY DEF d
<1>7. row' = [row EXCEPT ![s] = Stored(row[s], d, r)] /\ proc' = [proc EXCEPT ![p] = y]
  BY <1>4 DEF UpsertRow, Without
<1>8. y.pc = "persist" /\ y.day = d /\ y.todo = x.todo /\ y.plan = f
  BY <1>1 DEF ExecutionOK
<1> HIDE DEF id, r, y, s, d
<1>9. \A q \in Procs : proc'[q] = y
  BY <1>7, OneMoves
<1> HIDE DEF x
<1>10. Followed(x)
  BY DEF x
<1> QED BY <1>1, <1>2, <1>5, <1>6, <1>7, <1>8, <1>9, <1>10, RowCounted

LEMMA DayDoneFollow ==
  ASSUME SingleWriter, TypeInv, StaleInv, NEW p \in Procs, Followed(proc[p]), DayDone(p)
  PROVE  FollowInv'
<1> DEFINE x == proc[p]
<1>1. x.pc = "persist" /\ DOMAIN x.plan = {} /\ UNCHANGED row /\ Tables /\ ExecutionOK(x)
  BY DEF DayDone, StaleInv, stored, TypeInv, TypeOK
<1>2. \A s \in Students : \A d \in DOMAIN row[s] : d \in Int /\ EnrolledFrom[s] <= d
  BY <1>1 DEF Tables, TypeInv, TypeOK, Partial, Days
<1>3. x.day \in Int /\ \A e \in x.todo : e \in Int /\ x.day < e
  BY <1>1 DEF ExecutionOK, Followed, Ends, Recomputing, Days
<1>4. \A s \in Students : \A d \in DOMAIN row[s] : \E e \in x.todo \cup {x.day} : d <= e
  BY <1>1 DEF Followed, Ends, Upcoming, Recomputing
<1>5. CASE x.todo = {}
  <2>1. proc' = [proc EXCEPT ![p] = Idle]
    BY <1>5 DEF DayDone
  <2>2. ASSUME NEW s \in Students, NEW d \in DOMAIN row[s], Newest(s, d)
        PROVE  Reconciled(s, d)
    <3>1. EnrolledFrom[s] \in Int
      BY RollupAssumption DEF Days
    <3>2. d <= x.day /\ EnrolledFrom[s] <= x.day
      BY <1>2, <1>3, <1>4, <1>5, <3>1
    <3>3. x.day \in DOMAIN row[s] /\ Reconciled(s, x.day)
      BY <1>1, <3>2 DEF Followed, Counted
    <3>4. d = x.day
      BY <1>2, <1>3, <2>2, <3>2, <3>3 DEF Newest
    <3> QED BY <3>3, <3>4
  <2>3. Followed(Idle)
    BY <2>2 DEF Idle, Followed, Ends, Counted, Recomputing
  <2>4. \A q \in Procs : proc'[q] = Idle
    BY <2>1, OneMoves
  <2> QED BY <1>1, <2>3, <2>4, RowsKept
<1>6. CASE x.todo # {}
  <2> DEFINE y == [Idle EXCEPT !.pc = "next", !.todo = x.todo]
  <2>1. proc' = [proc EXCEPT ![p] = y] /\ y.pc = "next" /\ y.todo = x.todo
    BY <1>6 DEF DayDone, Recompute, Idle
  <2> HIDE DEF y
  <2>2. ASSUME NEW s \in Students, NEW d \in DOMAIN row[s] PROVE \E e \in x.todo : d <= e
    <3>1. PICK e \in x.todo \cup {x.day} : d <= e
      BY <1>4
    <3>2. CASE e = x.day
      <4>1. PICK u \in x.todo : TRUE
        BY <1>6
      <4> QED BY <1>2, <1>3, <3>1, <3>2, <4>1
    <3> QED BY <3>1, <3>2
  <2>3. Followed(y)
    BY <2>1, <2>2 DEF Followed, Ends, Counted, Recomputing, Upcoming
  <2>4. \A q \in Procs : proc'[q] = y
    BY <2>1, OneMoves
  <2> QED BY <1>1, <2>3, <2>4, RowsKept
<1> QED BY <1>5, <1>6

(* A recompute begun from rest that ends on a day no row is after. *)
LEMMA BegunFollow ==
  ASSUME SingleWriter, TypeInv, NEW p \in Procs, NEW days, Recompute(p, days),
         NEW last \in days, \A s \in Students : \A d \in DOMAIN row[s] : d <= last, UNCHANGED row
  PROVE  FollowInv'
<1> DEFINE y == [Idle EXCEPT !.pc = "next", !.todo = days]
<1>1. proc' = [proc EXCEPT ![p] = y] /\ y.pc = "next" /\ y.todo = days
  BY DEF Recompute, Idle
<1> HIDE DEF y
<1>2. Followed(y)
  BY <1>1 DEF Followed, Ends, Counted, Recomputing, Upcoming
<1>3. \A q \in Procs : proc'[q] = y
  BY <1>1, OneMoves
<1> QED BY <1>2, <1>3, RowsKept

LEMMA SyncFollow ==
  ASSUME SingleWriter, TypeInv, StaleInv, NEW p \in Procs, Followed(proc[p]), SyncStep(p)
  PROVE  FollowInv'
<1> DEFINE x == proc[p]
<1>1. ExecutionOK(x) /\ JobInv(x)
  BY DEF TypeInv, TypeOK, StaleInv
<1>2. CASE StartSync(p) \/ \E s \in Students, q \in Problems, d \in Days : Mirror(p, s, q, d)
  <2>1. x.pc \in {"idle", "mirror"} /\ UNCHANGED row
    BY <1>2 DEF StartSync, Mirror, stored
  <2>2. proc'[p].pc = "mirror"
    <3>1. CASE StartSync(p)
      BY <1>1, <3>1 DEF StartSync, TypeInv, TypeOK, ExecutionOK
    <3>2. ASSUME NEW s \in Students, NEW q \in Problems, NEW d \in Days, Mirror(p, s, q, d)
          PROVE  proc'[p].pc = "mirror"
      BY <1>1, <3>2 DEF Mirror, TypeInv, TypeOK, ExecutionOK
    <3> QED BY <1>2, <3>1, <3>2
  <2>3. PICK y : y = proc'[p]
    OBVIOUS
  <2>4. \A q \in Procs : proc'[q] = y
    BY <2>3 DEF SingleWriter
  <2>5. Followed(y)
    BY <2>1, <2>2, <2>3 DEF Followed, Ends, Counted, Recomputing
  <2> QED BY <2>1, <2>4, <2>5, RowsKept
<1>3. CASE ResolveDays(p)
  <2>1. x.pc = "mirror" /\ Recompute(p, DaysToRecompute(x)) /\ UNCHANGED row
    BY <1>3 DEF ResolveDays, stored
  <2>2. \A s \in Students : \A d \in DOMAIN row[s] : d <= x.jobDay
    BY <1>1, <2>1 DEF JobInv, Scheduled
  <2>3. x.jobDay \in DaysToRecompute(x)
    BY DEF DaysToRecompute
  <2> HIDE DEF x
  <2> QED BY <2>1, <2>2, <2>3, BegunFollow
<1> QED BY <1>2, <1>3 DEF SyncStep

LEMMA EditFollow ==
  ASSUME OneWriter, TypeInv, StaleInv, NEW p \in Procs, Followed(proc[p]), EditStep(p),
         Removed' = {}
  PROVE  FollowInv'
<1>1. PICK a \in Assignments :
         \/ \E problems \in SUBSET Problems :
              \/ \E d \in Days, scope \in Scopes : Create(p, a, d, scope, problems)
              \/ Update(p, a, problems)
         \/ \E scope \in Scopes : ChangeTarget(p, a, scope)
         \/ Remove(p, a)
  BY DEF EditStep
<1>2. proc[p].pc = "idle"
  BY <1>1 DEF Create, Update, ChangeTarget, Remove
<1>3. Tables
  BY DEF StaleInv
<1>4. ASSUME UNCHANGED row, UNCHANGED proc PROVE FollowInv'
  <2>1. \A q \in Procs : proc'[q] = proc[p]
    BY <1>4 DEF OneWriter, SingleWriter
  <2>2. PICK y : y = proc[p]
    OBVIOUS
  <2> QED BY <1>4, <2>1, <2>2, RowsKept
<1>5. ASSUME NEW d \in Days, d <= today, ReconcileAssignmentDay(p, d), UNCHANGED row
      PROVE  FollowInv'
  <2> DEFINE days == DayRange(d, IF d > today THEN d ELSE today)
  <2>1. today \in days
    BY <1>5 DEF DayRange, TypeInv, TypeOK, Days
  <2>2. \A s \in Students : \A e \in DOMAIN row[s] : e <= today
    BY <1>3 DEF Tables
  <2>3. UNCHANGED proc \/ Recompute(p, days)
    BY <1>5 DEF ReconcileAssignmentDay
  <2> HIDE DEF days
  <2> QED BY <1>4, <1>5, <2>1, <2>2, <2>3, BegunFollow DEF OneWriter
<1>6. ASSUME NEW d \in Days, NEW scope \in Scopes, NEW problems \in SUBSET Problems,
             Create(p, a, d, scope, problems)
      PROVE  FollowInv'
  <2>1. d <= today
    BY <1>6 DEF Create, OneWriter, TypeInv, TypeOK, Days
  <2> QED BY <1>5, <1>6, <2>1 DEF Create
<1>7. ASSUME NEW problems \in SUBSET Problems, Update(p, a, problems)
      PROVE  FollowInv'
  <2>1. asg[a].day \in Days /\ asg[a].day <= today
    BY <1>3, <1>7 DEF Update, Live, Tables, TypeInv, TypeOK, AssignmentRow
  <2> QED BY <1>5, <1>7, <2>1 DEF Update
<1>8. ASSUME NEW scope \in Scopes, ChangeTarget(p, a, scope)
      PROVE  FollowInv'
  BY <1>4, <1>8 DEF ChangeTarget
<1>9. ~ Remove(p, a)
  <2> SUFFICES ASSUME Remove(p, a) PROVE FALSE
    OBVIOUS
  <2>1. asg'[a].day = 0 /\ targeted'[a] # {}
    BY <1>3 DEF Remove, Live, Tables, NoAssignment, TypeInv, TypeOK
  <2> QED BY <2>1 DEF Removed
<1> QED BY <1>1, <1>6, <1>7, <1>8, <1>9

(* An assignment once deleted is never entered again. *)
LEMMA RemovedStays ==
  ASSUME TypeInv, Tables, [Next]_vars, Removed' = {}
  PROVE  Removed = {}
<1>1. ASSUME UNCHANGED <<asg, targeted>> PROVE Removed = {}
  BY <1>1 DEF Removed
<1>2. ASSUME NEW p \in Procs, EditStep(p) PROVE Removed = {}
  <2> SUFFICES ASSUME NEW b \in Assignments, targeted[b] # {}, asg[b].day = 0
               PROVE  targeted'[b] # {} /\ asg'[b].day = 0
    BY DEF Removed
  <2>1. ASSUME NEW a \in Assignments, NEW problems \in SUBSET Problems, NEW d \in Days,
               NEW scope \in Scopes, Create(p, a, d, scope, problems)
        PROVE  targeted'[b] # {} /\ asg'[b].day = 0
    BY <2>1 DEF Create, TypeInv, TypeOK
  <2>2. ASSUME NEW a \in Assignments, NEW problems \in SUBSET Problems, Update(p, a, problems)
        PROVE  targeted'[b] # {} /\ asg'[b].day = 0
    BY <2>2 DEF Update, Live, TypeInv, TypeOK
  <2>3. ASSUME NEW a \in Assignments, NEW scope \in Scopes, ChangeTarget(p, a, scope)
        PROVE  targeted'[b] # {} /\ asg'[b].day = 0
    BY <2>3 DEF ChangeTarget, Live, TypeInv, TypeOK
  <2>4. ASSUME NEW a \in Assignments, Remove(p, a)
        PROVE  targeted'[b] # {} /\ asg'[b].day = 0
    BY <2>4 DEF Remove, NoAssignment, Live, TypeInv, TypeOK
  <2> QED BY <1>2, <2>1, <2>2, <2>3, <2>4 DEF EditStep
<1>3. ASSUME NEW p \in Procs, RecomputeStep(p) \/ SyncStep(p) \/ Fail(p) \/ NightlyRollup(p)
                              \/ \E d \in Days : BackfillDay(p, d)
      PROVE  UNCHANGED <<asg, targeted>>
  BY <1>3 DEF RecomputeStep, SyncStep, ReadAssignments, ReadRoster, ReadEvidence, ReadHistory,
              FindRow, UpsertRow, DayDone, StartSync, ResolveDays, Mirror, Fail, NightlyRollup,
              BackfillDay, stored
<1>4. CASE (\E s \in Students : SetActive(s)) \/ Midnight \/ UNCHANGED vars
  BY <1>1, <1>4 DEF SetActive, Midnight, vars, stored
<1> QED BY <1>1, <1>2, <1>3, <1>4 DEF Next

Following == OneWriter /\ "nightly" \notin Uses

LEMMA FollowStep ==
  Following /\ TypeInv /\ StaleInv /\ FollowInv /\ [Next]_vars => FollowInv'
<1> SUFFICES ASSUME Following, TypeInv, StaleInv, FollowInv, [Next]_vars, Removed' = {}
             PROVE  FollowInv'
  BY DEF FollowInv
<1> USE DEF Following, OneWriter
<1>1. Tables /\ \A p \in Procs : Followed(proc[p])
  BY RemovedStays DEF FollowInv, StaleInv
<1>2. ASSUME NEW p \in Procs, RecomputeStep(p) PROVE FollowInv'
  BY <1>1, <1>2, ReadAssignmentsFollow, ReadFollow, ReadHistoryFollow, FindRowFollow,
     UpsertFollow, DayDoneFollow DEF RecomputeStep
<1>3. ASSUME NEW p \in Procs, SyncStep(p) PROVE FollowInv'
  BY <1>1, <1>3, SyncFollow
<1>4. ASSUME NEW p \in Procs, EditStep(p) PROVE FollowInv'
  BY <1>1, <1>4, EditFollow
<1>5. ASSUME NEW p \in Procs, NEW d \in Days, BackfillDay(p, d) PROVE FollowInv'
  <2>1. today \in DayRange(d, today) /\ UNCHANGED row /\ Recompute(p, DayRange(d, today))
    BY <1>5 DEF BackfillDay, DayRange, TypeInv, TypeOK, Days, stored
  <2>2. \A s \in Students : \A e \in DOMAIN row[s] : e <= today
    BY <1>1 DEF Tables
  <2> QED BY <2>1, <2>2, BegunFollow
<1>6. CASE Midnight \/ UNCHANGED vars
  <2>1. UNCHANGED row /\ UNCHANGED proc
    BY <1>6 DEF Midnight, vars, stored
  <2>2. PICK p \in Procs : \A q \in Procs : proc'[q] = proc[p]
    BY <2>1 DEF SingleWriter
  <2>3. PICK y : y = proc[p]
    OBVIOUS
  <2> QED BY <1>1, <2>1, <2>2, <2>3, RowsKept
<1>7. ~ (\E p \in Procs : Fail(p) \/ NightlyRollup(p)) /\ ~ (\E s \in Students : SetActive(s))
  BY DEF Fail, SetActive, NightlyRollup
<1> QED BY <1>2, <1>3, <1>4, <1>5, <1>6, <1>7 DEF Next

(* Under the same conditions, without the nightly close-out, which computes *)
(* yesterday and not the days since, and as long as no assignment is        *)
(* deleted: the streak of a student's newest row is the one the stored rows *)
(* add up to, although edits, backfills and late submissions change the     *)
(* days before it (reconcileAssignmentDay, resolveDaysToRecompute).         *)
THEOREM StreaksFollow == Spec /\ Following => []StreaksReconciled
<1> DEFINE IInv == Following /\ StaleInv /\ FollowInv
<1>1. Init /\ Following => IInv
  <2> SUFFICES ASSUME Init, Following PROVE IInv
    OBVIOUS
  <2>1. StaleInv
    BY StaleInit DEF Following
  <2>2. FollowInv
    BY DEF Init, FollowInv, Followed, Ends, Counted, Idle, Recomputing, NoOne
  <2> QED BY <2>1, <2>2
<1>2. TypeInv /\ IInv /\ [Next]_vars => IInv'
  <2> SUFFICES ASSUME TypeInv, IInv, [Next]_vars PROVE IInv'
    OBVIOUS
  <2>1. StaleInv' /\ FollowInv'
    BY StaleStep, FollowStep DEF Following
  <2> QED BY <2>1 DEF Following, OneWriter, SingleWriter
<1>3. TypeInv /\ IInv => StreaksReconciled
  <2> SUFFICES ASSUME TypeInv, IInv, Quiet, Removed = {}, NEW s \in Students,
                      NEW d \in DOMAIN row[s], \A e \in DOMAIN row[s] : e <= d
               PROVE  Reconciled(s, d)
    BY DEF StreaksReconciled, TypeInv, TypeOK
  <2>1. PICK p \in Procs : proc[p].pc = "idle"
    BY DEF Quiet, Following, OneWriter, SingleWriter
  <2>2. Counted(proc[p])
    BY DEF FollowInv, Followed
  <2> QED BY <2>1, <2>2 DEF Counted, Newest
<1> HIDE DEF IInv
<1> QED BY <1>1, <1>2, <1>3, Typed, PTL DEF Spec
=============================================================================
