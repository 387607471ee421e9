------------------------------- MODULE Rollup -------------------------------
(***************************************************************************)
(* The derived state of the tracker: one DailyStatus row per student and   *)
(* day, computed by RollupService.recomputeDay from the assignments of the *)
(* day and the mirror of accepted submissions, and the callers that decide *)
(* which days to recompute: a sync job, the edits of AssignmentsService,   *)
(* a backfill and the nightly close-out.                                   *)
(*                                                                         *)
(* No lock orders these callers.  Every query of recomputeDay whose answer *)
(* another caller could change is a step of its own, and so is every row   *)
(* it writes, read first and written after.  The clock that stamps         *)
(* updatedAt and computedAt is reduced to the only question asked of it:   *)
(* is a later than every row of its day (newer).                           *)
(* Placements are those of the day (Home) and do not change here.          *)
(* Broken variants of an operator stand before it; no run uses them.       *)
(***************************************************************************)
EXTENDS AssignmentDay

CONSTANTS
    Students,
    Assignments,    \* identifiers of assignment rows, each used once
    Scopes,         \* the legal audiences
    Home,           \* each student's campus and batch
    EnrolledFrom,   \* each student's first observed day (createdAt)
    Procs,          \* executions under way in the API and cron processes
    LastDay,        \* bound on the days of a run
    Reach,          \* MAX_RECOMPUTE_LOOKBACK_DAYS
    MaxSyncDays,    \* MAX_INLINE_RECONCILE_DAYS
    MaxEdits,       \* bound on the edits of assignments and of students' status
    MaxMirrored,    \* bound on the submissions of a run
    Lag,            \* days a submission may wait for the sync that reads it
    Ahead,          \* days an assignment may be entered before its date
    Leavers,        \* bound: the students whose status changes
    Uses            \* what the callers of this instance do

Days == 1 .. LastDay
AllUses == {"update", "retarget", "remove", "nightly", "backfill", "archive", "restore",
            "fail"}

ASSUME RollupAssumption ==
    /\ LastDay \in Nat \ {0} /\ Reach \in Nat /\ MaxSyncDays \in Nat
    /\ MaxEdits \in Nat /\ MaxMirrored \in Nat /\ Lag \in Nat /\ Ahead \in Nat
    /\ \A x \in Scopes : x.campus = None => x.batch = None
    /\ Home \in [Students -> Scopes]
    /\ EnrolledFrom \in [Students -> Days]
    /\ None \notin Assignments
    /\ Leavers \subseteq Students /\ Uses \subseteq AllUses

VARIABLES
    asg,        \* the assignment rows; day 0 before creation and after deletion
    targeted,   \* every audience an assignment had (assignmentAudienceChange)
    newer,      \* assignments written after every row of their day
    mirror,     \* each student's accepted submissions
    active,     \* students whose status is ACTIVE
    row,        \* the DailyStatus rows
    today,
    proc,       \* the executions
    edits, mirrored

vars == <<asg, targeted, newer, mirror, active, row, today, proc, edits, mirrored>>
stored == <<asg, targeted, newer, mirror, active, row>>

-----------------------------------------------------------------------------
Everyone == [campus |-> None, batch |-> None]
NoAssignment == [day |-> 0, scope |-> Everyone, problems |-> {}]
NoOne == [s \in {} |-> None]
Idle == [pc |-> "idle", todo |-> {}, jobDay |-> 0, affected |-> {}, day |-> 0,
         sets |-> NoOne, frozen |-> NoOne, plan |-> NoOne, at |-> None, seen |-> None]

Live == {a \in Assignments : asg[a].day # 0}
SetsOf(d) == {a \in Assignments : asg[a].day = d}
Clash(a, d, scope) == \E b \in SetsOf(d) \ {a} : asg[b].scope = scope

DayRange(from, to) == from .. to

(* Broken variant: nothing is frozen, as if every recompute were forced. *)
NamedNothing(s, d) == None

(* What the row of s for day d names; None when it names nothing or there  *)
(* is no such row.                                                         *)
Named(s, d) == IF d \in DOMAIN row[s] THEN row[s][d].asg ELSE None

Stored(rows, d, figures) ==
    [e \in DOMAIN rows \cup {d} |-> IF e = d THEN figures ELSE rows[e]]

Goto(p, pc) == proc' = [proc EXCEPT ![p].pc = pc]
Recompute(p, days) == proc' = [proc EXCEPT ![p] = [Idle EXCEPT !.pc = "next", !.todo = days]]

Init ==
    /\ asg = [a \in Assignments |-> NoAssignment]
    /\ targeted = [a \in Assignments |-> {}]
    /\ newer = {}
    /\ mirror = [s \in Students |-> {}]
    /\ active = Students
    /\ row = [s \in Students |-> NoOne]
    /\ today = 1
    /\ proc = [p \in Procs |-> Idle]
    /\ edits = 0 /\ mirrored = 0

-----------------------------------------------------------------------------
(* recomputeDay, query by query: the assignments of the day; *)
ReadAssignments(p) ==
    /\ proc[p].pc = "next"
    /\ LET d == CHOOSE e \in proc[p].todo : \A f \in proc[p].todo : e <= f
       IN  proc' = [proc EXCEPT ![p].pc = "roster", ![p].day = d,
                                ![p].todo = @ \ {d},
                                ![p].sets = [a \in SetsOf(d) |-> asg[a]]]
    /\ UNCHANGED <<stored, today, edits, mirrored>>

(* the ACTIVE students observed by then, with the set each was already     *)
(* scored against;                                                         *)
ReadRoster(p) ==
    /\ proc[p].pc = "roster"
    /\ LET d == proc[p].day
           roster == {s \in active : EnrolledFrom[s] <= d}
       IN  proc' = [proc EXCEPT ![p].pc = "evidence",
                                ![p].frozen = [s \in roster |-> Named(s, d)]]
    /\ UNCHANGED <<stored, today, edits, mirrored>>

(* the submissions (evaluateDay), which settle everything but the streak;  *)
Faced(x, s) ==
    IF x.frozen[s] \in DOMAIN x.sets
    THEN x.frozen[s]
    ELSE SelectForScope([a \in DOMAIN x.sets |-> x.sets[a].scope], Home[s])

Evaluated(x, s) ==
    LET a == Faced(x, s)
        assigned == IF a = None THEN {} ELSE x.sets[a].problems
    IN  [asg |-> a,
         assigned |-> assigned,
         solved |-> Solved(mirror[s], assigned),
         inWindow |-> SolvedInWindow(mirror[s], assigned, x.day),
         streak |-> 0]

ReadEvidence(p) ==
    /\ proc[p].pc = "evidence"
    /\ proc' = [proc EXCEPT ![p].pc = "history",
                            ![p].plan = [s \in DOMAIN proc[p].frozen |-> Evaluated(proc[p], s)],
                            ![p].sets = NoOne, ![p].frozen = NoOne]
    /\ UNCHANGED <<stored, today, edits, mirrored>>

(* and the rows of the days before.                                        *)
History(s, d) == [e \in {f \in DOMAIN row[s] : f < d} |-> row[s][e]]

WithStreak(s, d, figures) ==
    [figures EXCEPT !.streak = Streak(Stored(History(s, d), d, figures), d, EnrolledFrom[s])]

ReadHistory(p) ==
    /\ proc[p].pc = "history"
    /\ LET x == proc[p]
       IN  proc' = [proc EXCEPT ![p].pc = "persist",
                                ![p].plan = [s \in DOMAIN x.plan |->
                                               WithStreak(s, x.day, x.plan[s])]]
    /\ UNCHANGED <<stored, today, edits, mirrored>>

(* persistDailyStatus of one student: findUnique, then upsert.             *)
FindRow(p, s) ==
    /\ proc[p].pc = "persist"
    /\ s \in DOMAIN proc[p].plan
    /\ proc' = [proc EXCEPT ![p].pc = "upsert", ![p].at = s,
                            ![p].seen = Named(s, proc[p].day)]
    /\ UNCHANGED <<stored, today, edits, mirrored>>

ResolveFrozenField(existing, incoming) == IF existing # None THEN existing ELSE incoming

(* Broken variant: the upsert leaves computedAt alone. *)
ComputedAtCreation(d) == newer

(* computedAt := now: nothing of the day is newer than this row.           *)
Computed(d) == newer \ SetsOf(d)

(* A set deleted in the meantime breaks the foreign key, and the whole     *)
(* recompute rejects.                                                      *)
UpsertRow(p) ==
    /\ proc[p].pc = "upsert"
    /\ LET x == proc[p]
           s == x.at
           id == ResolveFrozenField(x.seen, x.plan[s].asg)
       IN  \/ /\ id \in Live \cup {None}
              /\ row' = [row EXCEPT ![s] =
                           Stored(@, x.day, [x.plan[s] EXCEPT !.asg = id])]
              /\ newer' = Computed(x.day)
              /\ proc' = [proc EXCEPT ![p].pc = "persist", ![p].at = None, ![p].seen = None,
                            ![p].plan = [t \in DOMAIN x.plan \ {s} |-> x.plan[t]]]
           \/ /\ id \notin Live \cup {None}
              /\ proc' = [proc EXCEPT ![p] = Idle]
              /\ UNCHANGED <<row, newer>>
    /\ UNCHANGED <<asg, targeted, mirror, active, today, edits, mirrored>>

(* The next day, or the aggregates and leaderboards, which read rows only. *)
DayDone(p) ==
    /\ proc[p].pc = "persist"
    /\ DOMAIN proc[p].plan = {}
    /\ IF proc[p].todo = {} THEN proc' = [proc EXCEPT ![p] = Idle]
                            ELSE Recompute(p, proc[p].todo)
    /\ UNCHANGED <<stored, today, edits, mirrored>>

-----------------------------------------------------------------------------
(* The days whose results are out of date, as findStaleAssignmentDays sees *)
(* them: an assignment newer than every row, or a row that claims problems *)
(* of a set it no longer names.                                            *)
StaleDays(from, to) ==
    {asg[a].day : a \in {b \in newer : asg[b].day \in from .. to}}
    \cup {d \in from .. to : \E s \in Students :
            d \in DOMAIN row[s] /\ row[s][d].asg = None /\ row[s][d].assigned # {}}

(* A sync job mirrors what the provider reports, student by student,       *)
(* and notes the days that touches in memory.                              *)
StartSync(p) ==
    /\ proc[p].pc = "idle"
    /\ proc' = [proc EXCEPT ![p].pc = "mirror", ![p].jobDay = today]
    /\ UNCHANGED <<stored, today, edits, mirrored>>

Mirror(p, s, q, d) ==
    /\ proc[p].pc = "mirror"
    /\ s \in active
    /\ d \in Days /\ d \in (today - Lag) .. today
    /\ <<q, d>> \notin mirror[s]
    /\ mirrored < MaxMirrored /\ mirrored' = mirrored + 1
    /\ mirror' = [mirror EXCEPT ![s] = @ \cup {<<q, d>>}]
    /\ proc' = [proc EXCEPT ![p].affected = @ \cup {d}]
    /\ UNCHANGED <<asg, targeted, newer, active, row, today, edits>>

(* Broken variant: only the submissions' own days, not the window's.       *)
DaysOfSubmissions(x) ==
    LET from == x.jobDay - Reach
    IN  {x.jobDay} \cup (x.affected \cap from .. x.jobDay) \cup StaleDays(from, x.jobDay)

DaysToRecompute(x) ==
    LET from == x.jobDay - Reach
        touched == UNION {AssignmentDaysAffectedBy(d) : d \in x.affected}
    IN  {x.jobDay} \cup (touched \cap from .. x.jobDay) \cup StaleDays(from, x.jobDay)

ResolveDays(p) ==
    /\ proc[p].pc = "mirror"
    /\ Recompute(p, DaysToRecompute(proc[p]))
    /\ UNCHANGED <<stored, today, edits, mirrored>>

-----------------------------------------------------------------------------
Edit == edits < MaxEdits /\ edits' = edits + 1

(* Broken variant: an edit recomputes its own day only. *)
ReconcileDayOnly(p, d) == Recompute(p, {d})

(* reconcileAssignmentDay: the day and, for the streaks, every day since.  *)
(* A range that is too long is left to the next sync.                      *)
ReconcileAssignmentDay(p, d) ==
    LET to == IF d > today THEN d ELSE today
    IN  IF Cardinality(DayRange(d, to)) > MaxSyncDays
        THEN UNCHANGED proc
        ELSE Recompute(p, DayRange(d, to))

Create(p, a, d, scope, problems) ==
    /\ Edit
    /\ proc[p].pc = "idle"
    /\ targeted[a] = {}
    /\ d <= today + Ahead
    /\ problems # {}
    /\ ~Clash(a, d, scope)
    /\ asg' = [asg EXCEPT ![a] = [day |-> d, scope |-> scope, problems |-> problems]]
    /\ targeted' = [targeted EXCEPT ![a] = {scope}]
    /\ newer' = newer \cup {a}
    /\ ReconcileAssignmentDay(p, d)
    /\ UNCHANGED <<mirror, active, row, today, mirrored>>

Update(p, a, problems) ==
    /\ "update" \in Uses /\ Edit
    /\ proc[p].pc = "idle"
    /\ a \in Live
    /\ problems # {}
    /\ asg' = [asg EXCEPT ![a].problems = problems]
    /\ newer' = newer \cup {a}
    /\ ReconcileAssignmentDay(p, asg[a].day)
    /\ UNCHANGED <<targeted, mirror, active, row, today, mirrored>>

(* changeTarget touches no row and recomputes nothing.                     *)
ChangeTarget(p, a, scope) ==
    /\ "retarget" \in Uses /\ Edit
    /\ proc[p].pc = "idle"
    /\ a \in Live
    /\ scope # asg[a].scope
    /\ ~Clash(a, asg[a].day, scope)
    /\ asg' = [asg EXCEPT ![a].scope = scope]
    /\ targeted' = [targeted EXCEPT ![a] = @ \cup {scope}]
    /\ newer' = newer \cup {a}
    /\ UNCHANGED <<mirror, active, row, today, proc, mirrored>>

(* remove: the rows lose the id (SetNull), and that one day is recomputed. *)
Remove(p, a) ==
    /\ "remove" \in Uses /\ Edit
    /\ proc[p].pc = "idle"
    /\ a \in Live
    /\ asg' = [asg EXCEPT ![a] = NoAssignment]
    /\ newer' = newer \ {a}
    /\ row' = [s \in Students |->
                 [d \in DOMAIN row[s] |->
                    IF row[s][d].asg = a THEN [row[s][d] EXCEPT !.asg = None] ELSE row[s][d]]]
    /\ Recompute(p, {asg[a].day})
    /\ UNCHANGED <<targeted, mirror, active, today, mirrored>>

-----------------------------------------------------------------------------
NightlyRollup(p) ==
    /\ "nightly" \in Uses
    /\ proc[p].pc = "idle"
    /\ today - 1 \in Days
    /\ Recompute(p, {today - 1})
    /\ UNCHANGED <<stored, today, edits, mirrored>>

BackfillDay(p, d) ==
    /\ "backfill" \in Uses
    /\ proc[p].pc = "idle"
    /\ d <= today
    /\ Recompute(p, DayRange(d, today))
    /\ UNCHANGED <<stored, today, edits, mirrored>>

(* A student leaves the programme, or comes back; no row is touched.       *)
SetActive(s) ==
    /\ s \in Leavers
    /\ \/ "archive" \in Uses /\ s \in active /\ active' = active \ {s}
       \/ "restore" \in Uses /\ s \notin active /\ active' = active \cup {s}
    /\ UNCHANGED <<asg, targeted, newer, mirror, row, today, proc, edits, mirrored>>

(* A query fails or the process dies: what it knew and planned is lost.    *)
Fail(p) ==
    /\ "fail" \in Uses
    /\ proc[p].pc # "idle"
    /\ proc' = [proc EXCEPT ![p] = Idle]
    /\ UNCHANGED <<stored, today, edits, mirrored>>

Midnight ==
    /\ today < LastDay
    /\ today' = today + 1
    /\ UNCHANGED <<stored, proc, edits, mirrored>>

-----------------------------------------------------------------------------
RecomputeStep(p) ==
    \/ ReadAssignments(p) \/ ReadRoster(p) \/ ReadEvidence(p) \/ ReadHistory(p)
    \/ \E s \in Students : FindRow(p, s)
    \/ UpsertRow(p) \/ DayDone(p)

SyncStep(p) ==
    \/ StartSync(p) \/ ResolveDays(p)
    \/ \E s \in Students, q \in Problems, d \in Days : Mirror(p, s, q, d)

EditStep(p) ==
    \E a \in Assignments :
        \/ \E problems \in SUBSET Problems :
             \/ \E d \in Days, scope \in Scopes : Create(p, a, d, scope, problems)
             \/ Update(p, a, problems)
        \/ \E scope \in Scopes : ChangeTarget(p, a, scope)
        \/ Remove(p, a)

Next ==
    \/ \E p \in Procs :
         \/ RecomputeStep(p) \/ SyncStep(p) \/ EditStep(p) \/ Fail(p)
         \/ NightlyRollup(p) \/ \E d \in Days : BackfillDay(p, d)
    \/ \E s \in Students : SetActive(s)
    \/ Midnight

Spec == Init /\ [][Next]_vars

(* A recompute that has begun runs on, and the scheduler keeps starting    *)
(* syncs; every sync ends its reading.                                     *)
Fairness ==
    \A p \in Procs :
        WF_vars(RecomputeStep(p)) /\ WF_vars(ResolveDays(p)) /\ WF_vars(StartSync(p))

FairSpec == Spec /\ Fairness

-----------------------------------------------------------------------------
Figures == [asg : Assignments \cup {None}, assigned : SUBSET Problems,
            solved : SUBSET Problems, inWindow : SUBSET Problems, streak : Nat]
AssignmentRow == [day : Days \cup {0}, scope : Scopes \cup {Everyone}, problems : SUBSET Problems]
Partial(f, D, R) == DOMAIN f \subseteq D /\ f \in [DOMAIN f -> R]
ExecutionOK(x) ==
    /\ x \in [pc : {"idle", "mirror", "next", "roster", "evidence", "history", "persist", "upsert"},
              todo : SUBSET Days, jobDay : Days \cup {0}, affected : SUBSET Days,
              day : Days \cup {0}, at : Students \cup {None}, seen : Assignments \cup {None},
              sets : {x.sets}, frozen : {x.frozen}, plan : {x.plan}]
    /\ Partial(x.sets, Assignments, AssignmentRow)
    /\ Partial(x.frozen, Students, Assignments \cup {None})
    /\ Partial(x.plan, Students, Figures)

(* Typing of the rows and of the executions that compute them.             *)
TypeOK ==
    /\ asg \in [Assignments -> AssignmentRow]
    /\ targeted \in [Assignments -> SUBSET Scopes]
    /\ newer \in SUBSET Live
    /\ mirror \in [Students -> SUBSET (Problems \X Days)]
    /\ active \in SUBSET Students
    /\ row = [s \in Students |-> row[s]] /\ \A s \in Students : Partial(row[s], Days, Figures)
    /\ today \in Days
    /\ proc = [p \in Procs |-> proc[p]] /\ \A p \in Procs : ExecutionOK(proc[p])
    /\ edits \in Nat /\ mirrored \in Nat

-----------------------------------------------------------------------------
(* A row credits a student only with assigned problems that student has an *)
(* accepted submission for, and as that week's work only when one lies in  *)
(* the window, whatever edits and other recomputes came in between         *)
(* (calculateAssignmentCompletion; the check constraint of the table).     *)
CreditIsEvidenced ==
    \A s \in Students : \A d \in DOMAIN row[s] :
        LET r == row[s][d]
        IN  /\ r.inWindow \subseteq r.solved
            /\ r.solved \subseteq r.assigned
            /\ \A q \in r.solved : \E x \in mirror[s] : x[1] = q
            /\ \A q \in r.inWindow : \E x \in mirror[s] :
                 x[1] = q /\ d - Lookback <= x[2] /\ x[2] <= d

(* A row names only an assignment that was at some time aimed at that      *)
(* student's campus and batch: nobody is measured against another          *)
(* campus's problems, even while the audience is being changed             *)
(* (selectAssignmentForScope).                                             *)
EvaluatedInAudience ==
    \A s \in Students : \A d \in DOMAIN row[s] :
        row[s][d].asg # None =>
            \E scope \in targeted[row[s][d].asg] :
                /\ scope.campus # None => scope.campus = Home[s].campus
                /\ scope.batch # None => scope.batch = Home[s].batch

(* A row once scored against an assignment that still exists is never      *)
(* scored against another one (persistDailyStatus, changeTarget).          *)
AssignmentFrozen ==
    [][\A s \in Students : \A d \in DOMAIN row[s] :
         LET a == row[s][d].asg
         IN  a # None /\ asg'[a].day # 0 => row'[s][d].asg = a]_vars

Quiet == \A p \in Procs : proc[p].pc = "idle"
Recent == (today - Reach) .. today

(* What a recompute of this row would find now, streak apart.              *)
Measured(s, d) ==
    LET r == row[s][d]
        a == IF r.asg # None THEN r.asg
             ELSE SelectForScope([b \in SetsOf(d) |-> asg[b].scope], Home[s])
        assigned == IF a = None THEN {} ELSE asg[a].problems
    IN  /\ r.asg = a
        /\ r.assigned = assigned
        /\ r.inWindow = {q \in assigned : \E x \in mirror[s] :
                           x[1] = q /\ d - Lookback <= x[2] /\ x[2] <= d}

(* With no recompute under way, a recent row whose assignment or window    *)
(* figures are out of date is on a day findStaleAssignmentDays reports, so *)
(* that the next sync repairs it.                                          *)
StaleDaysAreFound ==
    Quiet => \A s \in active : \A d \in DOMAIN row[s] \cap Recent :
        Measured(s, d) \/ d \in StaleDays(today - Reach, today)

Removed == {a \in Assignments : targeted[a] # {} /\ asg[a].day = 0}
Reconciled(s, d) == row[s][d].streak = Streak(row[s], d, EnrolledFrom[s])

(* With no recompute under way, the streak of a student's newest row is    *)
(* the one the stored rows add up to, although edits and late submissions  *)
(* change the days before it (reconcileAssignmentDay,                      *)
(* resolveDaysToRecompute).  A removal recomputes the removed day only.    *)
StreaksReconciled ==
    Quiet /\ Removed = {} =>
        \A s \in active : \A d \in DOMAIN row[s] :
            (\A e \in DOMAIN row[s] : e <= d) => Reconciled(s, d)

(* SyncService: "correcting 20 Aug ... changes what 21 and 22 Aug's streaks *)
(* should say", so that none is left as it was.  A sync recomputes the days *)
(* a submission touches and its own, and leaves those between.              *)
EveryStreakReconciled ==
    Quiet /\ Removed = {} /\ StaleDays(today - Reach, today) = {} =>
        \A s \in active : \A d \in DOMAIN row[s] : Reconciled(s, d)

(* What is out of date on day d for a student a recompute of it visits,    *)
(* of what findStaleAssignmentDays looks for.                              *)
Visited(d) == {s \in active : EnrolledFrom[s] <= d}
Orphaned(s, d) == d \in DOMAIN row[s] /\ row[s][d].asg = None /\ row[s][d].assigned # {}
Repairable(d) ==
    /\ d \in Recent
    /\ \E s \in Visited(d) : Orphaned(s, d) \/ \E a \in newer : asg[a].day = d

(* Again and again no recent day is out of date for a student still in the *)
(* programme, since syncs keep coming and edits pause, whoever else was    *)
(* archived and whatever their rows say (findStaleAssignmentDays,          *)
(* recomputeDay).                                                          *)
StaleDaysClear == []<>(\A d \in Days : ~ Repairable(d))

(* The stronger claim, that a reported day stops being reported: "Also     *)
(* self-clearing: the recompute finds no assignment, writes assignedCount  *)
(* = 0, and the day stops matching" (rollup.service.ts:765).  It does not  *)
(* hold once students are archived: the query for rows that lost their     *)
(* assignment finds theirs, and no recompute visits them.                  *)
StaleDaysSelfClear ==
    \A d \in Days : d \in StaleDays(today - Reach, today)
                      ~> d \notin StaleDays(today - Reach, today)
=============================================================================
