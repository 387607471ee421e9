------------------------------ MODULE Standings ------------------------------
(***************************************************************************)
(* What is derived from the stored daily results: the figures cached on a  *)
(* student (recomputeStudentAggregates) and the leaderboard snapshots      *)
(* (rebuildLeaderboards), and the jobs that recompute days and then renew  *)
(* both: a sync, the nightly close-out, the healing of days computed under *)
(* superseded rules, a reconcile or backfill, the removal of an            *)
(* assignment, a reset of one day's boards.                                *)
(*                                                                         *)
(* A recompute of one day is one step here (Rollup has its queries).  The  *)
(* reads and transactions that renew aggregates and boards are steps of    *)
(* their own, since jobs of the API and of the cron process overlap.       *)
(***************************************************************************)
EXTENDS AssignmentDay, Ranking, Sequences

CONSTANTS
    Students,
    Today,          \* the days are 1 .. Today
    Week, Month,    \* lengths of a week and of a month
    CampusOn,       \* the campus of each student on each day
    SquadOf,
    MinuteOf,       \* when each student completes a day
    Procs,
    Reach,          \* MAX_RECOMPUTE_LOOKBACK_DAYS
    PerNight,       \* SUPERSEDED_DAYS_PER_NIGHT
    FirstSolves,    \* accepted submissions mirrored from the start
    MaxMirrored,    \* bounds: submissions mirrored later,
    MaxRemoved,     \*   assignments deleted,
    MaxCrashes,     \*   jobs that die,
    MaxFlips,       \*   changes of a student's status
    Environments    \* sets of what may happen

Days == 1 .. Today
Campuses == {CampusOn[s][d] : s \in Students, d \in Days}
Happenings == {"overlap", "crash", "status", "deploy", "remove", "sync", "submit", "reconcile", "reset"}

ASSUME StandingsAssumption ==
    /\ IsFiniteSet(Students)
    /\ Today \in Nat \ {0, 1}       \* there was a yesterday
    /\ {Week, Month, PerNight} \subseteq Nat \ {0}
    /\ {Reach, MaxMirrored, MaxRemoved, MaxCrashes, MaxFlips} \subseteq Nat
    /\ MinuteOf \in [Students -> 0 .. Never - 1]
    /\ FirstSolves \in [Students -> SUBSET (Problems \X Int)]
    /\ \A e \in Environments : e \subseteq Happenings

VARIABLES
    rules,          \* COMPLETION_RULES_VERSION of the deployed code
    assigned,       \* the problems of each day
    mirror,         \* accepted submissions of each student
    active,         \* students whose status is ACTIVE
    row,            \* DailyStatus rows
    streak,         \* Student.currentStreak
    board,          \* LeaderboardEntry and SquadLeaderboardEntry rows by board
    proc,           \* the jobs under way
    crashes, flips, mirrored,
    env

vars == <<rules, assigned, mirror, active, row, streak, board, proc, crashes, flips, mirrored, env>>
inputs == <<rules, assigned, mirror, active>>
counts == <<crashes, flips, mirrored, env>>

-----------------------------------------------------------------------------
(* What a recompute of day d stores for s: version 1 of the rules counted  *)
(* the window's work only, version 2 also work of any other day.           *)
Result(s, d, done, problems, version) ==
    LET inWindow == SolvedInWindow(done, problems, d)
        solved == IF version = 1 THEN inWindow ELSE Solved(done, problems)
    IN [assigned |-> problems, solved |-> solved, inWindow |-> inWindow,
        minute |-> IF problems # {} /\ solved = problems THEN MinuteOf[s] ELSE Never,
        campus |-> CampusOn[s][d], version |-> version]

(* The entry of a student in the board of a period: sums over its days,    *)
(* the minute of its last day, the streak of the moment.                   *)
RowsIn(rows, period) == {d \in DOMAIN rows : period.from <= d /\ d <= period.to}
Entry(rows, period, current) ==
    LET days == RowsIn(rows, period)
        solved == SumFunction([d \in days |-> Cardinality(rows[d].solved)])
        asked == SumFunction([d \in days |-> Cardinality(rows[d].assigned)])
    IN [score |-> SumFunction([d \in days |-> Cardinality(rows[d].inWindow)]),
        solved |-> solved,
        minute |-> IF period.to \in days THEN rows[period.to].minute ELSE Never,
        streak |-> current,
        consistency |-> IF asked = 0 THEN 0 ELSE Rounded(10000 * solved, asked)]

(* The campus of an entry is that of the closing day; before the period    *)
(* closes, that of whichever row the query returned first.                 *)
CampusesOf(rows, period) ==
    IF period.to \in DOMAIN rows THEN {rows[period.to].campus}
    ELSE {rows[d].campus : d \in RowsIn(rows, period)}

Ranked(period) == {s \in active : RowsIn(row[s], period) # {}}
EntriesOf(period) == [s \in Ranked(period) |-> Entry(row[s], period, streak[s])]

(* The rows of a student board: ranked within the campus and globally.     *)
StudentBoard(entries, campus) ==
    LET global == RankEntries(entries)
        peers(s) == {t \in DOMAIN entries : campus[t] = campus[s]}
    IN [s \in DOMAIN entries |->
          [figures |-> entries[s], campus |-> campus[s],
           rank |-> RankEntries([t \in peers(s) |-> entries[t]])[s].rank,
           globalRank |-> global[s].rank, tied |-> global[s].tied]]

SquadBoard(entries) ==
    LET members(q) == {s \in DOMAIN entries : SquadOf[s] = q}
        squads == [q \in {SquadOf[s] : s \in DOMAIN entries} |->
                     AggregateSquad([s \in members(q) |-> entries[s]])]
    IN [q \in DOMAIN squads |-> [figures |-> squads[q], rank |-> RankEntries(squads)[q].rank,
                                 tied |-> RankEntries(squads)[q].tied]]

Boards(kind) == {<<kind, p>> : p \in UNION {Range(PeriodsOf(d, Week, Month)) : d \in Days}}
AllBoards == Boards("student") \cup Boards("squad")

-----------------------------------------------------------------------------
(* A job: the days left to recompute, the days whose boards are renewed    *)
(* then, the boards left, and what its queries have returned so far.       *)
NoBoard == [s \in {} |-> None]
Idle == [pc |-> "idle", todo |-> {}, days |-> {}, boards |-> <<>>, heal |-> 0, cached |-> TRUE,
         found |-> NoBoard, entries |-> NoBoard, locked |-> FALSE, overtaken |-> FALSE]

At(p, pc) == proc[p].pc = pc
Alone == \A q \in Procs : At(q, "idle")
MayStart(p, what) == what \in env /\ At(p, "idle") /\ ("overlap" \in env \/ Alone)

Job(p, days, heal, cached) ==
    proc' = [proc EXCEPT ![p] = [Idle EXCEPT !.pc = "recompute", !.todo = days, !.days = days,
                                             !.heal = heal, !.cached = cached]]

(* The boards of some days, oldest first, each student board before that   *)
(* of the squads: six for each day.                                        *)
OldestFirst(days) == CHOOSE o \in Orderings(days, LAMBDA d, e : d < e) : TRUE
BoardsOf(days) ==
    [i \in 1 .. 6 * Cardinality(days) |->
        LET periods == PeriodsOf(OldestFirst(days)[(i - 1) \div 6 + 1], Week, Month)
        IN <<IF i % 2 = 1 THEN "student" ELSE "squad", periods[((i - 1) % 6) \div 2 + 1]>>]

Renew(p, days) == [Idle EXCEPT !.pc = "rank", !.boards = BoardsOf(days), !.heal = proc[p].heal]

(* Broken variant: work that archived rows keep waiting is counted too.    *)
SupersededOfAll(from) ==
    {d \in from .. Today : \E s \in Students :
        d \in DOMAIN row[s] /\ row[s][d].version < rules /\ row[s][d].assigned # {}}

(* findSupersededDays, and the part of findStaleAssignmentDays about rules. *)
Superseded(from) ==
    {d \in from .. Today : \E s \in active :
        d \in DOMAIN row[s] /\ row[s][d].version < rules /\ row[s][d].assigned # {}}

Oldest(days, n) == {d \in days : Cardinality({e \in days : e < d}) < n}
Recent == {d \in Days : d >= Today - Reach}

Init ==
    /\ env \in Environments
    /\ rules = 1
    /\ assigned = [d \in Days |-> Problems]
    /\ mirror = FirstSolves
    /\ active = Students
    /\ row = [s \in Students |-> [d \in 1 .. Today - 1 |-> Result(s, d, mirror[s], Problems, 1)]]
    /\ streak = [s \in Students |-> Streak(row[s], Today, 1)]
    /\ board = [b \in AllBoards |->
          IF b[1] = "squad" THEN SquadBoard(EntriesOf(b[2]))
          ELSE StudentBoard(EntriesOf(b[2]),
                            [s \in Ranked(b[2]) |-> CampusOn[s][SmallerOf(b[2].to, Today - 1)]])]
    /\ proc = [p \in Procs |-> Idle]
    /\ crashes = 0 /\ flips = 0 /\ mirrored = 0

-----------------------------------------------------------------------------
(* The jobs.                                                               *)

(* execute, after its students: today, the days new work counts for, and   *)
(* the recent days of superseded rules.                                    *)
DaysToSync(new) ==
    {Today} \cup (Recent \cap (Superseded(1) \cup UNION {AssignmentDaysAffectedBy(x[2]) : x \in new}))

Sync(p, s, new) ==
    /\ MayStart(p, "sync")
    /\ new # {} => "submit" \in env /\ new \cap mirror[s] = {}
    /\ mirrored + Cardinality(new) <= MaxMirrored
    /\ mirror' = [mirror EXCEPT ![s] = @ \cup new]
    /\ mirrored' = mirrored + Cardinality(new)
    /\ Job(p, DaysToSync(new), 0, TRUE)
    /\ UNCHANGED <<rules, assigned, active, row, streak, board, crashes, flips, env>>

(* runNightlyRollup: yesterday, then a bounded healing.                    *)
NightlyRollup(p) ==
    /\ At(p, "idle") /\ ("overlap" \in env \/ Alone)
    /\ Job(p, {Today - 1}, PerNight, TRUE)
    /\ UNCHANGED <<inputs, row, streak, board, counts>>

(* reconcileAssignmentDay, backfillDay, recomputeRange.                    *)
Reconcile(p, d) ==
    /\ MayStart(p, "reconcile")
    /\ Job(p, d .. Today, 0, TRUE)
    /\ UNCHANGED <<inputs, row, streak, board, counts>>

(* remove: the cached figures are not recomputed.                          *)
RemoveAssignment(p, d) ==
    /\ MayStart(p, "remove")
    /\ assigned[d] # {} /\ Cardinality({e \in Days : assigned[e] = {}}) < MaxRemoved
    /\ assigned' = [assigned EXCEPT ![d] = {}]
    /\ Job(p, {d}, 0, FALSE)
    /\ UNCHANGED <<rules, mirror, active, row, streak, board, counts>>

(* resetLeaderboard.                                                       *)
Reset(p, d) ==
    /\ MayStart(p, "reset")
    /\ proc' = [proc EXCEPT ![p] = Renew(p, {d})]
    /\ UNCHANGED <<inputs, row, streak, board, counts>>

(* recomputeStale: the whole backlog at once.                              *)
RecomputeStale(p) ==
    /\ MayStart(p, "deploy")
    /\ Superseded(1) # {}
    /\ Job(p, Superseded(1), 0, TRUE)
    /\ UNCHANGED <<inputs, row, streak, board, counts>>

-----------------------------------------------------------------------------
(* Their steps.                                                            *)

(* recomputeDay writes the rows of the ACTIVE students.                    *)
RecomputeDay(p) ==
    /\ At(p, "recompute")
    /\ LET d == CHOOSE e \in proc[p].todo : \A f \in proc[p].todo : e <= f
           left == proc[p].todo \ {d}
       IN /\ row' = [s \in Students |->
                IF s \notin active THEN row[s]
                ELSE [e \in DOMAIN row[s] \cup {d} |->
                        IF e = d THEN Result(s, d, mirror[s], assigned[d], rules) ELSE row[s][e]]]
          /\ proc' = [proc EXCEPT ![p] =
                IF left # {} THEN [@ EXCEPT !.todo = left]
                ELSE IF @.cached THEN [@ EXCEPT !.todo = {}, !.pc = "aggregate"]
                ELSE Renew(p, @.days)]
    /\ UNCHANGED <<inputs, streak, board, counts>>

(* recomputeStudentAggregates: every student's rows are read, then their   *)
(* figures written.                                                        *)
ReadStatuses(p) ==
    /\ At(p, "aggregate")
    /\ proc' = [proc EXCEPT ![p].pc = "cache",
                            ![p].found = [s \in Students |-> Streak(row[s], Today, 1)]]
    /\ UNCHANGED <<inputs, row, streak, board, counts>>

WriteAggregates(p) ==
    /\ At(p, "cache")
    /\ streak' = proc[p].found
    /\ proc' = [proc EXCEPT ![p] = Renew(p, @.days)]
    /\ UNCHANGED <<inputs, row, board, counts>>

(* buildLeaderboard reads the rows with their students and ranks them.     *)
Rank(p) ==
    /\ At(p, "rank")
    /\ LET period == Head(proc[p].boards)[2]
       IN \E campus \in [Ranked(period) -> Campuses] :
            /\ \A s \in Ranked(period) : campus[s] \in CampusesOf(row[s], period)
            /\ proc' = [proc EXCEPT ![p] = [@ EXCEPT !.pc = "replace", !.entries = EntriesOf(period),
                                          !.found = StudentBoard(EntriesOf(period), campus)]]
    /\ UNCHANGED <<inputs, row, streak, board, counts>>

(* The transaction that replaces a board: deleteMany locks the rows it     *)
(* sees and waits for those another transaction has locked,                *)
Deleting(b) == {q \in Procs : At(q, "create") /\ Head(proc[q].boards) = b}
Delete(p) ==
    LET b == Head(proc[p].boards) IN
    /\ At(p, "replace")
    /\ proc' = [proc EXCEPT ![p].pc = "create",
                            ![p].locked = board[b] # NoBoard /\ \A q \in Deleting(b) : ~ proc[q].locked]
    /\ UNCHANGED <<inputs, row, streak, board, counts>>

(* The squads' board of a period is ranked from the entries of the         *)
(* students' board just replaced.                                          *)
Done(p) ==
    LET left == Tail(proc[p].boards)
        job == [Idle EXCEPT !.boards = left, !.heal = proc[p].heal]
    IN IF left = <<>>
       THEN IF job.heal > 0 THEN [job EXCEPT !.pc = "heal"] ELSE Idle
       ELSE IF Head(left)[1] = "student" THEN [job EXCEPT !.pc = "rank"]
       ELSE [job EXCEPT !.pc = "replace", !.found = SquadBoard(proc[p].entries)]

(* The rows of a board and those inserted beside them.                     *)
Beside(rows, new) ==
    [x \in DOMAIN rows \cup DOMAIN new |-> IF x \in DOMAIN rows THEN rows[x] ELSE new[x]]

(* Broken variant: the old rows are not deleted first. *)
CreateBeside(p) ==
    LET b == Head(proc[p].boards) IN
    /\ At(p, "create")
    /\ board' = [board EXCEPT ![b] = Beside(@, proc[p].found)]
    /\ proc' = [proc EXCEPT ![p] = Done(p)]
    /\ UNCHANGED <<inputs, row, streak, counts>>

MayCreate(p) == proc[p].locked \/ \A q \in Deleting(Head(proc[p].boards)) : ~ proc[q].locked

(* and createMany inserts.  What another transaction replaced meanwhile    *)
(* was not deleted by this one, so the unique index refuses it, and the    *)
(* job fails.                                                              *)
Create(p) ==
    LET b == Head(proc[p].boards)
        new == proc[p].found
        left == IF proc[p].overtaken THEN board[b] ELSE NoBoard
    IN
    /\ At(p, "create")
    /\ MayCreate(p)
    /\ IF DOMAIN left \cap DOMAIN new # {}
       THEN UNCHANGED board /\ proc' = [proc EXCEPT ![p] = Idle]
       ELSE /\ board' = [board EXCEPT ![b] = Beside(left, new)]
            /\ proc' = [q \in Procs |->
                 IF q = p THEN Done(p)
                 ELSE IF q \in Deleting(b) THEN [proc[q] EXCEPT !.overtaken = TRUE] ELSE proc[q]]
    /\ UNCHANGED <<inputs, row, streak, counts>>

(* healSupersededDays, with a limit.                                       *)
Heal(p) ==
    /\ At(p, "heal")
    /\ LET days == Oldest(Superseded(1), proc[p].heal)
       IN IF days = {} THEN proc' = [proc EXCEPT ![p] = Idle] ELSE Job(p, days, 0, TRUE)
    /\ UNCHANGED <<inputs, row, streak, board, counts>>

-----------------------------------------------------------------------------
Crash(p) ==
    /\ "crash" \in env /\ crashes < MaxCrashes
    /\ ~ At(p, "idle")
    /\ proc' = [proc EXCEPT ![p] = Idle]
    /\ crashes' = crashes + 1
    /\ UNCHANGED <<inputs, row, streak, board, flips, mirrored, env>>

SetStatus(s) ==
    /\ "status" \in env /\ flips < MaxFlips
    /\ active' = (active \ {s}) \cup ({s} \ active)
    /\ flips' = flips + 1
    /\ UNCHANGED <<rules, assigned, mirror, row, streak, board, proc, crashes, mirrored, env>>

(* A release that changes the completion rules.                            *)
Deploy ==
    /\ "deploy" \in env /\ Alone
    /\ rules = 1 /\ rules' = 2
    /\ UNCHANGED <<assigned, mirror, active, row, streak, board, proc, counts>>

Step(p) ==
    \/ RecomputeDay(p) \/ ReadStatuses(p) \/ WriteAggregates(p)
    \/ Rank(p) \/ Delete(p) \/ Create(p) \/ Heal(p)

Next ==
    \/ \E p \in Procs :
          \/ \E s \in Students : \E new \in {{}} \cup {{x} : x \in Problems \X Days} : Sync(p, s, new)
          \/ \E d \in Days : Reconcile(p, d) \/ RemoveAssignment(p, d) \/ Reset(p, d)
          \/ NightlyRollup(p) \/ RecomputeStale(p) \/ Step(p) \/ Crash(p)
    \/ \E s \in Students : SetStatus(s)
    \/ Deploy

-----------------------------------------------------------------------------
(* What LeaderboardService reads off a stored board.                       *)

(* getLeaderboard, narrowed to a squad: the rows of its ACTIVE students,   *)
(* renumbered.                                                             *)
Shown(b) == DOMAIN board[b] \cap active
Narrowed(b, q) ==
    RankEntries([s \in {t \in Shown(b) : SquadOf[t] = q} |-> board[b][s].figures])

(* myRank: the stored ranks beside counts of the rows shown now.           *)
MyRank(b, s) ==
    LET mine == board[b][s]
    IN [rank |-> mine.rank, total |-> Cardinality({t \in Shown(b) : board[b][t].campus = mine.campus}),
        globalRank |-> mine.globalRank, globalTotal |-> Cardinality(Shown(b))]

Spec == Init /\ [][Next]_vars

(* A job goes on until it ends, and there is a nightly run every night.    *)
(* The first is WF_vars(Step(p)), with its ENABLED spelled out.            *)
Ready(p) == ~ At(p, "idle") /\ (At(p, "create") => MayCreate(p))
Going(p) == []<>(~ Ready(p)) \/ []<><<Step(p)>>_vars
FairSpec == Spec /\ \A p \in Procs : Going(p) /\ SF_vars(NightlyRollup(p))

-----------------------------------------------------------------------------
EntryFigures == [score : Nat, solved : Nat, minute : 0 .. Never, streak : Nat, consistency : Nat]
Results == [assigned : SUBSET Problems, solved : SUBSET Problems, inWindow : SUBSET Problems,
            minute : 0 .. Never, campus : Campuses, version : 1 .. 2]
TypeOK ==
    /\ env \in Environments
    /\ rules \in 1 .. 2
    /\ assigned \in [Days -> SUBSET Problems]
    /\ mirror \in [Students -> SUBSET (Problems \X Int)]
    /\ active \subseteq Students
    /\ DOMAIN row = Students
    /\ \A s \in Students : DOMAIN row[s] \subseteq Days /\ row[s] \in [DOMAIN row[s] -> Results]
    /\ streak \in [Students -> Nat]
    /\ DOMAIN board = AllBoards
    /\ \A b \in AllBoards, x \in Students : x \in DOMAIN board[b] /\ b[1] = "student" =>
          board[b][x].figures \in EntryFigures
    /\ DOMAIN proc = Procs
    /\ \A p \in Procs :
          /\ proc[p].pc \in {"idle", "recompute", "aggregate", "cache", "rank", "replace", "create", "heal"}
          /\ proc[p].todo \subseteq Days /\ proc[p].days \subseteq Days
          /\ proc[p].boards \in Seq(AllBoards)
          /\ proc[p].heal \in 0 .. PerNight
          /\ {proc[p].cached, proc[p].locked, proc[p].overtaken} \subseteq BOOLEAN
    /\ crashes \in 0 .. MaxCrashes /\ flips \in 0 .. MaxFlips /\ mirrored \in 0 .. MaxMirrored

(* A stored board is one ranking, whichever jobs wrote at once: a place is *)
(* one more than the number of entries ahead (ranking.ts: "Competition-    *)
(* style"), among all and, for students, within the campus; a tie is a     *)
(* place shared by two.                                                    *)
IsRanking(kind, rows) ==
    LET keys == DOMAIN rows
        ahead(peers, x) == {y \in peers : Ahead(rows[y].figures, rows[x].figures)}
        place(peers, x) == 1 + Cardinality(ahead(peers, x))
        overall(x) == IF kind = "student" THEN rows[x].globalRank ELSE rows[x].rank
        peers(x) == {y \in keys : kind = "student" => rows[y].campus = rows[x].campus}
    IN \A x \in keys :
         /\ overall(x) = place(keys, x)
         /\ rows[x].rank = place(peers(x), x)
         /\ rows[x].tied <=> \E y \in keys \ {x} : overall(y) = overall(x)

(* What is read off it agrees with it: a squad's list keeps the order of   *)
(* the whole board, and nobody is placed after the last (LeaderboardService*)
(* renumbers "through the same rankEntries"; myRank: "#4 of 31").  Not     *)
(* claimed where students are archived: their places stay taken.           *)
ReadsAgree(b) ==
    /\ \A q \in {SquadOf[s] : s \in Shown(b)} :
          LET list == Narrowed(b, q)
          IN \A s, t \in DOMAIN list :
               list[s].rank < list[t].rank <=> board[b][s].globalRank < board[b][t].globalRank
    /\ \A s \in Shown(b) : LET me == MyRank(b, s)
                          IN me.rank <= me.total /\ me.globalRank <= me.globalTotal

(* And once no job is under way each board holds the figures of the rows   *)
(* as they are, whatever made them change (buildLeaderboard "for the       *)
(* period being ranked"); a streak is that of the moment it was ranked.    *)
(* Not claimed once a job has died, two have overlapped or somebody has    *)
(* been archived.                                                          *)
FollowsRows(b, rows) ==
    LET now == [s \in Ranked(b[2]) |-> Entry(row[s], b[2], 0)]
        same(x, y) == \A f \in {"score", "solved", "minute", "consistency"} : x[f] = y[f]
        members(q) == {s \in DOMAIN now : SquadOf[s] = q}
    IN IF b[1] = "student"
       THEN /\ DOMAIN rows = DOMAIN now
            /\ \A s \in DOMAIN now : /\ same(rows[s].figures, now[s])
                                      /\ rows[s].campus \in CampusesOf(row[s], b[2])
       ELSE /\ DOMAIN rows = {SquadOf[s] : s \in DOMAIN now}
            /\ \A q \in DOMAIN rows :
                  same(rows[q].figures, AggregateSquad([s \in members(q) |-> now[s]]))

BoardsCorrect ==
    \A b \in AllBoards :
        /\ {"overlap", "status"} \subseteq env \/ IsRanking(b[1], board[b])
        /\ b[1] = "student" /\ "status" \notin env => ReadsAgree(b)
        /\ Alone /\ env \cap {"crash", "overlap", "status"} = {} => FollowsRows(b, board[b])

(* After a release that changes the rules the history converges to them,   *)
(* a few days a night, although jobs die, students come and go and a sync  *)
(* repairs only recent days (runNightlyRollup: "A handful a night          *)
(* converges").                                                            *)
RulesConverge == []<>(Superseded(1) = {})
=============================================================================
