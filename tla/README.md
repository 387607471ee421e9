# A TLA+ model of the DSA tracker

The repository is a tracker for a programming course.  It mirrors students'
LeetCode submissions, derives daily results, streaks and leaderboards from them,
and reports them by e-mail.  This directory holds TLA+ modules that model the parts
where an interleaving, a failure or a boundary could make it wrong, the TLC
configurations that check them, and TLAPS proofs.  `PROJECT.json` ties every
definition to the lines it models and every property to a mutation of the code that
breaks it.

## The system

| component | state | operations | what must hold |
|---|---|---|---|
| Sync orchestration (`modules/sync`) | `SyncJob`, `SyncJobItem` rows; BullMQ messages; an execution's memory | start, dispatch, execute, cancel; deliver, redeliver, crash | one execution per job; verdict and counters agree with the rows; every job ends |
| Student sync and mirror (`student-sync.service.ts`, `providers/`) | `Submission` rows, the cursor and status of `StudentSyncState` | syncStudent, refreshProfile | the cursor never skips a submission; a day touched is recomputed; a failure keeps what is stored |
| Rate limiter (`rate-limiter.ts`) | waiters, tokens, active count, timer | schedule, release, drain, destroy; retryWithBackoff | the rate and the concurrency are bounded; nobody waits for ever or out of turn |
| Rollup (`scoring/rollup.service.ts`) | `DailyStatus` rows, student aggregates, leaderboard snapshots | recomputeDay, reconcileAssignmentDay, findStaleAssignmentDays, recomputeStudentAggregates, rebuildLeaderboards, healSupersededDays | rows agree with assignments and mirror, or are known to be stale; streaks and boards follow |
| Assignments (`assignments.service.ts`) | `Assignment`, `AssignmentAudienceChange` rows | create, update, changeTarget, remove | one set per audience and day; a scored day keeps its set |
| Batches, campuses, students, import | the placement columns of a student and two histories | create, update, moveStudent, transferStudent, bulk update, import, remove, deleteBatch | the history explains the placement of any day and is not rewritten; an import archives only whom the roster does not name |
| Baseline tests | test, problem, attempt and result rows | create, update, setStatus, remove, startAttempt, submitAttempt, gradeTest, review | a score is what its results add up to; a grade is no older than the hand-in; a mentor's verdict stays |
| Sessions (`auth`, the web client's `api.ts`) | refresh tokens; localStorage and the calls of each tab | login, refresh, logout, password change and reset, deactivation, prune | a token is exchanged once; a session outlives its access tokens and ends when it should |
| E-mail reports (`email-reports`, `infra/email`) | `EmailReport` rows | generateDraft, previewOrEdit, submitForApproval, approve, send | nothing unapproved is mailed; one mail per report |
| Cache (`infra/cache`) | a Redis tier, an in-memory tier, a health flag | get, set, remember, delByPrefix | staleness is bounded; an invalidation is final |
| Infosys programme | its own status rows | its rollup | as the rollup |
| Cron tasks, integrity | none | nightly rollup, nightly report, healing | calls of the above |
| Dashboards, leaderboards, analytics, reports, student portal, web pages | none | reads | the pure rules they apply |
| Notifications, audit, admin endpoints, migrations, seeds, health | append-only or none | | |

The parts interact through the database and nothing else orders them: a cron
process and the API run syncs, recomputes and edits side by side, most operations
read a row, await, and write it by id.  This is why nearly every module below makes
each query of an operation a step of its own.  The hard behaviours are:
interleavings of such read-then-write operations; deliveries that are lost or
repeated by the queue, the submission provider and the e-mail provider; processes
that die between two writes; staleness that is inferred from timestamps; and rules
with windows and boundaries.  `PROJECT.json` lists each at its line under `hazards`,
with the properties that would catch it.

## The modules

| module | models | used by |
|---|---|---|
| `SyncJobs` | `sync.service.ts`, `sync.queue.ts`: the life of a job | `MCSyncJobs`, `SyncJobs_proofs` |
| `JobLifecycle` | what a job promises to those who watch its row | (abstract specification, instantiated by `SyncJobs`) |
| `ProviderErrors` | `provider.errors.ts`: what an answer of the provider becomes, what is retried, the status it leaves | `RateLimiter`, `StudentSync` |
| `RateLimiter` | `rate-limiter.ts`, `request` of `leetcode.provider.ts` | `MCRateLimiter`, `ProviderCalls_proofs` |
| `StudentSync` | `student-sync.service.ts`: the syncs of one student | `MCStudentSync`, `ProviderCalls_proofs` |
| `StudentSyncState` | its constants, variables and promises: the cursor and the mirror | `StudentSync`, `ProviderCalls_proofs` |
| `AssignmentDay` | the pure rules of a day: window, audience, completion, streak | `Rollup`, `Standings` |
| `Rollup` | `recomputeDay` and its callers, `assignments.service.ts`, the choice of days by a sync | `MCRollup`, `Rollup_proofs` |
| `Orderings` | what a sort of the code may leave | `Ranking`, `BaselineGrading` |
| `Ranking` | `ranking.ts`: the order of a board, competition ranks, squad figures, periods | `Standings` |
| `Standings` | aggregates, leaderboard snapshots, the healing of superseded rules, what leaderboards read | `MCStandings`, `Standings_proofs` |
| `Placement` | every route that places a student, with both histories | `MCPlacement`, `Placement_proofs` |
| `PlacementCalendar` | what a placement history promises | (abstract specification, instantiated by `Placement`) |
| `BaselineGrading` | `baseline.ts`: outcomes, scores, eligibility, boards and reports of a test | `BaselineTests` |
| `BaselineTests` | `baseline-tests.service.ts`: a test from draft to close, with the attempts on it | `MCBaselineTests`, `BaselineTests_proofs` |
| `Sessions` | `auth.service.ts` with `api.ts` and the shell of the web client | `MCSessions`, `SessionsAndCache_proofs` |
| `Cache` | `cache.service.ts` | `MCCache`, `SessionsAndCache_proofs` |
| `CacheState` | its constants, variables and promises | `Cache`, `SessionsAndCache_proofs` |
| `EmailReports` | `email-reports.service.ts` and the nightly report | `MCEmailReports`, `ProviderCalls_proofs` |
| `EmailReportState` | its constants, variables and promises | `EmailReports`, `ProviderCalls_proofs` |
| `SumsAndRanks` | nothing of the code: lemmas about sums over finite sets and places in an order | `BaselineTests_proofs`, `Standings_proofs`, `SyncJobs_proofs` |

Names follow the source.  In every module a definition whose comment begins with
"Broken variant" is a plausible bug (a dropped guard, a lost reset); no run uses it
as it is, and `PROJECT.json` says which property catches it when it takes the place
of the definition that follows it.

In most modules a behaviour has one environment (`env`), chosen at its start from the
constant `Environments`, that says which faults and which routes may happen in it.  A
property that depends on a fault being absent names it, so that one run covers all
environments, and what a property does not promise can be read off its left-hand side.

### SyncJobs

`job` and `item` are the rows; `creating` are jobs whose `start()` has not reached
`dispatch`; `msg` is each job's BullMQ message; `exec` is what each call of
`execute()` holds in memory: its program counter, and for each student whether it
is left, being fetched, written, counted or done.  Slots are BullMQ workers and
in-process executions.  `execute()` is one step per database call, because another
execution, `cancel()` or a crash may come between any two.  A call of `syncStudent`
is one step with an outcome (`OK`, `FAILURE`, `SKIPPED`: the three classes
`isSyncFailure` and its caller tell apart) or a rejection; `StudentSync` has its steps.

BullMQ is external and modelled from its contract: a waiting message is delivered
to an idle worker; a message whose lock runs out is redelivered once
(`maxStalledCount` 1); a rejected handler is retried up to `attempts`.
The environment is the queue driver, the configured concurrency, how many processes
die, and which of cancels, failing database calls, a failing enqueue, a lost enqueue
reply and an early lock expiry may happen.

`JobLifecycle` is the abstract specification: a job is submitted, begun by one run
at a time, each student settled once per run, and concluded with the verdict of
that run's failures.  `SyncJobs` implements it under the mapping at its end
(`held`: an execution is between its write of RUNNING and its last write;
`owed`: the students it has not settled).

### RateLimiter and ProviderErrors

The bucket holds `tokens` as of its last refill and `elapsed` time since; a token is
`Cost` units and a unit is gained per tick, so that the fractional tokens of the code
are integers.  `queue`, `timer`, `active` and `destroyed` are the fields of the class;
`call` is where each caller of `request()` is, its attempt and its backoff.  `Return`
releases the slot, decides on a retry from what the answer was (`ProviderErrors`) and
drains the queue, in one step as the code does without awaiting.  `Tick` is time; a
due timer may fire late.  `grants` remembers when requests left during the last
`Window` ticks, for the property about the rate only.

### StudentSync

One student.  `feed` is what each account has at the provider, `mirror` the rows
stored, `state` the cursor and status, `sync` the calls under way, each with the
handle and the cursor it read; `fresh` are the mirrored submissions whose day was
recomputed since.  The provider shows the `RecentLimit` newest submissions (20 in the code).
`syncStudent` is a step per await: read, fetch, persist, write of the state, and the
catch block that records a failure.  `Derive` is the last phase of the job, the recompute
of the days it was told of: none after the day the job is labelled with (that of its
creation, or one named in `POST /sync`) nor more than `Lookback` (14 in the code) before
it, the oldest first.  A database call that fails there, or a crash, ends the job with
days left, and these were in memory only: `dropped` are the submissions reported to a job
that ended without recomputing their day.  Two jobs may sync the student at once; the handle is edited by
`StudentsService.update`, which resets the state in the same statement, or by a roster
import, which does not.

### AssignmentDay and Rollup

`AssignmentDay` translates the pure rules of `packages/shared/src/domain`.  A
problem is a value and a day a number; a submission is a pair of both.

`Rollup` holds the assignment rows (`asg`), every audience each one had
(`targeted`), the mirror, the `DailyStatus` rows (`row`) and the executions
(`proc`).  `recomputeDay` is a step per query: the assignments of the day, the
roster with its frozen sets, the submissions, the history for the streaks, and per
student a read and an upsert.  Callers are a sync job (which notes the days it
touched in memory and asks which days are stale when its students are done),
the edits of assignments with their reconciles, the nightly close-out and a backfill.
Timestamps are reduced to the one comparison made with them: `newer` is the set
of assignments whose `updatedAt` exceeds every `computedAt` of their day.  Students may
be archived and come back (`active`): a recompute visits those on the roster only, while
the query for rows that lost their assignment looks at everyone's.

Abstractions: solve times, points and rejected submissions do not enter; placements
are those of the day and constant; `force` and `isOverridden` (which no code sets)
are left out.

### Ranking and Standings

`Orderings` has the sequences a sort may leave: what the comparison calls equal comes in any
order.  `Ranking` is `compareForRanking`, `rankEntries`, the squad aggregate and the bounds of a
day, a week and a month.  `Standings` is the layer above `Rollup`:
a recompute of one day is a single step here, and what follows it is in detail.  A job
(`proc`) has days to recompute, students whose aggregates to renew, and boards to
rebuild; a rebuild reads the rows, then deletes and creates in a transaction that holds
the deleted rows until it commits, so two of them block, overtake or exclude one another
as READ COMMITTED and the unique index have it.  Jobs are syncs (bounded by
`MAX_RECOMPUTE_LOOKBACK_DAYS`), the nightly run with its healing of `PerNight` superseded
days, reconciles, the removal of an assignment and the reset of a board.  `rules` is the
version of the deployed completion rules; a deployment changes what a recompute stores,
not the rows that are there.  `Narrowed` and `MyRank` are what `LeaderboardService`
reads off a snapshot.

### Placement and PlacementCalendar

`student` holds the placement columns, `batchRows` and `campusRows` the histories in
the order of their rows.  Each of `create`, `update`, bulk update, `moveStudent`,
`transferStudent`, `remove`, the import and `deleteBatch` is modelled by the queries it
makes (transactions are one step); midnight falls between requests, never inside one.  A bulk update is four of them, in no transaction: the
students, their columns, the placements they had before, the new rows.  A roster is its rows with, for each, its owner and
the students it might be mistaken for, with the options it is applied with; a row may
fail, and then nobody is archived.

`PlacementCalendar` is the abstract specification: one batch per student and day, where
a past day never changes but for a first placement, which also answers for the days
since enrolment, and a deletion, which forgets the batch.  `Placement` implements it
with `resolveBatchOnDay` as the mapping, but for first placements that overlap: each is
dated from enrolment, so the later one rewrites the days since.

`HistoryMatchesColumn` has two sides.  When requests come one by one columns and
histories agree between any two queries, except within a bulk update, and except after
one that was cut short, or met the deletion of its batch, between its columns and its
rows.  When requests overlap, only moves of students placed before keep them together: a
transfer, an update or an import leaves no row when the column it read already had the
batch it wants, even if a move has changed the column since.

### BaselineGrading and BaselineTests

`BaselineGrading` has the pure rules: which submissions count for an attempt, what they
score, who is eligible for whom, the board, the statistics and the report.
`BaselineTests` is one test: its row with its problem rows (`edition` tells two sets of
rows apart), the attempts with their results, a mirror that grows meanwhile, and the
requests between their queries.  Once removed, a test does not come back under its id.
A viewer reads everything, or is a mentor with any set of campuses granted, and has a
board, statistics and a report of the students these campuses hold; `Result` is the page of
one student, whose rank is taken from the whole board.  A board is any order of its
students in which nobody follows somebody worse: names, which the code compares last,
decide nothing else.  `verdict`, `handedIn` and `atClose` remember what a
mentor decided and what the mirror gave at the hand-in and at the close.

### Sessions

A pair of tokens is a number: its refresh token is a row, its access token expires at
any moment, the refresh token lapses later.  The tabs of a browser share `storage`
(localStorage); each has at most one refresh in flight, which its calls share.  On the
server `refresh()` is a step per query, and a login is two: the look at the account, and
some queries later the tokens, whatever the account is by then (`Login`, `LoginIssue`).  A
reply may be lost; a request may end with an error, of a query or of the throttle, and what
it wrote stays; the page treats every reply but a pair as the end of the session.  A
logout request leaves without being awaited.  `account` is what every request, login and
refresh looks up; a change or reset of the password and a deactivation write the account
(`change`) and then revoke its rows, an archiving of the student only shuts the door.
`late` counts the requests that were past their look at the account when its sessions were
revoked.

### Cache

A cached value is the version of the data it was computed from.  `redis` is shared, each
process has a `memory` tier and its own opinion of Redis' health.  A read-through is a
step for the read, one for the factory and one for the write; an invalidation one for
the memory tier and one for Redis, where the SCAN and the DEL of what it found are a
single step.

### EmailReports

`status` and `content` are the columns of a report, `approved` what it held when it
was last approved, `mail` what the provider accepted for it, `request` the requests
under way.  Each request reads, decides, and writes by id in a later step, as the
service does; only the claim of a send is conditional (`updateMany`).  `faults`
says which of crashes, failing writes of the outcome, lost replies and repeated
approvals of one report may happen.

## The runs

Every run explores its whole state space and passes.

| run | question | bounds |
|---|---|---|
| `sync_jobs` | is a job executed by one process at a time, does it implement `JobLifecycle`, do verdict and progress agree with the rows? | 1 job of up to 2 students, 2 workers and a local execution; a crash with failing database calls, or 2 crashes without; cancels, failing enqueue |
| `sync_jobs_live` | does every job end with lost enqueue replies, expired locks and a configured concurrency of 0; are counters exact when nothing interferes? | 1 job of up to 2 students, inline and BullMQ |
| `rate_limiter` | are slots, rate, order and wake-ups right while requests fail, retry and the limiter is destroyed; does every request end? | 3 callers, 2 slots, a burst of 2 tokens, 1 retry, grants remembered for 4 ticks |
| `student_sync` | does the cursor skip anything, is a day forgotten before it was handed to a job, is every submission within reach counted in the end? | 2 overlapping syncs, 2 accounts, a window of 2, 3 submissions, 3 days, a lookback of 1 day; failing database, failing provider, crashes, late jobs, edits of the handle |
| `rollup` | is everything out of date on a day found and repaired, do streaks follow, does a scored day keep its set? | 2 students of 2 batches, 2 assignments, 3 days, 2 edits, a submission read up to 2 days late, syncs that touch at most 2 days; one student may be archived |
| `rollup_concurrent` | is every credit evidenced, every student measured by its own sets? | 2 executions of any kind, nightly and backfill included, 3 edits or status changes, one student who leaves and returns, failures at any step |
| `standings` | is each stored board a ranking, of the rows as they are, and do reads agree with it; does the history converge to new rules? | 3 students of 2 campuses and 2 squads, 3 days in weeks of 2 within a month of 4; 2 jobs, 1 crash, 1 status change, 1 removal, 1 late submission |
| `placement` | does each past day keep its batch, do columns and histories agree, does an import archive only whom the roster leaves out? | 2 students, 2 campuses, 3 batches, 3 requests of which 2 overlap, 3 days |
| `baseline` | is a score what its results add up to, is a verdict kept, is a grade in time, do boards and reports add up? | 3 students of 2 campuses, a test for everyone or for one campus, viewers of every set of campuses, 2 problems, 4 requests of which 2 overlap, 2 or 3 submissions |
| `sessions` | is a refresh token exchanged once, does a session survive and end as it should, does every call end? | 2 tabs, 2 calls, 4 pairs of tokens; lost replies, errors, lapsing refresh tokens, a sign-out in flight, a password change, resets and deactivations with and without a refresh in flight, archiving, pruning |
| `cache` | is staleness bounded, is an invalidation final? | 2 processes, 1 key of the prefix, 1 memory entry, 2 changes, a lifetime of 2 ticks of 5, an outage |
| `email` | is nothing unapproved mailed, is SENT the truth, is a report mailed once, does a claimed report leave SENDING? | 2 reports of one audience, 2 overlapping requests, 2 mails; crashes alone, lost replies and repeated approvals, or every fault |

The bounds are the smallest at which the cases meet: two executions are enough for
any lost update of one row, since a third adds only another one between the same
two steps; three days hold a day, a day of its window and one beyond, and for the
boards a closed week, an open one and a month around both; two students separate a
partial recompute from a complete one, three a tie from what is ranked after it; two
requests let two sends, or an edit and a send, or two approvals overlap (the second mail
needs a third); three callers are two that hold every slot and one that waits; a window
of two and three submissions push one out; a lifetime of two and five ticks of time let
an entry expire, be filled again and expire; two runners of a pool are enough for every
interleaving of two students, and the students of a job meet only in its counters.

The properties say what the code keeps and under which condition: `VerdictMatchesItems`
needs the database to answer, because the pool's catch drops a student whose worker
rejected; `CompletedNotRerun` is about COMPLETED only, because a
COMPLETED_WITH_ERRORS job is run again when its message is redelivered;
`StaleDaysAreFound`, `AssignmentFrozen` and `StaleDaysClear` are checked with one
recompute at a time that does not fail, and with no student who comes back, whose rows
nobody looked after meanwhile; `StaleDaysClear` is about what a recompute can repair, the
figures of students still in the programme, because rows of an archived one can keep their
day reported for ever; `EventuallyCounted` leaves out what lies outside the bounds of the
jobs that were told of it, and databases and jobs that fail; `SessionSurvives` names what
the page takes for the end of a session although it is not; `SessionsEnd` bounds what a
deactivation leaves by the requests it overtook; `ClaimsEnd` is stated where the write of
FAILED does not fail and the process does not die in SENDING, from which nothing in the
code leads out; the ranks of `BoardsAddUp` are those of each viewer's own board;
`StreaksReconciled` is about each student's newest row, the one that is shown, and is
stated without deletions, after which only the deleted day is recomputed;
`OneMailPerReport` without lost replies.  In the later modules such conditions are the
environments named on the left of the property.

## Where the code differs from what the repository says

Each of these was met while modelling.  The property is in the module, or the cfg is
kept beside it, so that it can be checked again: TLC gives the run that breaks it.

| statement | where it is said | what the code does | property |
|---|---|---|---|
| CANCELLED and FAILED are terminal | `sync.service.ts`, `runToCompletion` | a job cancelled while PENDING or before `execute()` writes is set back to RUNNING | `SyncJobs!TerminalIsFinal`, with `CancelOnly` |
| a caller is to "resolve only once it reaches a terminal status" | `sync.service.ts:219` | one whose worker died after its last redelivery stays RUNNING | `SyncJobs!StartedJobsFinish`, with `OneCrash` |
| a changed assignment is noticed by the next sync | `findStaleAssignmentDays` | a recompute that read before the edit and writes after it is newer than the edit | `Rollup!StaleDaysAreFound`, with two executions |
| a day with rows that lost their assignment is "also self-clearing"; rows of archived students are not to keep a check "red for ever" | `rollup.service.ts:765`, `:810` | the query for these rows looks at every student, the recompute visits ACTIVE ones: an archived student's row keeps its day reported for ever | `Rollup!StaleDaysSelfClear`, in `Rollup.cfg` |
| a job recomputes "every program day whose stored results this sync could have changed" | `sync.service.ts:73` | a database error after the students are done (an item's result, the stale days, a recompute, the boards) ends the job FAILED; the days it was told of are gone, and the cursor is past their rows | `StudentSync!ReportedDaysRecomputed`, with `db` and a `Lookback` of `MaxClock` |
| the days after a corrected one are "dependents, not bystanders", and leaving them "would trade one visibly-wrong number for two quietly-wrong ones" | `sync.service.ts:134` | a sync that brings late work recomputes the days it touches and its own, and leaves the streaks of the days between | `Rollup!EveryStreakReconciled`, `RollupStreaks.cfg` |
| one send per report | `email-reports.service.ts`, the claim | an approve that overlaps a send puts the report back to APPROVED, and it is mailed again | `EmailReports!ExactlyOneSend`, `EmailTwice.cfg` |
| what is mailed was approved | the workflow's header | a FAILED report is edited and sent without a new approval | `EmailReports!ApprovedContentMailed` |
| "a human's REVIEWED is never undone by a machine" | `baseline-tests.service.ts:672` | a grading that read the review before it was given writes the older value back | `BaselineTests!ReviewNeverUndone`, with `overlap` |
| the report's average is the board's | `baseline-tests.service.ts:755` | the report counts a student who was never synced as 0, the board leaves them out | `BaselineTests!AveragesAgree` |
| the rank of a result and of the table "can never disagree"; "rank is computed across the whole cohort before filtering" | `baseline-tests.service.ts:1162`, `BASELINE_TESTS.md:168` | a mentor's board ranks within the campuses granted, the result of a student over the whole board | `BaselineTests!SameRankForEveryViewer` |
| a viewer's campuses are "intersected with the test's own audience rather than replacing it" | `baseline-tests.service.ts:1394` | both are the `campusId` of one filter, and the later one stands: for a test of one campus a mentor of another sees students the test is not for | `BaselineTests!AudienceIntersected` |
| a new handle "must be re-read from scratch" | `students.service.ts:204` | an import that changes the handle keeps the cursor, and a sync under way writes the old account's cursor after the reset | `StudentSync!ReadFromScratch` |
| "the session is genuinely over" when a refresh fails | `api.ts:175` | every reply but a pair clears the storage and leads to the login page: the throttle's 429 and an error of the server as well as a refusal | `Sessions!RefusedSessionIsOver` |
| a deactivation makes "the sessions go too" | `admin.module.ts:416` | a login or a refresh that looked at the account before the flag was written issues its pair after the sessions were revoked | `Sessions!DeactivatedHasNoSession` |
| a password change ends "every other session" | `auth.service.ts:216` | it ends the caller's own too | `Sessions!OwnSessionSurvives` |
| history rows are "append-only" | `schema.prisma:652` | deleting a batch sets their batch to null | `Placement!HistoryAppendOnly`, `PlacementDeletion.cfg` |
| a batch of another campus "is not a state that can exist" | `campuses.service.ts:572` | `StudentsService.update` and an import write a batch without a look at the campus | `Placement!BatchAtCampus` |
| the healing resumes "exactly where this one stopped" | `cron-tasks.service.ts:119` | a healing that dies after its days and before its boards leaves boards nobody rebuilds | `Standings!FollowsRows` without its condition on crashes |
| `isTied`: another entry "shares this rank" | `ranking.ts` | it is computed among all campuses, while the rank shown is within one | `Standings!IsRanking`, a tie within `peers(x)` |
| "same inputs produce the same board" | `ranking.ts:8` | the campus in a period still open is that of whichever row the query returns first | `Standings!CampusesOf` has more than one member |
| "#4 of 31" | `leaderboard.service.ts`, `myRank` | the total counts the students active now, the rank all who were ranked | `Standings!ReadsAgree` without its condition on `status` |
| a rebuild replaces a board | `rollup.service.ts`, `rebuildLeaderboards` | two that overlap fail on the unique index, or, when a student was archived between them, leave rows of both | `Standings!BoardsCorrect` without its conditions on `overlap` |

Others were read in the code and are not stated as properties: `hasHistory` does not
look at campus history or baseline attempts; the removal of an assignment recomputes the
day and the boards but not the aggregates of its students; an import that takes a row
over marks it as on the roster before the update succeeds; a test set back from ACTIVE
to DRAFT can be edited under its attempts; a start that overlaps the close of a test is
never graded; first placements that overlap rewrite each other's past days; a bulk update
cut short between its columns and its rows leaves them apart.

## Fairness

- `SyncJobs`: an execution whose process is up takes its next step, a dispatched job
  is dispatched, a waiting message is delivered and an expired lock noticed: the
  event loop and BullMQ's workers run them.  Starts, cancels and crashes are free.
- `RateLimiter`: time passes, a due timer fires, a request that is out returns (its
  abort timer sees to it) and a backoff ends.  Nobody need call.
- `StudentSync`: the schedule begins a sync again and again, what began goes on, and a
  provider that is asked infinitely often answers infinitely often (strong fairness on
  that outcome; without it nothing could be promised).
- `Rollup`: a recompute that has begun runs on; the cron keeps starting syncs, and a
  sync ends its reading.  Edits and submissions are free.
- `Standings`: a job goes on until it ends, and a nightly run starts every night, strong
  because another job may occupy the process at the hour.  The weak fairness of a job's
  step is written out, with `Ready` for its ENABLED.
- `Sessions`: a request that was sent is answered, query by query, and its reply
  handled; whether it is lost is free.
- `EmailReports`: a request that was accepted runs on.

Deadlock is checked in the runs of `Rollup`, `RateLimiter` and `Standings`; the others may rest with
nothing left to do, or at the bound of what they count.

## Proofs

The assumptions are the `ASSUME`s on the constants of each module, that students, workers
and in-process executions are finitely many among them; where a theorem has a
further hypothesis (`OneDelivery`, `HoldersStay`, `PlacedOnArrival`) it is named below, and
environments of the module's runs satisfy it.  Where components share a module of
proofs, the guests give it their constants, variables and promises (`CacheState`,
`EmailReportState`, `StudentSyncState`), and their steps are those of an instance.

`SumsAndRanks` replaces the induction over data the provers cannot do.  A sum over a finite
set is a recursive function on its subsets, chosen as the community modules choose it
(`SumsExist`, `SumsAgree`: there is one and it is unique).  Every fact about sums
(that they are additive, monotone, bounded, that two orders of summation agree) takes a
subset minimal among those that violate it (`MinimalSubset`, from the well-foundedness of
proper inclusion), removes one element and contradicts the choice.  In the same way a
finite set has a greatest element, and a competition rank, the place where a run of ties
begins, is one more than the number of members ahead.

`SyncJobs_proofs`, for any number of jobs, students, workers and crashes and every
set of environments:

- `Typing`: the type invariant.
- `Exclusive` and `NotRerun`: in every environment where each job has one delivery (no
  lost enqueue reply, no early lock expiry), at most one execution of a job is past its status check and a
  COMPLETED job is not run again.  The inductive invariant says where a job's only
  delivery is: being created, in its message, or in the one execution that holds it;
  exclusivity alone is not inductive because it says nothing about deliveries to come.
- `VerdictIsTrue`: the verdict of a finished job is the one its items tell.  The invariant
  (`Sound`) ties the items to what the executing process has settled in memory, and the row's
  status to what can be in the items while nobody executes.
- `CountersAreExact`: a job executed once, undisturbed, ends with counters that account for
  every student.  The invariant (`Exact`) counts, outcome by outcome, what the slot holds as
  done against the row's counters, and at the end the row against the items.
- `ProgressIsBacked`: in every environment, the progress a row shows and what its executions
  will still add to it are covered by the attempts its items record.  The invariant (`Backed`)
  weighs each slot by the students it has written and not counted; a step of one slot
  changes one term of a sum over all of them.  A crash between an item and its count
  loses the count and keeps the attempt, hence an inequality; the companion `NotYet`
  (a job without a row has no message and no execution) makes it hold when a job is created.
- `Implements`: with `OneDelivery`, `SyncJobs` implements `JobLifecycle`.  Each action is
  shown to change what the mapping shows of the job (`Status`, `Held`, `Owed`, `Failures`)
  as one action of `JobLifecycle` does, or not at all.

`ProviderCalls_proofs`, for any rate, burst, concurrency, number of callers and retries:

- `Typing`; `SlotsAreAccounted`: the counter of slots is the number of requests on the wire.
- `RateIsBounded`: no interval sees more departures than the burst and the rate allow.  The
  invariant (`Budget`) adds that the tokens left were not spent: a suffix of the departures
  and the tokens together fit what was gained since.
- `WaitersAreWoken`: whoever waits while a slot is free has a timer set, and the queue holds
  exactly the waiting callers, once each.
- `ServiceIsInOrder`: every step serves the queue from its head (an action property).

The part of `ProviderCalls_proofs` on `StudentSync`, for any accounts, overlapping syncs,
length of the recent list and number of submissions:

- `SyncTyping`.
- `CursorSkipsNothing`: the cursor never passes a submission a later sync could not store.
  The invariant says it of the cursor and of each page under way (`SyncsBehind`): a page is
  the newest of the account at the time it was fetched, so what lies between the cursor a sync read and
  the one it will write is on its page.
- `NoDayForgotten`: a mirrored submission whose day was not recomputed is in a sync that
  will report it, lies after the cursor, or is among the `dropped`: handed to a job that
  ended without recomputing it.  The rows below the cursor are all accounted for in this way
  because a sync reports every row it was offered; the invariant says so of the cursor and
  of each page under way.

`SessionsAndCache_proofs`, for any number of calls, tabs and pairs of tokens:

- `Typing`, with the count of pairs that refreshes may still ask for.
- `ExchangedAtMostOnce`: a refresh token yields one pair, although its row is read and
  revoked in two queries: the single refresh in flight of a tab is what excludes a second.
- `SessionSurvivesRefresh`: one tab whose calls find their token expired at any moment is not
  sent to the login page, where every request is answered without an error, the refresh
  tokens have not lapsed, and nobody acts on the account or signs out around a refresh: with
  any of these the page does end a session that is not over.  The invariant (`Survives`)
  places the one live row of the session: in storage, or in the reply of the login or
  refresh under way; no refresh is refused.
- `EndsAreFinal`: after a logout no usable row is left: every usable row is the stored
  one, or on its way to storage or to its end (`LiveRows`).  After a deactivation there are
  no more live rows than requests it overtook, in every environment: the live rows together
  with the requests that will still issue one never exceed those there were when the
  sessions were revoked (`LateRows`), since whoever looks at the account now is refused.

The same module, for any number of processes, keys, changes and outages of `Cache`:

- `CacheTyping`; `StalenessIsBounded`: what is served was superseded at most a lifetime and a
  factory run ago.  The invariant bounds the age of both tiers' entries and of each fill under way.
- `InvalidationHolds`: while Redis never failed, nothing older than the last
  undisturbed invalidation is served (an action property).

`Placement_proofs`, for any number of students, campuses, batches, requests and days, any
rosters and any sets of routes:

- `Typing`: the tables and what each request has read.
- `DatedSoFar` (`DatesSound`): no row is dated after today and who does not exist has no
  history.  The next three rest on it, and on `StepAffects`: what any step does to
  one student is one of six effects.
- `HistoryAgrees`: `HistoryMatchesColumn`.  The invariant follows each request: what it will
  write together with the row it will append leads from the column as it is to one that the
  history agrees with (`Traced`), given that what it read is still so when requests come one
  by one (`ReadsCurrent`); for moves that overlap it suffices that each leaves a row (`MovesMatch`).
- `CalendarImplemented`: with `PlacedOnArrival` (where requests overlap, students are placed
  when they are created), `Placement` implements `PlacementCalendar`.  The invariant (`AllFit`)
  says that a row still to be written is dated today, or is the first of a student and nothing
  can write before it.  Without the hypothesis TLC shows two first placements rewriting a
  past day.
- `NamedStay`: `NamedNotArchived`, with `HoldersStay`: where requests overlap, the owner of a
  row that could be taken for somebody else's is there and is not removed.  The invariant
  (`NamesKept`) keeps account of the rows of a roster: each is still to do, or its owner is on
  the roster, or a row failed.

The e-mail part of `ProviderCalls_proofs`, for any number of reports and requests:

- `EmailTyping`.
- `ApprovalGate` and `SentIsTrue`, with every fault.  The invariant adds to both that a
  request past the check of `send` works on an approved report, and that one about to
  write SENT has mailed.
- `OneMail`, in every environment where replies and outcome writes are not lost and
  a report is approved once.  The invariant: a claimed or mailed report is not sendable, claims are
  exclusive, and an approve under way excludes any claim.

`Rollup_proofs`, for any number of students, sets, days, audiences, edits and
recomputes interleaved query by query:

- `Typing`.  Its inductive form adds where in a recompute the day is known and whom
  the upsert is for.
- `EvidencedCredit`: every row credits assigned problems that the mirror holds, within
  the window.  The rows alone are not inductive: the plan of a recompute past its
  reading of the submissions must be supported too.  It stays so because the mirror
  only grows, and because the streak and the set's name, written later, are all that
  later steps touch.
- `MeasuredInAudience`: no row names a set that never was aimed at its student.  The
  invariant follows the name from the assignment row through what the recompute read
  (sets, frozen names, plan, the row seen before the upsert), all of which may be out
  of date; it rests on `SelectOK`, that `SelectForScope` returns a set that applies.

The next three are about one recompute at a time (`SingleWriter`), as the module says of
what the code keeps: two that overlap break each of them, and TLC shows how.

- `FrozenStays`: `AssignmentFrozen`, under any edits, archiving and failures.  The
  invariant (`SeenIsNamed`) says that the name the upsert is about to keep is still the row's.
- `StaleFound`: `StaleDaysAreFound`, when besides no recompute fails, the students stay
  active and no assignment is entered ahead of its day (`OneWriter`).  The property speaks of
  rest only; the invariant (`StaleInv`) of every moment.  What an execution holds is what
  the tables say, so that each row it writes is right (`Working`); it works on no day to come
  (`Scheduled`); and a recent row is right, or of a reported day, or one the execution
  still owes (`FoundBy`): in the days left, in the plan not yet written, or through a
  submission a sync has mirrored and only remembers.  Each hypothesis is needed: a failure
  forgets what was owed, and a student who comes back has rows nobody looked after.
- `StreaksFollow`: `StreaksReconciled`, with `OneWriter` and without the nightly close-out,
  which computes yesterday alone (`Following`).  The invariant (`FollowInv`): a recompute
  ends on a day no row is after, each planned streak is counted from the rows
  before it as they are stored, and so is each row already written.  It rests on
  `StreakAgree`: a streak depends on no row after its day.

`BaselineTests_proofs`, for any number of students, problems, requests, edits and submissions:

- `Typing`, with the types of what requests have read.
- `ScoreStands`: `ScoreMatchesResults`.  The invariant (`Scores`) says it of each attempt
  whatever is written next; it needs that a draft has no attempts and that the problems a
  pending grading or start has read are still those of the test (`Settled`), which is why
  it is claimed without a test set back to draft, and without edits that overlap.
- `ReviewStands`: `ReviewKept`.  When requests do not overlap, what a grading read of the
  review is still in the row when it writes (`Solo`), and `Raised` touches NOT_REVIEWED only.
- `GradedByThen`: `GradedInTime`.  The invariants follow the evidence: what the mirror gave
  at a hand-in it still gives, since a mirror only grows and a score grows with it
  (`EarnedGrows`), no grading under way holds less (`Handed`), a mark comes after its
  grade (`Handing`), and an attempt not yet graded by a close is in the list of the request
  that closes (`Closing`).
- `BoardsAdd`: `BoardsAddUp`, for every viewer and audience, which needs no invariant
  beyond the types.  Ranks count the students ahead, so that a board which is part of the
  whole one ranks nobody lower; the average lies between lowest and highest percentage; solves add
  up by problem as by student; the parts of the report are disjoint and cover the cohort.
  Proving it showed that the comparison of the model had been written as a CASE with
  overlapping guards, whose value TLA+ leaves open; it is now the chain of conditions the code has.

`Standings_proofs`, for any number of students, squads, campuses, days and jobs, any
lengths of weeks and months, and every environment:

- `Typing`.
- `BoardsStand`: `BoardsCorrect`.  Its first part is about values: a board ranked by
  `RankEntries`, whichever of the allowed orders the sort left, gives each entry one more
  than the number of entries ahead (`RankOfListing` of `SumsAndRanks`), and a subset of it
  ranked again keeps the order.  A state of the database adds what values cannot say, so
  `Inv` has four parts.  `Fits`: what a job is about to create is such a ranking, made from
  numbers, and the boards it has left alternate between students and squads.  `OneJob` and
  `BoardsRanked`: without overlap nothing is inserted beside rows of another transaction;
  with overlap and without archiving, what was not deleted meets the unique index, because
  every board holds all students or none (`AllThere`).  `Followed`: with one job, no crash
  and no archiving, a board either agrees with the rows or is among those the job will still
  rebuild.  It needs that the boards of the days a job recomputes are all those whose
  periods meet these days, and that figures depend on the rows in the period only.

Left to TLC, because they are outside the prover's reach: liveness, which needs fairness
and ENABLED (`EveryJobEnds`, `EveryRequestEnds`, `EventuallyCounted`, `StaleDaysClear`,
`RulesConverge`, `EveryCallEnds`, `ClaimsEnd`).  Every invariant and every action
property of the runs, and both refinements, are proved, under the hypotheses named above.

## Not modelled

- The Infosys rollup: a rollup of its own, with no sync that calls it.  Its tracking
  starts at the earliest assignment, so that one created later for an earlier day changes
  the results of days nobody recomputes.  It is the next module of the plan.
- The poller `runToCompletion`, scoring versions and points, forced recomputes, lifetime
  totals: numbers that no decision modelled here depends on.
- Account creation, recovery tokens; the granting of mentor scopes; plain writes of single rows in
  the administration endpoints; the parsing of roster files and their preview.
- Dashboards, analytics, reports, exports and the student portal: reads that keep no
  state.  Notifications and the audit log: records nobody reads back.
- The web pages, contracts and DTOs, seeds, migrations, scripts, probes: presentation,
  types, or code that runs once.  They are more than half of the repository's lines, and
  the reason why the lines mapped are a small share of all of them.

## Plan

1. `Infosys`: its rollup against what a recompute of every day would give.
2. The poller over `SyncJobs`; scoring versions in `Standings`.
3. Pure rules against reference definitions: longest streak, points, attempts analysis,
   roster normalisation.
4. `Infosys` proofs beside those of `Rollup`; the progress a liveness proof would rest on
   (a job's remaining work decreases with each step) as action properties.
