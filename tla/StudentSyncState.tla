-------------------------- MODULE StudentSyncState ---------------------------
(***************************************************************************)
(* What StudentSync is about and what it promises: the submissions at the  *)
(* provider and in the mirror, the cursor, and the syncs between them.     *)
(***************************************************************************)
EXTENDS Integers, Sequences, ProviderErrors

CONSTANTS
    Handles,        \* LeetCode accounts
    NoHandle,       \* the student has none linked
    Syncs,          \* syncStudent calls that may overlap
    RecentLimit,    \* LEETCODE_RECENT_SUBMISSION_LIMIT
    Failing,        \* the provider's answers that fail, of those in Responses
    DayLength,      \* seconds of a program day
    Lookback,       \* MAX_RECOMPUTE_LOOKBACK_DAYS
    MaxMade,        \* bound of the submissions made per account
    MaxClock,       \* bound of the clock
    FaultSets       \* the faults to consider

(* overlap: two jobs at once; late: jobs of an earlier day, named by the    *)
(* caller of POST /sync or created before midnight; edit, import: the       *)
(* handle is changed (once) by that route; editInFlight: also while a sync  *)
(* runs; db: database calls fail; provider: so does the provider; crash: a  *)
(* job dies.                                                                *)
SyncFaults == {"overlap", "late", "edit", "import", "editInFlight", "db", "provider", "crash"}

ASSUME StudentSyncAssumption ==
    /\ NoHandle \notin Handles
    /\ RecentLimit \in Nat \ {0} /\ MaxMade \in Nat /\ MaxClock \in Nat
    /\ DayLength \in Nat \ {0} /\ Lookback \in Nat
    /\ Failing \subseteq Responses \ {"data"}
    /\ FaultSets \subseteq SUBSET SyncFaults

VARIABLES
    clock,      \* seconds: the resolution of a submission's timestamp
    feed,       \* at the provider: when each submission of an account was made
    handle,     \* Student.leetcodeUsername
    mirror,     \* the submission rows of the student: <<account, number>>
    state,      \* the StudentSyncState row
    sync,       \* the syncs under way
    fresh,      \* submissions whose day was recomputed after they were mirrored
    dropped,    \* those reported to a job that ended without recomputing their day
    edits,      \* edits of the handle so far
    env

-----------------------------------------------------------------------------
Made(h) == {<<h, i>> : i \in 1 .. Len(feed[h])}
At(s) == feed[s[1]][s[2]]
Day(t) == t \div DayLength

(* The recent list of an account, newest first and cut off at the limit.   *)
Recent(h) == {s \in Made(h) : s[2] > Len(feed[h]) - RecentLimit}

(* What no later sync can fetch any more: submissions pushed out of the    *)
(* window, and those that share their second with an earlier one, which    *)
(* the cursor may have come to stand on before they were made.             *)
OutOfReach(s) ==
    \/ s \notin Recent(s[1])
    \/ \E t \in Made(s[1]) : t[2] < s[2] /\ At(t) = At(s)

(* The cursor never moves past a submission of the student's account that  *)
(* the mirror lacks and that the window still held: failed reads, database *)
(* errors at any call, overlapping syncs that move the cursor back and an  *)
(* account linked by an edit included.                                     *)
CursorSkips == {s \in Made(handle) \ mirror : At(s) <= state.cursor /\ ~ OutOfReach(s)}
CursorNeverSkips ==
    {"editInFlight", "import"} \cap env = {} /\ handle # NoHandle => CursorSkips = {}

(* "The new one must be re-read from scratch": a change of the handle      *)
(* leaves no cursor of the old account behind, whatever the route, a sync  *)
(* under way included.                                                     *)
ReadFromScratch == handle # NoHandle => CursorSkips = {}

(* No mirrored submission is lost between the syncs: one whose day was not *)
(* recomputed since is reported by a sync under way, lies after the cursor *)
(* and is offered again, or was handed to a job that did not recompute the *)
(* day.  A sync that fails or dies after its rows were written reports     *)
(* nothing, so this rests on reporting all rows offered, not the new ones. *)
(* Rows that such a sync left behind are not offered once the account is   *)
(* exchanged.                                                              *)
Failures == {"db", "crash"}
DaysNotForgotten ==
    Failures \cap env = {} \/ {"edit", "import"} \cap env = {} =>
        \A s \in mirror \ (fresh \cup dropped) :
            \/ \E c \in Syncs : s \in sync[c].page
            \/ At(s) > state.cursor
            \/ OutOfReach(s)

(* What execute() says of the days it recomputes, "every program day whose *)
(* stored results this sync could have changed" (sync.service.ts:73), in   *)
(* an instance whose bounds nothing can fall out of.  It does not hold     *)
(* where a database call of the job's last phase fails: the job ends       *)
(* FAILED, the days it was told of go with it, and the cursor is past      *)
(* their rows already.                                                     *)
ReportedDaysRecomputed == Lookback >= MaxClock /\ "late" \notin env => dropped = {}
=============================================================================
