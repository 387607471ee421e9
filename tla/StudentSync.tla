----------------------------- MODULE StudentSync -----------------------------
(***************************************************************************)
(* The incremental sync of one student (StudentSyncService.syncStudent):   *)
(* what is new at the provider since the cursor is appended to the local   *)
(* mirror, the cursor moves on, and the days touched are handed to the job *)
(* that recomputes them.  The provider shows the RecentLimit newest        *)
(* submissions of an account only.  Several syncs of one student may       *)
(* overlap (two jobs select it), the handle may be edited meanwhile        *)
(* (StudentsService.update), and every database call is a step that may    *)
(* fail.  StudentSyncState has the variables and what is promised of the   *)
(* cursor and the mirror.  The profile figures refreshed on the way, whose *)
(* failures are swallowed, are left out.                                   *)
(***************************************************************************)
EXTENDS StudentSyncState, FiniteSets, FiniteSetsExt

vars == <<clock, feed, handle, mirror, state, sync, fresh, dropped, edits, env>>

-----------------------------------------------------------------------------
Never == -1
Idle == [pc |-> "idle", handle |-> NoHandle, since |-> Never,
         page |-> {}, error |-> NoError]
NewState == [status |-> "NEVER_SYNCED", cursor |-> Never]
Submissions == Handles \X (1 .. MaxMade)

Init ==
    /\ env \in FaultSets
    /\ clock = 0
    /\ feed = [h \in Handles |-> <<>>]
    /\ handle \in Handles \cup {NoHandle}
    /\ handle = NoHandle => {"edit", "import"} \cap env # {}
    /\ mirror = {}
    /\ state = NewState
    /\ sync = [c \in Syncs |-> Idle]
    /\ fresh = {} /\ dropped = {}
    /\ edits = 0

-----------------------------------------------------------------------------
(* The provider (external): students submit, time passes. *)
Submit(h) ==
    /\ Len(feed[h]) < MaxMade
    /\ h = handle \/ {"edit", "import"} \cap env # {}   \* nobody looks at the others
    /\ feed' = [feed EXCEPT ![h] = Append(@, clock)]
    /\ UNCHANGED <<clock, handle, mirror, state, sync, fresh, dropped, edits>>

Tick ==
    /\ clock < MaxClock
    /\ clock' = clock + 1
    /\ UNCHANGED <<feed, handle, mirror, state, sync, fresh, dropped, edits>>

(* Broken variant: the cursor outlives the account it belongs to. *)
EditHandleOnly(h) ==
    /\ edits = 0
    /\ "edit" \in env
    /\ "editInFlight" \in env \/ \A c \in Syncs : sync[c].pc = "idle"
    /\ handle' = h
    /\ edits' = 1
    /\ UNCHANGED <<clock, feed, mirror, state, sync, fresh, dropped>>

(* update() of a student with a leetcodeUsername: one statement, which     *)
(* resets the sync state.                                                  *)
EditHandle(h) ==
    /\ edits = 0
    /\ "edit" \in env
    /\ "editInFlight" \in env \/ \A c \in Syncs : sync[c].pc = "idle"
    /\ handle' = h
    /\ state' = [state EXCEPT !.status = "NEVER_SYNCED", !.cursor = Never]
    /\ edits' = 1
    /\ UNCHANGED <<clock, feed, mirror, sync, fresh, dropped>>

(* A roster import that names another handle writes the column alone and   *)
(* leaves the cursor where it is.                                          *)
ImportHandle(h) ==
    /\ edits = 0
    /\ "import" \in env
    /\ \A c \in Syncs : sync[c].pc = "idle"
    /\ handle' = h
    /\ edits' = 1
    /\ UNCHANGED <<clock, feed, mirror, state, sync, fresh, dropped>>

-----------------------------------------------------------------------------
(* The syncs have no identity: a new one takes a fixed one of those free.  *)
FreeSlot == CHOOSE c \in Syncs : sync[c].pc = "idle"

(* syncStudent reads the student with its sync state.  Without a handle    *)
(* there is nothing to ask the provider.                                   *)
Begin(c) ==
    /\ sync[c].pc = "idle"
    /\ IF "overlap" \in env THEN c = FreeSlot
                           ELSE c = FreeSlot /\ \A d \in Syncs : sync[d].pc = "idle"
    /\ sync' = [sync EXCEPT ![c] =
          [Idle EXCEPT !.pc = IF handle = NoHandle THEN "missing" ELSE "fetch",
                       !.handle = handle, !.since = state.cursor]]
    /\ UNCHANGED <<clock, feed, handle, mirror, state, fresh, dropped, edits>>

Missing(c) ==
    /\ sync[c].pc = "missing"
    /\ \/ state' = [state EXCEPT !.status = "PROFILE_MISSING"]
       \/ "db" \in env /\ UNCHANGED state
    /\ sync' = [sync EXCEPT ![c] = Idle]
    /\ UNCHANGED <<clock, feed, handle, mirror, fresh, dropped, edits>>

(* The rows strictly after the cursor. *)
PageSince(h, since) == {s \in Recent(h) : At(s) > since}

Failed(c, error) == [sync EXCEPT ![c].pc = "record", ![c].error = error, ![c].page = {}]

(* fetchRecentSubmissions.  An empty list of an account that claims solved *)
(* problems is a hidden profile; the request may fail in its own ways.     *)
Fetch(c) ==
    /\ sync[c].pc = "fetch"
    /\ \/ sync' = [sync EXCEPT ![c].pc = "persist",
                               ![c].page = PageSince(sync[c].handle, sync[c].since)]
       \/ /\ "provider" \in env
          /\ Made(sync[c].handle) # {}
          /\ sync' = Failed(c, "ProfilePrivate")
       \/ /\ "provider" \in env
          /\ \E response \in Failing : sync' = Failed(c, ErrorOf(response))
    /\ UNCHANGED <<clock, feed, handle, mirror, state, fresh, dropped, edits>>

(* Broken variant: only rows that were new count as touched. *)
PersistReportingNew(c) ==
    /\ sync[c].pc = "persist"
    /\ \/ /\ mirror' = mirror \cup sync[c].page
          /\ sync' = [sync EXCEPT ![c].pc = "finish", ![c].page = @ \ mirror]
       \/ /\ "db" \in env /\ sync[c].page # {}
          /\ sync' = Failed(c, "Database")
          /\ UNCHANGED mirror
    /\ UNCHANGED <<clock, feed, handle, state, fresh, dropped, edits>>

(* persistSubmissions: createMany with skipDuplicates.  The days reported  *)
(* are those of every row offered.                                         *)
Persist(c) ==
    /\ sync[c].pc = "persist"
    /\ \/ /\ mirror' = mirror \cup sync[c].page
          /\ sync' = [sync EXCEPT ![c].pc = "finish"]
       \/ /\ "db" \in env /\ sync[c].page # {}
          /\ sync' = Failed(c, "Database")
          /\ UNCHANGED mirror
    /\ UNCHANGED <<clock, feed, handle, state, fresh, dropped, edits>>

(* Broken variant: the cursor is the time of the sync. *)
CursorNow(c) == clock

(* The newest submission actually seen, or the cursor as it was read. *)
NextCursor(c) ==
    IF sync[c].page = {} THEN sync[c].since
    ELSE CHOOSE t \in {At(s) : s \in sync[c].page} : \A s \in sync[c].page : At(s) <= t

(* updateSyncState after a success: the cursor is written whatever it is   *)
(* by now.  When the write fails the catch block takes over.               *)
Finish(c) ==
    /\ sync[c].pc = "finish"
    /\ \/ /\ state' = [state EXCEPT !.status = "OK",
                                    !.cursor = NextCursor(c)]
          /\ sync' = [sync EXCEPT ![c].pc = "derive"]
       \/ /\ "db" \in env
          /\ sync' = Failed(c, "Database")
          /\ UNCHANGED state
    /\ UNCHANGED <<clock, feed, handle, mirror, fresh, dropped, edits>>

(* The catch block: the failure is recorded, the cursor left alone, and no *)
(* affected day reported.                                                  *)
Record(c) ==
    /\ sync[c].pc = "record"
    /\ \/ state' = [state EXCEPT !.status = ToSyncStatus(sync[c].error)]
       \/ "db" \in env /\ UNCHANGED state
    /\ sync' = [sync EXCEPT ![c] = Idle]
    /\ UNCHANGED <<clock, feed, handle, mirror, fresh, dropped, edits>>

(* resolveDaysToRecompute: the job's own day, and the days of the rows it  *)
(* was told of, none after the job's day nor more than Lookback before it. *)
(* (Submissions count for later days as well, and stale days are added:    *)
(* module Rollup has both.)                                                *)
DaysToRecompute(c, day) ==
    {day} \cup {d \in {Day(At(s)) : s \in sync[c].page} : day - Lookback <= d /\ d <= day}

(* The day a job is labelled with: that of its creation, or one named.     *)
JobDays == IF "late" \in env THEN 0 .. Day(clock) ELSE {Day(clock)}

(* The last phase of the job: the days are recomputed from the mirror, the *)
(* oldest first.  A database call that fails there, before the first day   *)
(* (an item's result, the stale days) or after any, ends the job as FAILED *)
(* and a crash leaves it so: the remaining days were in memory only.       *)
Derive(c) ==
    /\ sync[c].pc = "derive"
    /\ \E day \in JobDays : \E done \in SUBSET DaysToRecompute(c, day) :
        /\ \A d \in done, e \in DaysToRecompute(c, day) \ done : d < e
        /\ Failures \cap env = {} => done = DaysToRecompute(c, day)
        /\ fresh' = fresh \cup {s \in mirror : Day(At(s)) \in done}
    /\ dropped' = (dropped \cup sync[c].page) \ fresh'
    /\ sync' = [sync EXCEPT ![c] = Idle]
    /\ UNCHANGED <<clock, feed, handle, mirror, state, edits>>

(* The process dies before that: what the sync had in hand is gone.        *)
Crash(c) ==
    /\ "crash" \in env
    /\ sync[c].pc \notin {"idle", "derive"}
    /\ sync' = [sync EXCEPT ![c] = Idle]
    /\ UNCHANGED <<clock, feed, handle, mirror, state, fresh, dropped, edits>>

SyncStep(c) ==
    \/ Missing(c) \/ Fetch(c) \/ Persist(c) 
    \/ Finish(c) \/ Record(c) \/ Derive(c)

Next ==
    /\ UNCHANGED env
    /\ \/ \E h \in Handles : Submit(h) \/ EditHandle(h) \/ ImportHandle(h)
       \/ Tick
       \/ \E c \in Syncs : Begin(c) \/ SyncStep(c) \/ Crash(c)

Spec == Init /\ [][Next]_vars

(* The schedule starts a sync again and again, what has begun goes on, and *)
(* a provider that is asked again and again answers now and then.          *)
Fairness ==
    /\ WF_vars(UNCHANGED env /\ \E c \in Syncs : Begin(c))
    /\ \A c \in Syncs : WF_vars(UNCHANGED env /\ SyncStep(c))
    /\ SF_vars(UNCHANGED env /\ \E c \in Syncs : Fetch(c) /\ sync'[c].pc = "persist")

FairSpec == Spec /\ Fairness

-----------------------------------------------------------------------------
SyncStates ==
    [status : {"NEVER_SYNCED", "PROFILE_MISSING", "OK", "USER_NOT_FOUND", "PROFILE_PRIVATE",
               "RATE_LIMITED", "TIMEOUT", "PROVIDER_ERROR"},
     cursor : Never .. MaxClock]
Activities ==
    [pc : {"idle", "missing", "fetch", "persist", "finish", "record", "derive"},
     handle : Handles \cup {NoHandle}, since : Never .. MaxClock,
     page : SUBSET Submissions, error : Errors \cup {NoError}]

(* Typing.                                                                 *)
TypeOK ==
    /\ clock \in 0 .. MaxClock
    /\ feed \in [Handles -> Seq(0 .. MaxClock)]
    /\ handle \in Handles \cup {NoHandle}
    /\ mirror \subseteq Submissions /\ fresh \subseteq mirror /\ dropped \subseteq mirror
    /\ state \in SyncStates
    /\ sync \in [Syncs -> Activities]
    /\ edits \in 0 .. 1
    /\ env \in FaultSets

(* Under recurring syncs every submission of the linked account reaches    *)
(* the mirror, and its day the figures, unless it is out of reach, although *)
(* the provider fails again and again and jobs are late.  The exception is *)
(* a submission a job read whose day lies outside the bounds of that job   *)
(* (older than Lookback days, or after the job's own day) and which no     *)
(* later job had as its own: with no failure, no other can be dropped.     *)
EventuallyCounted ==
    []<>({"crash", "editInFlight", "import", "db"} \cap env = {} /\ handle # NoHandle
            => \A s \in Made(handle) : s \in fresh \cup dropped \/ OutOfReach(s))
=============================================================================
