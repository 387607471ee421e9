---------------------------- MODULE JobLifecycle ----------------------------
(***************************************************************************)
(* What a sync job promises to those who watch its row: it is queued, one  *)
(* run at a time holds it, a run settles each of its students once, and    *)
(* only then concludes with a verdict that depends on the failures of that *)
(* run.  A run can be lost with its process; its job then keeps RUNNING.   *)
(***************************************************************************)
CONSTANTS Jobs, Students

VARIABLES
    status,     \* the status column
    held,       \* is a run under way
    owed,       \* the students the run has not settled
    failures    \* the students whose read failed in this run

vars == <<status, held, owed, failures>>

Init ==
    /\ status = [j \in Jobs |-> "NONE"]
    /\ held = [j \in Jobs |-> FALSE]
    /\ owed = [j \in Jobs |-> {}]
    /\ failures = [j \in Jobs |-> {}]

Submit(j) ==
    /\ status[j] = "NONE"
    /\ status' = [status EXCEPT ![j] = "QUEUED"]
    /\ UNCHANGED <<held, owed, failures>>

Begin(j, targets) ==
    /\ ~held[j]
    /\ status[j] \notin {"NONE", "RUNNING", "COMPLETED"}
    /\ targets # {}
    /\ status' = [status EXCEPT ![j] = "RUNNING"]
    /\ held' = [held EXCEPT ![j] = TRUE]
    /\ owed' = [owed EXCEPT ![j] = targets]
    /\ UNCHANGED failures

Learn(j, s) ==
    /\ held[j]
    /\ s \in owed[j]
    /\ failures' = [failures EXCEPT ![j] = @ \cup {s}]
    /\ UNCHANGED <<status, held, owed>>

Settle(j, s) ==
    /\ held[j]
    /\ s \in owed[j]
    /\ owed' = [owed EXCEPT ![j] = @ \ {s}]
    /\ UNCHANGED <<status, held, failures>>

Release(j) ==
    /\ held[j]
    /\ held' = [held EXCEPT ![j] = FALSE]
    /\ owed' = [owed EXCEPT ![j] = {}]
    /\ failures' = [failures EXCEPT ![j] = {}]

Conclude(j) ==
    /\ owed[j] = {}
    /\ status' = [status EXCEPT ![j] = IF failures[j] = {} THEN "COMPLETED"
                                      ELSE "COMPLETED_WITH_ERRORS"]
    /\ Release(j)

Abort(j) ==
    /\ owed[j] = {}
    /\ status' = [status EXCEPT ![j] = "FAILED"]
    /\ Release(j)

Lose(j) == Release(j) /\ UNCHANGED status

Cancel(j) ==
    /\ status[j] # "NONE"
    /\ status' = [status EXCEPT ![j] = "CANCELLED"]
    /\ UNCHANGED <<held, owed, failures>>

Next ==
    \E j \in Jobs :
        \/ Submit(j) \/ Conclude(j) \/ Abort(j) \/ Lose(j) \/ Cancel(j)
        \/ \E targets \in SUBSET Students : Begin(j, targets)
        \/ \E s \in Students : Learn(j, s) \/ Settle(j, s)

Spec == Init /\ [][Next]_vars
=============================================================================
