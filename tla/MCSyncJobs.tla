----------------------------- MODULE MCSyncJobs -----------------------------
(* Instances of SyncJobs for TLC.  The attempts and the counters of a job   *)
(* need no bound of their own: its message is delivered at most             *)
(* MaxTries + MaxStalls times.                                              *)
EXTENDS SyncJobs, TLC

Env(driver, limit, deaths, what) ==
    [driver |-> driver, limit |-> limit, crashes |-> deaths, faults |-> what]

(* One job over BullMQ, with a broker that delivers it once at a time. *)
OneAtATime == {Env("bullmq", 2, 1, {"cancel", "db", "queue"}),
               Env("bullmq", 2, 2, {"cancel", "queue"})}

(* The inline driver, and a broker with faults of its own before workers    *)
(* whose concurrency is misconfigured to 0.                                 *)
InlineOrTwice == {Env("inline", 2, 0, {}),
                  Env("bullmq", 0, 0, {"queue", "lostReply", "stall"})}

CancelOnly == {Env("inline", 2, 0, {"cancel"})}
OneCrash == {Env("bullmq", 2, 1, {})}

SlotSymmetry == Permutations(Students) \cup Permutations(Workers)
=============================================================================
