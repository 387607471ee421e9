------------------------------ MODULE SyncJobs ------------------------------
(***************************************************************************)
(* The life of a sync job: SyncService.start / execute / cancel, the       *)
(* bounded pool forEachWithConcurrency, and the two drivers of             *)
(* SyncQueueService.  A job row is shared state in the database; what an   *)
(* execution knows (the students it still has to take, the results it      *)
(* collected) lives in the memory of one process and dies with it.         *)
(* Broken variants of an operator stand before it; no run uses them as     *)
(* they are.                                                               *)
(*                                                                         *)
(* Every database call of execute() is a step of its own, because the      *)
(* other executions, cancel() and a crash may come in between.             *)
(***************************************************************************)
EXTENDS Integers, FiniteSets, FiniteSetsExt

CONSTANTS
    Jobs,       \* identifiers of syncJob rows
    Students,
    Workers,    \* BullMQ worker processes (worker concurrency 1 each)
    Locals,     \* in-process executions that runInline may have under way
    MaxTries,   \* JobsOptions.attempts
    Environments, \* the configurations and failures to consider (see Environment)
    None        \* "no job"

Outcomes == {"OK", "FAILURE", "SKIPPED"}
AllFaults == {"cancel", "db", "queue", "lostReply", "stall"}

(* config.redis.driver, config.provider.concurrency, a bound on the        *)
(* processes that die, and what else may go wrong.                         *)
Environment == [driver : {"inline", "bullmq"}, limit : Int, crashes : Nat,
                faults : SUBSET AllFaults]

Slots == Workers \cup Locals
MaxStalls == 1      \* BullMQ's default maxStalledCount

ASSUME SyncJobsAssumption ==
    /\ Workers \cap Locals = {}
    /\ None \notin Jobs
    /\ {"none", "waiting", "dead"} \cap Workers = {}
    /\ IsFiniteSet(Students) /\ IsFiniteSet(Workers) /\ IsFiniteSet(Locals)
    /\ MaxTries \in Nat \ {0}
    /\ Environments \subseteq Environment

VARIABLES
    job,        \* the syncJob rows: status and counters
    item,       \* the syncJobItem rows: status and attempts
    creating,   \* jobs whose start() has inserted the row but not dispatched
    msg,        \* the BullMQ message of each job
    exec,       \* each slot's execute() call
    crashes,    \* processes lost so far
    env         \* the environment, fixed from the start

vars == <<job, item, creating, msg, exec, crashes, env>>

-----------------------------------------------------------------------------
Settled == {"COMPLETED", "COMPLETED_WITH_ERRORS", "FAILED"}
Terminal == Settled \cup {"CANCELLED"}
NoRow == [status |-> "NONE", total |-> 0, processed |-> 0, succeeded |-> 0,
          failed |-> 0, skipped |-> 0]
NoItem == [status |-> "ABSENT", attempts |-> 0]
Idle == [pc |-> "idle", job |-> None,
         stage |-> [s \in Students |-> "out"],
         result |-> [s \in Students |-> "none"]]

(* A fresh call of the handler for job j, awaiting its findUnique. *)
Called(j) == [Idle EXCEPT !.pc = "load", !.job = j]

Targets(j) == {s \in Students : item[j][s].status # "ABSENT"}
InStage(e, st) == {s \in Students : exec[e].stage[s] = st}
InFlight(e) == InStage(e, "fetch") \cup InStage(e, "item") \cup InStage(e, "count")
Ran(e, o) == {s \in Students : exec[e].result[s] = o}

Goto(e, pc) == exec' = [exec EXCEPT ![e].pc = pc]
Move(e, s, st) == exec' = [exec EXCEPT ![e].stage[s] = st]

(* Broken variant: without the Math.max, a limit of 0 starts no runner. *)
PoolOfLimit == env.limit

(* forEachWithConcurrency: Math.max(1, concurrency) runners *)
PoolSize == IF env.limit > 1 THEN env.limit ELSE 1

Init ==
    /\ job = [j \in Jobs |-> NoRow]
    /\ item = [j \in Jobs |-> [s \in Students |-> NoItem]]
    /\ creating = {}
    /\ msg = [j \in Jobs |-> [at |-> "none", tries |-> 0, stalls |-> 0]]
    /\ exec = [e \in Slots |-> Idle]
    /\ crashes = 0
    /\ env \in Environments

-----------------------------------------------------------------------------
(* start(): one nested create writes the job and its items; an empty       *)
(* selection is refused with NotFoundException and writes nothing.         *)
Start(j, ids) ==
    /\ job[j].status = "NONE"
    /\ ids # {}
    /\ job' = [job EXCEPT ![j] = [NoRow EXCEPT !.status = "QUEUED",
                                               !.total = Cardinality(ids)]]
    /\ item' = [item EXCEPT ![j] =
                  [s \in Students |-> IF s \in ids
                                      THEN [NoItem EXCEPT !.status = "NEVER_SYNCED"]
                                      ELSE NoItem]]
    /\ creating' = creating \cup {j}
    /\ UNCHANGED <<msg, exec, crashes>>

RunInline(e, j) ==
    /\ e \in Locals
    /\ exec[e].pc = "idle"
    /\ exec' = [exec EXCEPT ![e] = Called(j)]

Enqueue(j) == msg' = [msg EXCEPT ![j].at = "waiting"]

(* Broken variant: a job handed to the broker is run inline as well. *)
DispatchTwice(j) ==
    /\ j \in creating
    /\ creating' = creating \ {j}
    /\ Enqueue(j)
    /\ \E e \in Locals : RunInline(e, j)
    /\ UNCHANGED <<job, item, crashes>>

(* SyncQueueService.dispatch.  queue.add may reject, and then the job runs *)
(* in-process; the reply of an add that Redis accepted may be lost too.    *)
Dispatch(j) ==
    /\ j \in creating
    /\ creating' = creating \ {j}
    /\ \/ /\ env.driver = "inline"
          /\ \E e \in Locals : RunInline(e, j)
          /\ UNCHANGED msg
       \/ /\ env.driver = "bullmq"
          /\ Enqueue(j)
          /\ UNCHANGED exec
       \/ /\ env.driver = "bullmq" /\ "queue" \in env.faults
          /\ \E e \in Locals : RunInline(e, j)
          /\ UNCHANGED msg
       \/ /\ env.driver = "bullmq" /\ "lostReply" \in env.faults
          /\ Enqueue(j)
          /\ \E e \in Locals : RunInline(e, j)
    /\ UNCHANGED <<job, item, crashes>>

-----------------------------------------------------------------------------
(* BullMQ (external): a worker takes a waiting message. *)
Deliver(w, j) ==
    /\ msg[j].at = "waiting"
    /\ exec[w].pc = "idle"
    /\ msg' = [msg EXCEPT ![j].at = w]
    /\ exec' = [exec EXCEPT ![w] = Called(j)]
    /\ UNCHANGED <<job, item, creating, crashes>>

(* BullMQ (external): the lock of an active message ran out, because its   *)
(* worker died, or ("stall") because the worker did not renew it in time.  *)
Redelivered(m) ==
    IF m.stalls < MaxStalls THEN [m EXCEPT !.at = "waiting", !.stalls = @ + 1]
                            ELSE [m EXCEPT !.at = "dead"]

Stalled(j) ==
    /\ msg[j].at \in Workers
    /\ exec[msg[j].at].job # j \/ "stall" \in env.faults
    /\ msg' = [msg EXCEPT ![j] = Redelivered(@)]
    /\ UNCHANGED <<job, item, creating, exec, crashes>>

(* Broken variant: the check forgets that the job may have completed. *)
LoadUnlessRunning(e) ==
    /\ exec[e].pc = "load"
    /\ Goto(e, IF job[exec[e].job].status = "RUNNING" THEN "ack" ELSE "mark")
    /\ UNCHANGED <<job, item, creating, msg, crashes>>

(* execute() reads the row, and skips a job that is RUNNING or COMPLETED.  *)
Load(e) ==
    /\ exec[e].pc = "load"
    /\ \/ /\ job[exec[e].job].status \in {"NONE", "RUNNING", "COMPLETED"}
          /\ Goto(e, "ack")
       \/ /\ job[exec[e].job].status \notin {"NONE", "RUNNING", "COMPLETED"}
          /\ Goto(e, "mark")
       \/ /\ "db" \in env.faults
          /\ Goto(e, "reject")
    /\ UNCHANGED <<job, item, creating, msg, crashes>>

(* The write of RUNNING does not look at the status again. *)
Begun(x) ==
    [x EXCEPT !.pc = "pool",
              !.stage = [s \in Students |-> IF s \in Targets(x.job) THEN "left" ELSE "out"]]

MarkRunning(e) ==
    /\ exec[e].pc = "mark"
    /\ \/ /\ job' = [job EXCEPT ![exec[e].job].status = "RUNNING"]
          /\ exec' = [exec EXCEPT ![e] = Begun(@)]
       \/ /\ "db" \in env.faults
          /\ Goto(e, "reject")
          /\ UNCHANGED job
    /\ UNCHANGED <<item, creating, msg, crashes>>

-----------------------------------------------------------------------------
(* A free runner of the pool takes the next student and calls syncStudent. *)
TakeStudent(e, s) ==
    /\ exec[e].pc = "pool"
    /\ exec[e].stage[s] = "left"
    /\ Cardinality(InFlight(e)) < PoolSize
    /\ Move(e, s, "fetch")
    /\ UNCHANGED <<job, item, creating, msg, crashes>>

(* syncStudent resolves with a status, whatever the provider did; results  *)
(* gets the outcome at once.  It rejects only on a database error, which   *)
(* the pool logs and forgets.                                              *)
Returned(x, s, o) == [x EXCEPT !.stage[s] = "item", !.result[s] = o]

SyncReturns(e, s) ==
    /\ exec[e].stage[s] = "fetch"
    /\ \/ \E o \in Outcomes :
            exec' = [exec EXCEPT ![e] = Returned(@, s, o)]
       \/ "db" \in env.faults /\ Move(e, s, "done")
    /\ UNCHANGED <<job, item, creating, msg, crashes>>

Recorded(row, o) == [row EXCEPT !.status = o, !.attempts = @ + 1]

(* Broken variant: a lost item write is counted all the same. *)
RecordItemBestEffort(e, s) ==
    /\ exec[e].stage[s] = "item"
    /\ \/ item' = [item EXCEPT ![exec[e].job][s] = Recorded(@, exec[e].result[s])]
       \/ "db" \in env.faults /\ UNCHANGED item
    /\ Move(e, s, "count")
    /\ UNCHANGED <<job, creating, msg, crashes>>

RecordItem(e, s) ==
    /\ exec[e].stage[s] = "item"
    /\ \/ /\ item' = [item EXCEPT ![exec[e].job][s] = Recorded(@, exec[e].result[s])]
          /\ Move(e, s, "count")
       \/ /\ "db" \in env.faults
          /\ Move(e, s, "done")
          /\ UNCHANGED item
    /\ UNCHANGED <<job, creating, msg, crashes>>

(* Broken variant: two outcomes instead of three. *)
CountedTwoWays(row, o) ==
    [row EXCEPT !.processed = @ + 1,
                !.succeeded = IF o = "OK" THEN @ + 1 ELSE @,
                !.failed = IF o # "OK" THEN @ + 1 ELSE @]

(* processedStudents and exactly one of the three outcome counters. *)
Counted(row, o) ==
    [row EXCEPT !.processed = @ + 1,
                !.succeeded = IF o = "OK" THEN @ + 1 ELSE @,
                !.failed = IF o = "FAILURE" THEN @ + 1 ELSE @,
                !.skipped = IF o = "SKIPPED" THEN @ + 1 ELSE @]

CountStudent(e, s) ==
    /\ exec[e].stage[s] = "count"
    /\ Move(e, s, "done")
    /\ \/ job' = [job EXCEPT ![exec[e].job] = Counted(@, exec[e].result[s])]
       \/ "db" \in env.faults /\ UNCHANGED job
    /\ UNCHANGED <<item, creating, msg, crashes>>

(* Broken variant: drained when every student is taken, not finished. *)
PoolTaken(e) ==
    /\ exec[e].pc = "pool"
    /\ InStage(e, "left") = {}
    /\ Goto(e, "derive")
    /\ UNCHANGED <<job, item, creating, msg, crashes>>

(* Promise.all(runners): every runner has run out of students. *)
PoolDrained(e) ==
    /\ exec[e].pc = "pool"
    /\ InStage(e, "left") \cup InFlight(e) = {}
    /\ Goto(e, "derive")
    /\ UNCHANGED <<job, item, creating, msg, crashes>>

(* recomputeDay..., recomputeStudentAggregates, rebuildLeaderboards...,    *)
(* cache.flush: derived state, the subject of module Rollup.               *)
Derive(e) ==
    /\ exec[e].pc = "derive"
    /\ \/ Goto(e, "finish")
       \/ "db" \in env.faults /\ Goto(e, "catch")
    /\ UNCHANGED <<job, item, creating, msg, crashes>>

(* Broken variant: an uncollected handle counts as a failed read. *)
VerdictAllOK(e) == IF Ran(e, "FAILURE") \cup Ran(e, "SKIPPED") = {}
                   THEN "COMPLETED" ELSE "COMPLETED_WITH_ERRORS"

FinalStatus(e) == IF Ran(e, "FAILURE") = {} THEN "COMPLETED" ELSE "COMPLETED_WITH_ERRORS"

Finish(e) ==
    /\ exec[e].pc = "finish"
    /\ \/ /\ job' = [job EXCEPT ![exec[e].job].status = FinalStatus(e)]
          /\ Goto(e, "ack")
       \/ /\ "db" \in env.faults
          /\ Goto(e, "catch")
          /\ UNCHANGED job
    /\ UNCHANGED <<item, creating, msg, crashes>>

Catch(e) ==
    /\ exec[e].pc = "catch"
    /\ \/ /\ job' = [job EXCEPT ![exec[e].job].status = "FAILED"]
          /\ Goto(e, "ack")
       \/ /\ "db" \in env.faults
          /\ Goto(e, "reject")
          /\ UNCHANGED job
    /\ UNCHANGED <<item, creating, msg, crashes>>

-----------------------------------------------------------------------------
Holds(e, j) == e \in Workers /\ msg[j].at = e

(* The handler's promise resolved: the message is done, if still held. *)
Ack(e) ==
    /\ exec[e].pc = "ack"
    /\ msg' = IF Holds(e, exec[e].job) THEN [msg EXCEPT ![exec[e].job].at = "none"]
                                       ELSE msg
    /\ exec' = [exec EXCEPT ![e] = Idle]
    /\ UNCHANGED <<job, item, creating, crashes>>

(* It rejected: BullMQ retries the message, runInline logs the error. *)
Retried(m) ==
    [m EXCEPT !.tries = @ + 1,
              !.at = IF m.tries + 1 < MaxTries THEN "waiting" ELSE "dead"]

Reject(e) ==
    /\ exec[e].pc = "reject"
    /\ msg' = IF Holds(e, exec[e].job)
              THEN [msg EXCEPT ![exec[e].job] = Retried(@)]
              ELSE msg
    /\ exec' = [exec EXCEPT ![e] = Idle]
    /\ UNCHANGED <<job, item, creating, crashes>>

(* cancel(): an update by id, whatever the status was. *)
Cancel(j) ==
    /\ "cancel" \in env.faults
    /\ job[j].status # "NONE"
    /\ job' = [job EXCEPT ![j].status = "CANCELLED"]
    /\ UNCHANGED <<item, creating, msg, exec, crashes>>

(* A process dies: its execution, or the start() it was serving, is lost. *)
Crash == crashes < env.crashes /\ crashes' = crashes + 1

CrashExecution(e) ==
    /\ Crash
    /\ exec[e].pc # "idle"
    /\ exec' = [exec EXCEPT ![e] = Idle]
    /\ UNCHANGED <<job, item, creating, msg>>

CrashStart(j) ==
    /\ Crash
    /\ j \in creating
    /\ creating' = creating \ {j}
    /\ UNCHANGED <<job, item, msg, exec>>

-----------------------------------------------------------------------------
ExecutionStep(e) ==
    \/ Load(e) \/ MarkRunning(e) \/ PoolDrained(e) \/ Derive(e)
    \/ Finish(e) \/ Catch(e) \/ Ack(e) \/ Reject(e)
    \/ \E s \in Students : \/ TakeStudent(e, s) \/ SyncReturns(e, s)
                           \/ RecordItem(e, s) \/ CountStudent(e, s)

QueueStep ==
    \/ \E j \in Jobs : Dispatch(j) \/ Stalled(j)
    \/ \E w \in Workers, j \in Jobs : Deliver(w, j)

Next ==
    /\ UNCHANGED env
    /\ \/ \E j \in Jobs, ids \in SUBSET Students : Start(j, ids)
       \/ QueueStep
       \/ \E e \in Slots : ExecutionStep(e) \/ CrashExecution(e)
       \/ \E j \in Jobs : Cancel(j) \/ CrashStart(j)

Spec == Init /\ [][Next]_vars

(* A process that is up keeps running its awaits, and the broker keeps     *)
(* delivering; starting, cancelling and crashing are never obliged.        *)
Fairness ==
    /\ \A e \in Slots : WF_vars(ExecutionStep(e) /\ UNCHANGED env)
    /\ \A j \in Jobs :
          /\ WF_vars(Dispatch(j) /\ UNCHANGED env)
          /\ WF_vars(Stalled(j) /\ UNCHANGED env)
          /\ WF_vars(\E w \in Workers : Deliver(w, j) /\ UNCHANGED env)

FairSpec == Spec /\ Fairness

-----------------------------------------------------------------------------
JobRow == [status : Terminal \cup {"NONE", "QUEUED", "RUNNING"}, total : Nat,
           processed : Nat, succeeded : Nat, failed : Nat, skipped : Nat]
ItemRow == [status : Outcomes \cup {"ABSENT", "NEVER_SYNCED"}, attempts : Nat]
Message == [at : Workers \cup {"none", "waiting", "dead"}, tries : Nat, stalls : Nat]
Execution ==
    [pc : {"idle", "load", "mark", "pool", "derive", "finish", "catch", "ack", "reject"},
     job : Jobs \cup {None},
     stage : [Students -> {"out", "left", "fetch", "item", "count", "done"}],
     result : [Students -> Outcomes \cup {"none"}]]

(* Typing of the rows, the broker's messages and the executions.           *)
TypeOK ==
    /\ job \in [Jobs -> JobRow]
    /\ item \in [Jobs -> [Students -> ItemRow]]
    /\ creating \in SUBSET Jobs
    /\ msg \in [Jobs -> Message]
    /\ exec \in [Slots -> Execution]
    /\ env \in Environments
    /\ crashes \in 0 .. env.crashes

(* The executions that have read job j as runnable and have not yet given  *)
(* it a final status.                                                      *)
Running(j) == {e \in Slots : /\ exec[e].job = j
                             /\ exec[e].pc \in {"mark", "pool", "derive", "finish", "catch"}}

(* The broker neither redelivers a message its worker still works on, nor  *)
(* loses the reply to an enqueue it accepted.                              *)
OneDelivery == env.faults \cap {"lostReply", "stall"} = {}

(* No job is ever executed twice at the same time: of the deliveries of a  *)
(* job at most one is past execute()'s status check.  The check and the    *)
(* write of RUNNING are two database calls, so this rests on the queue     *)
(* handing a job to one process at a time.                                 *)
ExclusiveExecution ==
    OneDelivery => \A j \in Jobs : \A e1, e2 \in Running(j) : e1 = e2

(* A job that ended COMPLETED is never run again: as long as it is         *)
(* delivered to one process at a time, only cancel() changes its status.   *)
CompletedNotRerun ==
    [][\A j \in Jobs : OneDelivery /\ job[j].status = "COMPLETED"
                         => job'[j].status \in {"COMPLETED", "CANCELLED"}]_vars

SumOver(S, F(_)) == MapThenSumSet(F, S)

(* The progress counters never run ahead of the per-student rows: what was *)
(* counted, and what is about to be, was first recorded as an attempt on   *)
(* an item.  Holds through crashes, redeliveries and double executions.    *)
ProgressBackedByItems ==
    \A j \in Jobs :
        job[j].processed
          + SumOver({e \in Slots : exec[e].job = j},
                    LAMBDA e : Cardinality(InStage(e, "count")))
        <= SumOver(Students, LAMBDA s : item[j][s].attempts)

(* The verdict a finished job shows agrees with its rows: every student of *)
(* a finished job has a recorded outcome, and the job is COMPLETED exactly *)
(* when none of them is a failed read.  Crashes, redeliveries and cancels  *)
(* included, provided the database answers.                                *)
VerdictMatchesItems ==
    \A j \in Jobs :
        /\ OneDelivery /\ "db" \notin env.faults
        /\ job[j].status \in {"COMPLETED", "COMPLETED_WITH_ERRORS"}
        =>
            /\ \A s \in Targets(j) : item[j][s].status \in Outcomes
            /\ job[j].status = "COMPLETED"
                  <=> \A s \in Targets(j) : item[j][s].status # "FAILURE"

(* When a job has finished and nothing interfered, its counters account    *)
(* for the whole selection, outcome by outcome, however its runners (and   *)
(* those of other jobs) interleaved.                                       *)
Tally(j, o) == Cardinality({s \in Targets(j) : item[j][s].status = o})
CountersExactAtEnd ==
    \A j \in Jobs :
        /\ env.crashes = 0 /\ env.faults \subseteq {"queue"}
        /\ job[j].status \in {"COMPLETED", "COMPLETED_WITH_ERRORS"}
        =>
            /\ job[j].processed = job[j].total
            /\ job[j].succeeded = Tally(j, "OK")
            /\ job[j].failed = Tally(j, "FAILURE")
            /\ job[j].skipped = Tally(j, "SKIPPED")

(* A job that was marked RUNNING reaches a terminal status.                *)
StartedJobsFinish ==
    \A j \in Jobs : job[j].status = "RUNNING" ~> job[j].status \in Terminal

(* Every job whose row exists reaches a terminal status, which the poller  *)
(* runToCompletion waits for, however late or often the broker delivers    *)
(* it, as long as processes and database stay up.                          *)
EveryJobEnds ==
    \A j \in Jobs :
        job[j].status # "NONE" /\ env.crashes = 0 /\ "db" \notin env.faults
            ~> job[j].status \in Terminal

(* runToCompletion's comment calls COMPLETED, COMPLETED_WITH_ERRORS,       *)
(* FAILED and CANCELLED terminal: a job that has one keeps it.             *)
TerminalIsFinal ==
    [][\A j \in Jobs : job[j].status \in Terminal => job'[j].status = job[j].status]_vars

-----------------------------------------------------------------------------
(* The job as its users see it (module JobLifecycle): held while an        *)
(* execution works on it, owing the students not settled in that run.      *)
Working(j) == {e \in Slots : /\ exec[e].job = j
                             /\ exec[e].pc \in {"pool", "derive", "finish", "catch"}}
Status == [j \in Jobs |-> job[j].status]
Held == [j \in Jobs |-> Working(j) # {}]
Owed == [j \in Jobs |-> UNION {InStage(e, "left") \cup InFlight(e) : e \in Working(j)}]
Failures == [j \in Jobs |-> UNION {Ran(e, "FAILURE") : e \in Working(j)}]
Lifecycle == INSTANCE JobLifecycle WITH
    status <- Status, held <- Held, owed <- Owed, failures <- Failures

(* Queue, pool and per-process memory together implement the lifecycle of  *)
(* a job, as long as each job is delivered to one execution at a time.     *)
ImplementsLifecycle == Lifecycle!Spec
=============================================================================
