--------------------------- MODULE SyncJobs_proofs ---------------------------
(* Proofs about SyncJobs: typing; that a job delivered to one process at a  *)
(* time is executed by one process at a time, with a verdict and counters   *)
(* that agree with its items; that it implements JobLifecycle; and that the *)
(* progress shown is always covered by the attempts of its items.           *)
EXTENDS SyncJobs, SumsAndRanks

-----------------------------------------------------------------------------
(* Lemmas about the records the actions write. *)

LEMMA IdleTyped == Idle \in Execution
  BY DEF Idle, Execution, Outcomes

LEMMA CalledTyped == \A j \in Jobs : Called(j) \in Execution
  BY DEF Called, Idle, Execution, Outcomes

LEMMA GotoTyped ==
  ASSUME exec \in [Slots -> Execution], NEW e \in Slots,
         NEW pc \in {"mark", "pool", "derive", "finish", "catch", "ack", "reject"},
         Goto(e, pc)
  PROVE  exec' \in [Slots -> Execution]
<1>1. [exec[e] EXCEPT !.pc = pc] \in Execution
  BY DEF Execution
<1> QED BY <1>1 DEF Goto

LEMMA MoveTyped ==
  ASSUME exec \in [Slots -> Execution], NEW e \in Slots, NEW s \in Students,
         NEW st \in {"fetch", "item", "count", "done"}, Move(e, s, st)
  PROVE  exec' \in [Slots -> Execution]
<1> DEFINE f == [exec[e].stage EXCEPT ![s] = st]
<1>1. f \in [Students -> {"out", "left", "fetch", "item", "count", "done"}]
  BY DEF Execution
<1>2. exec' = [exec EXCEPT ![e] = [exec[e] EXCEPT !.stage = f]]
  BY DEF Move
<1> HIDE DEF f
<1>3. [exec[e] EXCEPT !.stage = f] \in Execution
  BY SMTT(20), <1>1 DEF Execution
<1> QED BY <1>2, <1>3

LEMMA StatusTyped ==
  ASSUME job \in [Jobs -> JobRow], NEW k,
         NEW st \in Terminal \cup {"QUEUED", "RUNNING"},
         job' = [job EXCEPT ![k].status = st]
  PROVE  job' \in [Jobs -> JobRow]
<1>1. \A row \in JobRow : [row EXCEPT !.status = st] \in JobRow
  BY DEF JobRow
<1> QED BY <1>1

LEMMA CountedTyped ==
  ASSUME NEW row \in JobRow, NEW o
  PROVE  Counted(row, o) \in JobRow
<1> DEFINE n == row.processed + 1
           m == IF o = "OK" THEN row.succeeded + 1 ELSE row.succeeded
           k == IF o = "FAILURE" THEN row.failed + 1 ELSE row.failed
           l == IF o = "SKIPPED" THEN row.skipped + 1 ELSE row.skipped
<1>1. n \in Nat /\ m \in Nat /\ k \in Nat /\ l \in Nat
  BY DEF JobRow
<1>2. Counted(row, o) = [row EXCEPT !.processed = n, !.succeeded = m,
                                    !.failed = k, !.skipped = l]
  BY DEF Counted
<1> HIDE DEF n, m, k, l
<1> QED BY <1>1, <1>2 DEF JobRow

LEMMA RecordedTyped ==
  ASSUME NEW row \in ItemRow, NEW o \in Outcomes
  PROVE  Recorded(row, o) \in ItemRow
<1> DEFINE n == row.attempts + 1
<1>1. n \in Nat
  BY DEF ItemRow
<1>2. Recorded(row, o) = [row EXCEPT !.status = o, !.attempts = n]
  BY DEF Recorded
<1> HIDE DEF n
<1> QED BY <1>1, <1>2 DEF ItemRow

LEMMA ItemTyped ==
  ASSUME item \in [Jobs -> [Students -> ItemRow]], NEW k, NEW s \in Students,
         NEW o \in Outcomes, item' = [item EXCEPT ![k][s] = Recorded(@, o)]
  PROVE  item' \in [Jobs -> [Students -> ItemRow]]
<1>1. CASE k \in Jobs
  <2> DEFINE row == Recorded(item[k][s], o)
             rows == [item[k] EXCEPT ![s] = row]
  <2>1. row \in ItemRow
    BY <1>1, RecordedTyped
  <2>2. rows \in [Students -> ItemRow]
    <3> HIDE DEF row
    <3> QED BY <1>1, <2>1
  <2>3. item' = [item EXCEPT ![k] = rows]
    OBVIOUS
  <2> HIDE DEF rows
  <2> QED BY <2>2, <2>3
<1>2. CASE k \notin Jobs
  <2>1. item' = item
    BY <1>2
  <2> QED BY <2>1
<1> QED BY <1>1, <1>2

LEMMA RedeliveredTyped ==
  ASSUME NEW m \in Message
  PROVE  Redelivered(m) \in Message
<1> DEFINE n == m.stalls + 1
<1>1. n \in Nat
  BY DEF Message
<1>2. [m EXCEPT !.at = "dead"] \in Message
  BY DEF Message
<1>3. [m EXCEPT !.at = "waiting", !.stalls = n] \in Message
  <2> HIDE DEF n
  <2> QED BY <1>1 DEF Message
<1> QED BY <1>2, <1>3 DEF Redelivered

LEMMA RetriedTyped ==
  ASSUME NEW m \in Message
  PROVE  Retried(m) \in Message
<1> DEFINE n == m.tries + 1
           at == IF m.tries + 1 < MaxTries THEN "waiting" ELSE "dead"
<1>1. n \in Nat /\ at \in {"waiting", "dead"}
  BY DEF Message
<1>2. Retried(m) = [m EXCEPT !.tries = n, !.at = at]
  BY DEF Retried
<1> HIDE DEF n, at
<1> QED BY <1>1, <1>2 DEF Message

LEMMA BegunTyped ==
  ASSUME NEW x \in Execution
  PROVE  Begun(x) \in Execution
<1> DEFINE f == [s \in Students |-> IF s \in Targets(x.job) THEN "left" ELSE "out"]
<1>1. f \in [Students -> {"out", "left", "fetch", "item", "count", "done"}]
  OBVIOUS
<1>2. Begun(x) = [x EXCEPT !.pc = "pool", !.stage = f]
  BY DEF Begun
<1> HIDE DEF f
<1> QED BY <1>1, <1>2 DEF Execution

LEMMA ReturnedTyped ==
  ASSUME NEW x \in Execution, NEW s \in Students, NEW o \in Outcomes
  PROVE  Returned(x, s, o) \in Execution
  BY DEF Returned, Execution

LEMMA AtTyped ==
  ASSUME msg \in [Jobs -> Message], NEW k,
         NEW at \in Workers \cup {"none", "waiting", "dead"},
         msg' = [msg EXCEPT ![k].at = at]
  PROVE  msg' \in [Jobs -> Message]
  BY DEF Message

-----------------------------------------------------------------------------
(* TypeOK, one action at a time.  An item is typed because an execution     *)
(* writes it only once it knows the outcome.                                *)

OutcomeKnown ==
    \A e \in Slots, s \in Students :
        exec[e].stage[s] \in {"item", "count"} => exec[e].result[s] \in Outcomes

LEMMA StartTyped ==
  ASSUME TypeOK, NEW j \in Jobs, NEW ids \in SUBSET Students, Start(j, ids),
         UNCHANGED env
  PROVE  TypeOK'
<1>1. Cardinality(ids) \in Nat
  BY SyncJobsAssumption, FS_Subset, FS_CardinalityType
<1>2. [NoRow EXCEPT !.status = "QUEUED", !.total = Cardinality(ids)] \in JobRow
  BY <1>1 DEF NoRow, JobRow
<1>3. [s \in Students |-> IF s \in ids THEN [NoItem EXCEPT !.status = "NEVER_SYNCED"]
                                      ELSE NoItem] \in [Students -> ItemRow]
  BY DEF NoItem, ItemRow
<1> QED BY <1>2, <1>3 DEF TypeOK, Start

LEMMA QueueTyped ==
  ASSUME TypeOK, QueueStep, UNCHANGED env
  PROVE  TypeOK'
<1>1. ASSUME NEW j \in Jobs, Dispatch(j) PROVE TypeOK'
  <2>1. \A e \in Slots : RunInline(e, j) => exec' \in [Slots -> Execution]
    BY CalledTyped DEF RunInline, TypeOK
  <2>2. Enqueue(j) => msg' \in [Jobs -> Message]
    BY AtTyped DEF Enqueue, TypeOK
  <2> QED BY <1>1, <2>1, <2>2 DEF Dispatch, TypeOK, Slots
<1>2. ASSUME NEW j \in Jobs, Stalled(j) PROVE TypeOK'
  <2>1. msg' \in [Jobs -> Message]
    BY <1>2, RedeliveredTyped DEF Stalled, TypeOK
  <2> QED BY <1>2, <2>1 DEF Stalled, TypeOK
<1>3. ASSUME NEW w \in Workers, NEW j \in Jobs, Deliver(w, j) PROVE TypeOK'
  <2>1. msg' \in [Jobs -> Message]
    BY <1>3, AtTyped DEF Deliver, TypeOK
  <2>2. exec' \in [Slots -> Execution]
    BY <1>3, CalledTyped DEF Deliver, TypeOK, Slots
  <2> QED BY <1>3, <2>1, <2>2 DEF Deliver, TypeOK
<1> QED BY <1>1, <1>2, <1>3 DEF QueueStep

LEMMA ExecutionTyped ==
  ASSUME TypeOK, OutcomeKnown, NEW e \in Slots, ExecutionStep(e), UNCHANGED env
  PROVE  TypeOK'
<1> USE DEF TypeOK
<1>1. CASE Load(e)
  BY <1>1, GotoTyped DEF Load
<1>2. CASE MarkRunning(e)
  <2>1. job' \in [Jobs -> JobRow]
    BY <1>2, StatusTyped DEF MarkRunning
  <2>2. exec' \in [Slots -> Execution]
    <3>1. CASE Goto(e, "reject")
      BY <3>1, GotoTyped
    <3>2. CASE exec' = [exec EXCEPT ![e] = Begun(@)]
      BY <3>2, BegunTyped
    <3> QED BY <1>2, <3>1, <3>2 DEF MarkRunning
  <2> QED BY <1>2, <2>1, <2>2 DEF MarkRunning
<1>3. CASE PoolDrained(e)
  BY <1>3, GotoTyped DEF PoolDrained
<1>4. CASE Derive(e)
  BY <1>4, GotoTyped DEF Derive
<1>5. CASE Finish(e)
  <2>1. job' \in [Jobs -> JobRow]
    BY <1>5, StatusTyped DEF Finish, FinalStatus, Terminal, Settled
  <2> QED BY <1>5, <2>1, GotoTyped DEF Finish
<1>6. CASE Catch(e)
  <2>1. job' \in [Jobs -> JobRow]
    BY <1>6, StatusTyped DEF Catch, Terminal, Settled
  <2> QED BY <1>6, <2>1, GotoTyped DEF Catch
<1>7. CASE Ack(e)
  <2>1. msg' \in [Jobs -> Message]
    BY <1>7, AtTyped DEF Ack
  <2> QED BY <1>7, <2>1, IdleTyped DEF Ack
<1>8. CASE Reject(e)
  <2>1. msg' \in [Jobs -> Message]
    BY <1>8, RetriedTyped DEF Reject
  <2> QED BY <1>8, <2>1, IdleTyped DEF Reject
<1>9. ASSUME NEW s \in Students, TakeStudent(e, s) PROVE TypeOK'
  BY <1>9, MoveTyped DEF TakeStudent
<1>10. ASSUME NEW s \in Students, SyncReturns(e, s) PROVE TypeOK'
  <2>1. ASSUME NEW o \in Outcomes, exec' = [exec EXCEPT ![e] = Returned(@, s, o)]
        PROVE  exec' \in [Slots -> Execution]
    BY <2>1, ReturnedTyped
  <2> QED BY <1>10, <2>1, MoveTyped DEF SyncReturns
<1>11. ASSUME NEW s \in Students, RecordItem(e, s) PROVE TypeOK'
  <2>1. exec[e].result[s] \in Outcomes
    BY <1>11 DEF RecordItem, OutcomeKnown
  <2>2. item' \in [Jobs -> [Students -> ItemRow]]
    BY <1>11, <2>1, ItemTyped DEF RecordItem
  <2> QED BY <1>11, <2>2, MoveTyped DEF RecordItem
<1>12. ASSUME NEW s \in Students, CountStudent(e, s) PROVE TypeOK'
  <2>1. job' \in [Jobs -> JobRow]
    BY <1>12, CountedTyped DEF CountStudent
  <2> QED BY <1>12, <2>1, MoveTyped DEF CountStudent
<1> QED
  BY <1>1, <1>2, <1>3, <1>4, <1>5, <1>6, <1>7, <1>8, <1>9, <1>10, <1>11, <1>12
     DEF ExecutionStep

LEMMA CrashTyped ==
  ASSUME TypeOK, Crash, UNCHANGED env
  PROVE  crashes' \in 0 .. env'.crashes
<1>1. env.crashes \in Nat
  BY SyncJobsAssumption DEF TypeOK, Environment
<1> QED BY <1>1 DEF TypeOK, Crash

LEMMA NextTyped ==
  ASSUME TypeOK, OutcomeKnown, [Next]_vars
  PROVE  TypeOK'
<1>0. UNCHANGED env
  BY DEF Next, vars
<1> USE <1>0
<1>1. ASSUME NEW j \in Jobs, NEW ids \in SUBSET Students, Start(j, ids) PROVE TypeOK'
  BY <1>1, StartTyped
<1>2. CASE QueueStep
  BY <1>2, QueueTyped
<1>3. ASSUME NEW e \in Slots, ExecutionStep(e) PROVE TypeOK'
  BY <1>3, ExecutionTyped
<1>4. ASSUME NEW e \in Slots, CrashExecution(e) PROVE TypeOK'
  BY <1>4, CrashTyped, IdleTyped DEF CrashExecution, TypeOK
<1>5. ASSUME NEW j \in Jobs, Cancel(j) PROVE TypeOK'
  <2>1. job' \in [Jobs -> JobRow]
    BY <1>5, StatusTyped DEF Cancel, TypeOK, Terminal
  <2> QED BY <1>5, <2>1 DEF Cancel, TypeOK
<1>6. ASSUME NEW j \in Jobs, CrashStart(j) PROVE TypeOK'
  BY <1>6, CrashTyped DEF CrashStart, TypeOK
<1>7. CASE UNCHANGED vars
  BY <1>7 DEF vars, TypeOK
<1> QED BY <1>1, <1>2, <1>3, <1>4, <1>5, <1>6, <1>7 DEF Next

Active == {"mark", "pool", "derive", "finish", "catch"}

(* What a step may do to one execution. *)
ExecStep(x, y) ==
    \/ y = x
    \/ y = Idle
    \/ \E j \in Jobs : x.pc = "idle" /\ y = Called(j)
    \/ \E pc \in {"mark", "ack", "reject"} : x.pc = "load" /\ y = [x EXCEPT !.pc = pc]
    \/ \E pc \in {"derive", "finish", "catch", "ack", "reject"} :
          x.pc \in Active /\ y = [x EXCEPT !.pc = pc]
    \/ x.pc = "mark" /\ y = Begun(x)
    \/ \E s \in Students, st \in {"fetch", "done"} : x.stage[s] # "out" /\ y = [x EXCEPT !.stage[s] = st]
    \/ \E s \in Students, o \in Outcomes : x.stage[s] # "out" /\ y = Returned(x, s, o)
    \/ \E s \in Students : x.stage[s] = "item" /\ y = [x EXCEPT !.stage[s] = "count"]

LEMMA EveryExecStep ==
  ASSUME TypeOK, [Next]_vars, NEW e \in Slots
  PROVE  ExecStep(exec[e], exec'[e])
<1> USE DEF TypeOK, ExecStep
<1>1. CASE UNCHANGED exec
  BY <1>1
<1>2. ASSUME NEW x \in Slots, NEW j \in Jobs, exec[x].pc = "idle",
             exec' = [exec EXCEPT ![x] = Called(j)]
      PROVE  ExecStep(exec[e], exec'[e])
  BY <1>2
<1>3. ASSUME NEW x \in Slots, exec' = [exec EXCEPT ![x] = Idle]
      PROVE  ExecStep(exec[e], exec'[e])
  BY <1>3
<1>4. ASSUME NEW x \in Slots, exec[x].pc \in Active,
             NEW pc \in {"derive", "finish", "catch", "ack", "reject"}, Goto(x, pc)
      PROVE  ExecStep(exec[e], exec'[e])
  BY <1>4 DEF Goto
<1>13. ASSUME NEW x \in Slots, exec[x].pc = "load",
              NEW pc \in {"mark", "ack", "reject"}, Goto(x, pc)
       PROVE  ExecStep(exec[e], exec'[e])
  BY <1>13 DEF Goto
<1>5. ASSUME NEW x \in Slots, exec[x].pc = "mark", exec' = [exec EXCEPT ![x] = Begun(@)]
      PROVE  ExecStep(exec[e], exec'[e])
  BY <1>5
<1>6. ASSUME NEW x \in Slots, NEW s \in Students, NEW st \in {"fetch", "done"},
             exec[x].stage[s] # "out", Move(x, s, st)
      PROVE  ExecStep(exec[e], exec'[e])
  BY <1>6 DEF Move
<1>7. ASSUME NEW x \in Slots, NEW s \in Students, NEW o \in Outcomes,
             exec[x].stage[s] # "out", exec' = [exec EXCEPT ![x] = Returned(@, s, o)]
      PROVE  ExecStep(exec[e], exec'[e])
  BY <1>7
<1>8. ASSUME NEW x \in Slots, NEW s \in Students, exec[x].stage[s] = "item",
             Move(x, s, "count")
      PROVE  ExecStep(exec[e], exec'[e])
  BY <1>8 DEF Move
<1> HIDE DEF TypeOK, ExecStep
<1>9. ASSUME NEW j \in Jobs, Dispatch(j) PROVE ExecStep(exec[e], exec'[e])
  BY <1>1, <1>2, <1>9 DEF Dispatch, RunInline, Slots
<1>10. ASSUME NEW w \in Workers, NEW j \in Jobs, Deliver(w, j)
       PROVE  ExecStep(exec[e], exec'[e])
  BY <1>2, <1>10 DEF Deliver, Slots
<1>11. ASSUME NEW x \in Slots, ExecutionStep(x) PROVE ExecStep(exec[e], exec'[e])
  <2>1. Load(x) => ExecStep(exec[e], exec'[e])
    BY <1>13 DEF Load
  <2>2. MarkRunning(x) => ExecStep(exec[e], exec'[e])
    BY <1>4, <1>5 DEF MarkRunning, Active
  <2>3. PoolDrained(x) \/ Derive(x) => ExecStep(exec[e], exec'[e])
    BY <1>4 DEF PoolDrained, Derive, Active
  <2>4. Finish(x) \/ Catch(x) => ExecStep(exec[e], exec'[e])
    BY <1>4 DEF Finish, Catch, Active
  <2>5. Ack(x) \/ Reject(x) => ExecStep(exec[e], exec'[e])
    BY <1>3 DEF Ack, Reject
  <2>6. ASSUME NEW s \in Students, TakeStudent(x, s) \/ CountStudent(x, s)
        PROVE  ExecStep(exec[e], exec'[e])
    BY <1>6, <2>6 DEF TakeStudent, CountStudent
  <2>7. ASSUME NEW s \in Students, SyncReturns(x, s) PROVE ExecStep(exec[e], exec'[e])
    BY <1>6, <1>7, <2>7 DEF SyncReturns
  <2>8. ASSUME NEW s \in Students, RecordItem(x, s) PROVE ExecStep(exec[e], exec'[e])
    BY <1>6, <1>8, <2>8 DEF RecordItem
  <2> QED BY <1>11, <2>1, <2>2, <2>3, <2>4, <2>5, <2>6, <2>7, <2>8 DEF ExecutionStep
<1>12. ASSUME NEW x \in Slots, CrashExecution(x) PROVE ExecStep(exec[e], exec'[e])
  BY <1>3, <1>12 DEF CrashExecution
<1> QED
  BY <1>1, <1>9, <1>10, <1>11, <1>12
     DEF Next, QueueStep, Start, Stalled, Cancel, CrashStart, vars

(* An execution that goes on keeps its job; it becomes active through its   *)
(* status check only.                                                       *)
LEMMA ExecGoesOn ==
  ASSUME NEW x \in Execution, NEW y, ExecStep(x, y), y.pc # "idle"
  PROVE  \/ x.pc = "idle" /\ y.pc = "load" /\ y.job \in Jobs
         \/ /\ y.job = x.job
            /\ \/ y.pc = x.pc
               \/ x.pc = "load" /\ y.pc \in {"mark", "ack", "reject"}
               \/ x.pc \in Active
<1>1. y # Idle
  BY DEF Idle
<1>2. \A j \in Jobs : Called(j).pc = "load" /\ Called(j).job = j
  BY DEF Called, Idle
<1>3. Begun(x).job = x.job
  BY DEF Begun, Execution
<1>4. ASSUME NEW s \in Students, NEW o \in Outcomes, y = Returned(x, s, o)
      PROVE  y.job = x.job /\ y.pc = x.pc
  BY <1>4 DEF Returned, Execution
<1>5. ASSUME NEW s \in Students, NEW st \in {"fetch", "done", "count"},
             y = [x EXCEPT !.stage[s] = st]
      PROVE  y.job = x.job /\ y.pc = x.pc
  BY <1>5 DEF Execution
<1>6. \A pc : [x EXCEPT !.pc = pc].job = x.job /\ [x EXCEPT !.pc = pc].pc = pc
  BY DEF Execution
<1>7. CASE \E s \in Students :
             \/ \E st \in {"fetch", "done"} : y = [x EXCEPT !.stage[s] = st]
             \/ y = [x EXCEPT !.stage[s] = "count"]
             \/ \E o \in Outcomes : y = Returned(x, s, o)
  BY <1>4, <1>5, <1>7
<1>8. CASE \E pc \in {"mark", "ack", "reject"} : x.pc = "load" /\ y = [x EXCEPT !.pc = pc]
  BY <1>6, <1>8
<1>9. CASE x.pc \in Active /\ \E pc : y = [x EXCEPT !.pc = pc]
  BY <1>6, <1>9
<1>10. CASE x.pc = "mark" /\ y = Begun(x)
  BY <1>3, <1>10 DEF Active
<1>11. CASE \E j \in Jobs : x.pc = "idle" /\ y = Called(j)
  BY <1>2, <1>11
<1> QED BY <1>1, <1>7, <1>8, <1>9, <1>10, <1>11 DEF ExecStep

LEMMA NextKnown ==
  ASSUME TypeOK, OutcomeKnown, [Next]_vars
  PROVE  OutcomeKnown'
<1> SUFFICES ASSUME NEW e \in Slots, NEW s \in Students,
                    exec'[e].stage[s] \in {"item", "count"}
             PROVE  exec'[e].result[s] \in Outcomes
  BY DEF OutcomeKnown
<1>1. exec[e] \in Execution /\ ExecStep(exec[e], exec'[e])
  BY EveryExecStep DEF TypeOK
<1>2. exec[e].stage[s] \in {"item", "count"} => exec[e].result[s] \in Outcomes
  BY DEF OutcomeKnown
<1> DEFINE x == exec[e]
           y == exec'[e]
<1> HIDE DEF x, y
<1>3. x.stage \in [Students -> {"out", "left", "fetch", "item", "count", "done"}]
  BY <1>1 DEF Execution, x
<1>4. ASSUME NEW i \in Students, NEW st \in {"fetch", "done"}, y = [x EXCEPT !.stage[i] = st]
      PROVE  y.result[s] \in Outcomes
  BY <1>1, <1>2, <1>4 DEF Execution, x, y
<1>5. ASSUME NEW i \in Students, NEW o \in Outcomes, y = Returned(x, i, o)
      PROVE  y.result[s] \in Outcomes
  BY <1>1, <1>2, <1>5 DEF Execution, Returned, x, y
<1>6. ASSUME NEW i \in Students, x.stage[i] = "item", y = [x EXCEPT !.stage[i] = "count"]
      PROVE  y.result[s] \in Outcomes
  BY <1>1, <1>2, <1>6 DEF Execution, x, y
<1>7. y # Idle /\ (\A j \in Jobs : y # Called(j)) /\ y # Begun(x)
  <2>1. Idle.stage[s] = "out" /\ \A j \in Jobs : Called(j).stage[s] = "out"
    BY DEF Idle, Called
  <2>2. Begun(x).stage[s] \in {"left", "out"}
    BY <1>1 DEF Begun, Execution, x
  <2> QED BY <2>1, <2>2 DEF y
<1>8. ASSUME y = x \/ \E pc \in {"mark", "derive", "finish", "catch", "ack", "reject"} :
                            y = [x EXCEPT !.pc = pc]
      PROVE  y.result[s] \in Outcomes
  BY <1>1, <1>2, <1>8 DEF Execution, x, y
<1> QED BY <1>1, <1>4, <1>5, <1>6, <1>7, <1>8 DEF ExecStep, x, y

(* Typing is an invariant for every number of jobs, students, workers and   *)
(* local executions and every environment.                   *)
THEOREM Typing == Spec => []TypeOK
<1>1. Init => TypeOK /\ OutcomeKnown
  BY IdleTyped, SyncJobsAssumption
     DEF Init, TypeOK, OutcomeKnown, JobRow, ItemRow, Message, NoRow, NoItem, Idle, Environment
<1>2. TypeOK /\ OutcomeKnown /\ [Next]_vars => TypeOK' /\ OutcomeKnown'
  BY NextTyped, NextKnown
<1> QED BY <1>1, <1>2, PTL DEF Spec

-----------------------------------------------------------------------------
(* Exclusive execution.  At any time a job is in at most one place: in the  *)
(* start() that has not dispatched it, in the broker, or in one execution,  *)
(* which is then the worker its message is active at, or a local one.       *)

Unheld(j) == \A e \in Slots : exec[e].job # j

OnePlace(j) ==
    /\ job[j].status = "NONE" => j \notin creating /\ msg[j].at = "none" /\ Unheld(j)
    /\ j \in creating => msg[j].at = "none" /\ Unheld(j)
    /\ msg[j].at = "waiting" => Unheld(j)
    /\ \A w \in Workers : exec[w].job = j => msg[j].at = w
    /\ \A l \in Locals : exec[l].job = j => msg[j].at = "none"
    /\ \A l1, l2 \in Locals : exec[l1].job = j /\ exec[l2].job = j => l1 = l2

IdleIsFree == \A e \in Slots : exec[e].pc = "idle" => exec[e].job = None

Delivery == IdleIsFree /\ \A j \in Jobs : OnePlace(j)

LEMMA NextIdle ==
  ASSUME TypeOK, IdleIsFree, [Next]_vars
  PROVE  IdleIsFree'
<1> SUFFICES ASSUME NEW e \in Slots, exec'[e].pc = "idle"
             PROVE  exec'[e].job = None
  BY DEF IdleIsFree
<1>1. exec[e] \in Execution /\ ExecStep(exec[e], exec'[e])
  BY EveryExecStep DEF TypeOK
<1>2. exec[e].pc = "idle" => exec[e].job = None
  BY DEF IdleIsFree
<1>3. Idle.job = None /\ \A j \in Jobs : Called(j).pc = "load"
  BY DEF Idle, Called
<1>4. Begun(exec[e]).pc = "pool"
  BY <1>1 DEF Begun, Execution
<1> QED BY <1>1, <1>2, <1>3, <1>4 DEF ExecStep, Returned, Execution

(* A step that keeps the executions' jobs, the messages and the jobs being  *)
(* created, and unmakes no row, keeps every job in one place.               *)
LEMMA Kept ==
  ASSUME NEW j \in Jobs, OnePlace(j), UNCHANGED <<creating, msg>>,
         \A e \in Slots : exec'[e].job = exec[e].job,
         job'[j].status = "NONE" => job[j].status = "NONE"
  PROVE  OnePlace(j)'
  BY DEF OnePlace, Unheld, Slots

LEMMA NextOnePlace ==
  ASSUME TypeOK, Delivery, OneDelivery, [Next]_vars, NEW j \in Jobs
  PROVE  OnePlace(j)'
<1> USE SyncJobsAssumption
<1> OnePlace(j)
  BY DEF Delivery
<1>1. ASSUME NEW k \in Jobs, NEW ids \in SUBSET Students, Start(k, ids) PROVE OnePlace(j)'
  <2>1. CASE j = k
    BY <1>1, <2>1 DEF Start, OnePlace, Unheld, TypeOK, NoRow, Slots
  <2>2. CASE j # k
    BY <1>1, <2>2 DEF Start, OnePlace, Unheld, TypeOK, Slots
  <2> QED BY <2>1, <2>2
<1>2. ASSUME NEW k \in Jobs, Dispatch(k) PROVE OnePlace(j)'
  <2>1. CASE Enqueue(k) /\ UNCHANGED exec
    BY <1>2, <2>1 DEF Dispatch, Enqueue, OnePlace, Unheld, TypeOK, Slots, Message
  <2>2. ASSUME NEW e \in Locals, RunInline(e, k), UNCHANGED msg PROVE OnePlace(j)'
    <3>1. exec[e].job = None /\ exec'[e].job = k
      BY <2>2 DEF RunInline, Called, Idle, TypeOK, Slots, Delivery, IdleIsFree
    <3>2. \A x \in Slots \ {e} : exec'[x] = exec[x]
      BY <2>2 DEF RunInline, TypeOK, Slots
    <3> QED BY <1>2, <2>2, <3>1, <3>2 DEF Dispatch, OnePlace, Unheld, Slots
  <2> QED BY <1>2, <2>1, <2>2 DEF Dispatch, OneDelivery
<1>3. ASSUME NEW k \in Jobs, Stalled(k) PROVE OnePlace(j)'
  <2>1. CASE j # k
    BY <1>3, <2>1 DEF Stalled, OnePlace, Unheld, TypeOK, Slots
  <2>2. CASE j = k
    <3>1. Unheld(k)
      BY <1>3, <2>2 DEF Stalled, OneDelivery, OnePlace, Unheld, Slots
    <3>2. msg'[k].at \in {"waiting", "dead"}
      BY <1>3 DEF Stalled, Redelivered, TypeOK, Message
    <3> QED BY <1>3, <2>2, <3>1, <3>2 DEF Stalled, OnePlace, Unheld, Slots
  <2> QED BY <2>1, <2>2
<1>4. ASSUME NEW w \in Workers, NEW k \in Jobs, Deliver(w, k) PROVE OnePlace(j)'
  <2>1. exec[w].job = None /\ exec'[w].job = k
    BY <1>4 DEF Deliver, Called, Idle, TypeOK, Slots, Delivery, IdleIsFree
  <2>2. \A x \in Slots \ {w} : exec'[x] = exec[x]
    BY <1>4 DEF Deliver, TypeOK, Slots
  <2>3. msg'[k].at = w /\ (j # k => msg'[j] = msg[j])
    BY <1>4 DEF Deliver, TypeOK, Message
  <2>4. OnePlace(k)
    BY DEF Delivery
  <2> QED BY <1>4, <2>1, <2>2, <2>3, <2>4 DEF Deliver, OnePlace, Unheld, Slots
<1>5. ASSUME NEW e \in Slots, Ack(e) \/ Reject(e) PROVE OnePlace(j)'
  <2>1. exec'[e].job = None /\ \A x \in Slots \ {e} : exec'[x] = exec[x]
    BY <1>5 DEF Ack, Reject, Idle, TypeOK
  <2>2. CASE exec[e].job = j /\ e \in Workers
    <3>1. msg[j].at = e /\ Unheld(j)'
      BY <2>1, <2>2 DEF OnePlace, Unheld, Slots
    <3>2. Retried(msg[j]).at \in {"waiting", "dead"}
      BY DEF Retried, TypeOK, Message
    <3>3. msg'[j].at \in {"none", "waiting", "dead"}
      <4>1. CASE Ack(e)
        BY <4>1, <2>2, <3>1 DEF Ack, Holds, TypeOK, Message
      <4>2. CASE Reject(e)
        <5>1. msg'[j] = Retried(msg[j])
          BY <4>2, <2>2, <3>1 DEF Reject, Holds, TypeOK
        <5> QED BY <5>1, <3>2
      <4> QED BY <1>5, <4>1, <4>2
    <3> QED BY <1>5, <2>2, <3>1, <3>3 DEF Ack, Reject, OnePlace, Unheld, Slots
  <2>3. CASE ~(exec[e].job = j /\ e \in Workers)
    <3>1. msg'[j] = msg[j]
      BY <1>5, <2>3 DEF Ack, Reject, Holds, TypeOK
    <3> QED BY <1>5, <2>1, <3>1 DEF Ack, Reject, OnePlace, Unheld, Slots
  <2> QED BY <2>2, <2>3
<1>6. ASSUME NEW e \in Slots, CrashExecution(e) PROVE OnePlace(j)'
  <2>1. exec'[e].job = None /\ \A x \in Slots \ {e} : exec'[x] = exec[x]
    BY <1>6 DEF CrashExecution, Idle, TypeOK
  <2> QED BY <1>6, <2>1 DEF CrashExecution, OnePlace, Unheld, Slots
<1>7. ASSUME NEW k \in Jobs, CrashStart(k) PROVE OnePlace(j)'
  BY <1>7 DEF CrashStart, OnePlace, Unheld, Slots
<1>8. ASSUME NEW k \in Jobs, Cancel(k) PROVE OnePlace(j)'
  <2>1. job'[j].status = "NONE" => job[j].status = "NONE"
    BY <1>8 DEF Cancel, TypeOK, JobRow
  <2> QED BY <1>8, <2>1, Kept DEF Cancel
<1>9. ASSUME NEW e \in Slots,
             \/ Load(e) \/ MarkRunning(e) \/ PoolDrained(e) \/ Derive(e) \/ Finish(e) \/ Catch(e)
             \/ \E s \in Students : \/ TakeStudent(e, s) \/ SyncReturns(e, s)
                                    \/ RecordItem(e, s) \/ CountStudent(e, s)
      PROVE  OnePlace(j)'
  <2>1. UNCHANGED <<creating, msg>>
    BY <1>9 DEF Load, MarkRunning, PoolDrained, Derive, Finish, Catch,
                TakeStudent, SyncReturns, RecordItem, CountStudent
  <2>2. ASSUME NEW x \in Slots PROVE exec'[x].job = exec[x].job
    <3> DEFINE y == exec[e]
    <3>1. y \in Execution
      BY DEF TypeOK
    <3>2. ASSUME NEW pc, Goto(e, pc) PROVE exec'[x].job = exec[x].job
      BY <3>2 DEF Goto, TypeOK, Execution
    <3>3. ASSUME NEW s, NEW st, Move(e, s, st) PROVE exec'[x].job = exec[x].job
      BY <3>3 DEF Move, TypeOK, Execution
    <3>4. Begun(y).job = y.job /\ \A s, o : Returned(y, s, o).job = y.job
      BY <3>1 DEF Begun, Returned, Execution
    <3>5. ASSUME NEW z, z.job = y.job, exec' = [exec EXCEPT ![e] = z]
          PROVE  exec'[x].job = exec[x].job
      BY <3>5 DEF TypeOK
    <3>6. CASE MarkRunning(e)
      BY <3>2, <3>4, <3>5, <3>6 DEF MarkRunning
    <3>7. ASSUME NEW s \in Students, SyncReturns(e, s) PROVE exec'[x].job = exec[x].job
      BY <3>3, <3>4, <3>5, <3>7 DEF SyncReturns
    <3> QED
      BY <1>9, <3>2, <3>3, <3>6, <3>7
         DEF Load, PoolDrained, Derive, Finish, Catch, TakeStudent, RecordItem, CountStudent
  <2>3. job'[j].status = "NONE" => job[j].status = "NONE"
    <3>1. ASSUME NEW k, NEW st \in Terminal \cup {"RUNNING"}, job' = [job EXCEPT ![k].status = st]
          PROVE  job'[j].status = "NONE" => job[j].status = "NONE"
      BY <3>1 DEF TypeOK, JobRow, Terminal, Settled
    <3>2. ASSUME NEW k, NEW o, job' = [job EXCEPT ![k] = Counted(@, o)]
          PROVE  job'[j].status = job[j].status
      BY <3>2 DEF TypeOK, JobRow, Counted
    <3>3. CASE UNCHANGED job
      BY <3>3
    <3> QED
      BY <1>9, <3>1, <3>2, <3>3
         DEF Load, MarkRunning, PoolDrained, Derive, Finish, Catch, FinalStatus, Terminal, Settled,
             TakeStudent, SyncReturns, RecordItem, CountStudent
  <2> QED BY <2>1, <2>2, <2>3, Kept
<1>10. CASE UNCHANGED vars
  BY <1>10, Kept DEF vars
<1> QED
  BY <1>1, <1>2, <1>3, <1>4, <1>5, <1>6, <1>7, <1>8, <1>9, <1>10
     DEF Next, QueueStep, ExecutionStep

(* A job is executed by at most one process at a time, whatever crashes,    *)
(* cancels, failing database calls and failing enqueues do, as long as the  *)
(* broker neither redelivers a message its worker still works on nor loses  *)
(* the reply to an enqueue it accepted.                                     *)
THEOREM Exclusive == Spec => []ExclusiveExecution
<1> DEFINE IInv == OneDelivery => Delivery
<1>1. Init => IInv
  BY SyncJobsAssumption
     DEF Init, Delivery, IdleIsFree, OnePlace, Unheld, Idle, NoRow, Slots
<1>2. TypeOK /\ IInv /\ [Next]_vars => IInv'
  <2>1. [Next]_vars => (OneDelivery' <=> OneDelivery)
    BY DEF Next, vars, OneDelivery
  <2>2. TypeOK /\ OneDelivery /\ Delivery /\ [Next]_vars => Delivery'
    BY NextIdle, NextOnePlace DEF Delivery
  <2> QED BY <2>1, <2>2
<1>3. IInv => ExclusiveExecution
  BY SyncJobsAssumption DEF Delivery, OnePlace, ExclusiveExecution, Running, Slots
<1> HIDE DEF IInv
<1> QED BY <1>1, <1>2, <1>3, Typing, PTL DEF Spec

-----------------------------------------------------------------------------
(* A completed job is not run again.  The execution that is past the status *)
(* check is alone (ExclusiveExecution), so nobody can complete its job      *)
(* between its check and its own last write.                                *)

ActiveNotCompleted ==
    \A e \in Slots : exec[e].pc \in Active => job[exec[e].job].status # "COMPLETED"
BusyHasJob == \A e \in Slots : exec[e].pc # "idle" => exec[e].job \in Jobs

LEMMA NextBusy ==
  ASSUME TypeOK, BusyHasJob, [Next]_vars
  PROVE  BusyHasJob'
<1> SUFFICES ASSUME NEW e \in Slots, exec'[e].pc # "idle"
             PROVE  exec'[e].job \in Jobs
  BY DEF BusyHasJob
<1>1. exec[e] \in Execution /\ ExecStep(exec[e], exec'[e])
  BY EveryExecStep DEF TypeOK
<1>2. exec[e].pc # "idle" => exec[e].job \in Jobs
  BY DEF BusyHasJob
<1> QED BY <1>1, <1>2, ExecGoesOn DEF Active

(* What a step may do to the status of one job.                             *)
LEMMA StatusStep ==
  ASSUME TypeOK, [Next]_vars, NEW j \in Jobs
  PROVE  \/ job'[j].status = job[j].status
         \/ job[j].status = "NONE" /\ job'[j].status = "QUEUED"
         \/ job'[j].status = "CANCELLED"
         \/ \E e \in Slots : /\ exec[e].job = j /\ exec[e].pc \in Active
                             /\ job'[j].status = "COMPLETED" => exec'[e].pc = "ack"
                             /\ job'[j].status \in {"RUNNING", "FAILED", "COMPLETED",
                                                    "COMPLETED_WITH_ERRORS"}
<1> DEFINE P == \/ job'[j].status = job[j].status
                \/ job[j].status = "NONE" /\ job'[j].status = "QUEUED"
                \/ job'[j].status = "CANCELLED"
                \/ \E e \in Slots : /\ exec[e].job = j /\ exec[e].pc \in Active
                                    /\ job'[j].status = "COMPLETED" => exec'[e].pc = "ack"
                                    /\ job'[j].status \in {"RUNNING", "FAILED", "COMPLETED",
                                                           "COMPLETED_WITH_ERRORS"}
<1> SUFFICES P
  OBVIOUS
<1>1. ASSUME NEW k \in Jobs, NEW ids \in SUBSET Students, Start(k, ids) PROVE P
  BY <1>1 DEF Start, NoRow, TypeOK
<1>2. CASE QueueStep
  BY <1>2 DEF QueueStep, Dispatch, Stalled, Deliver
<1>3. ASSUME NEW k \in Jobs, Cancel(k) \/ CrashStart(k) PROVE P
  BY <1>3 DEF Cancel, CrashStart, TypeOK, JobRow
<1>4. ASSUME NEW e \in Slots, CrashExecution(e) PROVE P
  BY <1>4 DEF CrashExecution
<1>5. ASSUME NEW e \in Slots, ExecutionStep(e) PROVE P
  <2>1. ASSUME NEW st, job' = [job EXCEPT ![exec[e].job].status = st]
        PROVE  job'[j].status = job[j].status \/ (exec[e].job = j /\ job'[j].status = st)
    <3>1. CASE exec[e].job = j
      <4>1. job[j] \in JobRow /\ job'[j] = [job[j] EXCEPT !.status = st]
        BY <2>1, <3>1 DEF TypeOK
      <4> QED BY <3>1, <4>1 DEF JobRow
    <3>2. CASE exec[e].job # j
      BY <2>1, <3>2 DEF TypeOK
    <3> QED BY <3>1, <3>2
  <2>2. CASE MarkRunning(e)
    BY <2>1, <2>2 DEF MarkRunning, Active
  <2>3. CASE Finish(e)
    <3>1. CASE UNCHANGED job
      BY <3>1
    <3>2. CASE job' = [job EXCEPT ![exec[e].job].status = FinalStatus(e)] /\ Goto(e, "ack")
      <4>1. exec'[e].pc = "ack"
        BY <3>2 DEF Goto, TypeOK, Execution
      <4>2. FinalStatus(e) \in {"COMPLETED", "COMPLETED_WITH_ERRORS"}
        BY DEF FinalStatus
      <4> HIDE DEF P
      <4>3. \/ job'[j].status = job[j].status
            \/ exec[e].job = j /\ job'[j].status = FinalStatus(e)
        BY <2>1, <3>2
      <4>4. exec[e].pc \in Active
        BY <2>3 DEF Finish, Active
      <4> QED BY <4>1, <4>2, <4>3, <4>4 DEF P
    <3> QED BY <2>3, <3>1, <3>2 DEF Finish
  <2>4. CASE Catch(e)
    BY <2>1, <2>4 DEF Catch, Active
  <2>5. ASSUME NEW s \in Students, CountStudent(e, s) PROVE P
    <3>1. ASSUME NEW o, job' = [job EXCEPT ![exec[e].job] = Counted(@, o)]
          PROVE  job'[j].status = job[j].status
      BY <3>1 DEF TypeOK, JobRow, Counted
    <3> QED BY <2>5, <3>1 DEF CountStudent
  <2> QED
    BY <1>5, <2>2, <2>3, <2>4, <2>5
       DEF ExecutionStep, Load, PoolDrained, Derive, Ack, Reject,
           TakeStudent, SyncReturns, RecordItem
<1>6. CASE UNCHANGED vars
  BY <1>6 DEF vars
<1> QED BY <1>1, <1>2, <1>3, <1>4, <1>5, <1>6 DEF Next

(* Only an execution that read another status than COMPLETED enters "mark". *)
LEMMA LoadChecks ==
  ASSUME TypeOK, [Next]_vars, NEW e \in Slots, exec[e].pc = "load", exec'[e].pc = "mark"
  PROVE  job'[exec[e].job].status # "COMPLETED"
<1>1. CASE Load(e)
  BY <1>1 DEF Load, Goto, TypeOK, Execution
<1>2. CASE exec' = exec
  BY <1>2
<1>3. ASSUME NEW x \in Slots, NEW y, exec' = [exec EXCEPT ![x] = y], x # e \/ y.pc # "mark"
      PROVE  FALSE
  BY <1>3 DEF TypeOK
<1>4. \A j \in Jobs : Called(j).pc # "mark"
  BY DEF Called, Idle
<1>5. Idle.pc # "mark"
  BY DEF Idle
<1>6. ASSUME NEW x \in Slots, NEW pc \in {"derive", "finish", "catch", "ack", "reject"}, Goto(x, pc)
      PROVE  FALSE
  BY <1>6 DEF Goto, TypeOK, Execution
<1>7. ASSUME NEW x \in Slots, NEW s, NEW st, Move(x, s, st) PROVE FALSE
  BY <1>7 DEF Move, TypeOK, Execution
<1>8. \A x \in Slots : Begun(exec[x]).pc = "pool"
  BY DEF Begun, TypeOK, Execution
<1>9. \A x \in Slots : \A s, o : Returned(exec[x], s, o).pc = exec[x].pc
  BY DEF Returned, TypeOK, Execution
<1>10. ASSUME NEW x \in Slots, ExecutionStep(x), ~Load(x) PROVE FALSE
  <2>1. ~MarkRunning(x)
    BY <1>3, <1>6, <1>8 DEF MarkRunning
  <2>2. ~(PoolDrained(x) \/ Derive(x) \/ Finish(x) \/ Catch(x))
    BY <1>6 DEF PoolDrained, Derive, Finish, Catch
  <2>3. ~(Ack(x) \/ Reject(x))
    BY <1>3, <1>5 DEF Ack, Reject
  <2>4. \A s \in Students : ~(TakeStudent(x, s) \/ RecordItem(x, s) \/ CountStudent(x, s))
    BY <1>7 DEF TakeStudent, RecordItem, CountStudent
  <2>5. ASSUME NEW s \in Students, SyncReturns(x, s) PROVE FALSE
    <3>1. ASSUME NEW o \in Outcomes, exec' = [exec EXCEPT ![x] = Returned(@, s, o)] PROVE FALSE
      BY <1>3, <1>9, <3>1
    <3> QED BY <1>7, <2>5, <3>1 DEF SyncReturns
  <2> QED BY <1>10, <2>1, <2>2, <2>3, <2>4, <2>5 DEF ExecutionStep
<1>11. ASSUME NEW x \in Slots, Load(x), x # e PROVE FALSE
  BY <1>11 DEF Load, Goto, TypeOK
<1>12. ~QueueStep
  BY <1>2, <1>3, <1>4 DEF QueueStep, Dispatch, RunInline, Stalled, Deliver, Slots
<1>13. \A x \in Slots : ~CrashExecution(x)
  BY <1>3, <1>5 DEF CrashExecution
<1> QED
  BY <1>1, <1>2, <1>10, <1>11, <1>12, <1>13 DEF Next, Start, Cancel, CrashStart, vars

LEMMA NextActive ==
  ASSUME TypeOK, BusyHasJob, OneDelivery, ExclusiveExecution, ActiveNotCompleted,
         [Next]_vars
  PROVE  ActiveNotCompleted'
<1> SUFFICES ASSUME NEW e \in Slots, exec'[e].pc \in Active
             PROVE  job'[exec'[e].job].status # "COMPLETED"
  BY DEF ActiveNotCompleted
<1>1. exec[e] \in Execution /\ ExecStep(exec[e], exec'[e])
  BY EveryExecStep DEF TypeOK
<1>2. exec'[e].job = exec[e].job
  BY <1>1, ExecGoesOn DEF Active
<1>3. CASE exec[e].pc \in Active
  <2>1. exec[e].job \in Jobs /\ job[exec[e].job].status # "COMPLETED"
    BY <1>3 DEF BusyHasJob, ActiveNotCompleted, Active
  <2>2. ASSUME NEW x \in Slots, exec[x].job = exec[e].job, exec[x].pc \in Active
        PROVE  x = e
    BY <1>3, <2>1, <2>2 DEF ExclusiveExecution, Running, Active
  <2>3. exec'[e].pc # "ack"
    BY DEF Active
  <2> QED BY <1>2, <2>1, <2>2, <2>3, StatusStep
<1>4. CASE exec[e].pc \notin Active
  <2>1. exec[e].pc = "load" /\ exec'[e].pc = "mark"
    BY <1>1, <1>4, ExecGoesOn DEF Active
  <2> QED BY <1>2, <2>1, LoadChecks
<1> QED BY <1>3, <1>4

(* A job that ended COMPLETED is never run again, under the same condition  *)
(* on the broker as Exclusive.                                              *)
THEOREM NotRerun == Spec => CompletedNotRerun
<1> DEFINE IInv == BusyHasJob /\ (OneDelivery => ActiveNotCompleted)
<1>1. Init => IInv
  BY DEF Init, BusyHasJob, ActiveNotCompleted, Active, Idle
<1>2. TypeOK /\ IInv /\ ExclusiveExecution /\ [Next]_vars => IInv'
  <2>1. [Next]_vars => (OneDelivery' <=> OneDelivery)
    BY DEF Next, vars, OneDelivery
  <2> QED BY <2>1, NextBusy, NextActive
<1>3. TypeOK /\ IInv /\ [Next]_vars
      => [\A j \in Jobs : OneDelivery /\ job[j].status = "COMPLETED"
                           => job'[j].status \in {"COMPLETED", "CANCELLED"}]_vars
  BY StatusStep DEF ActiveNotCompleted
<1> HIDE DEF IInv
<1> QED BY <1>1, <1>2, <1>3, Typing, Exclusive, PTL DEF Spec, CompletedNotRerun

-----------------------------------------------------------------------------
(* What an execution knows agrees with the rows of its job.  The stages of  *)
(* the pool are left only once every student is settled, a run is marked    *)
(* only where the row allowed it, and while it works nobody else writes the *)
(* row but cancel().                                                        *)
WorkingPc == {"pool", "derive", "finish", "catch"}
OpenStage == {"left", "fetch", "item", "count"}

SlotOK(x, st, it) ==
    /\ \A s \in Students : x.stage[s] \in OpenStage => x.pc = "pool"
    /\ \A s \in Students : x.stage[s] \in {"out", "left", "fetch"} => x.result[s] = "none"
    /\ x.pc \in {"load", "mark"} => \A s \in Students : x.stage[s] = "out"
    /\ x.pc = "mark" => st \notin {"NONE", "RUNNING", "COMPLETED"}
    /\ x.pc \in WorkingPc =>
          /\ st \in {"RUNNING", "CANCELLED"}
          /\ \A s \in Students : x.stage[s] = "out" <=> it[s].status = "ABSENT"

(* While the database answers, what the pool has settled is in the items.   *)
Answered(x, it) ==
    x.pc \in WorkingPc =>
        \A s \in Students : x.stage[s] \in {"count", "done"} =>
            it[s].status = x.result[s] /\ x.result[s] \in Outcomes
Shown(st, it) ==
    st \in {"COMPLETED", "COMPLETED_WITH_ERRORS"} =>
        /\ \A s \in Students : it[s].status # "ABSENT" => it[s].status \in Outcomes
        /\ st = "COMPLETED" <=> \A s \in Students : it[s].status # "FAILURE"

Written(st, it) == st = "NONE" <=> \A s \in Students : it[s].status = "ABSENT"

Reliable == "db" \notin env.faults
Sound ==
    OneDelivery =>
        /\ \A e \in Slots : exec[e].pc # "idle" =>
              /\ SlotOK(exec[e], job[exec[e].job].status, item[exec[e].job])
              /\ Reliable => Answered(exec[e], item[exec[e].job])
        /\ \A j \in Jobs : /\ Written(job[j].status, item[j])
                           /\ Reliable => Shown(job[j].status, item[j])

(* A job is in the hands of one slot at most.                               *)
LEMMA OnlySlot ==
  ASSUME Delivery, NEW j \in Jobs, NEW d \in Slots, NEW e \in Slots, exec[d].job = j, exec[e].job = j
  PROVE  d = e
<1>1. OnePlace(j)
  BY DEF Delivery
<1> QED BY <1>1, SyncJobsAssumption DEF OnePlace, Slots

Moves(e, y) == exec' = [exec EXCEPT ![e] = y]

(* One slot moves, writing at most the rows of its own job.                 *)
LEMMA SlotMoves ==
  ASSUME TypeOK, Delivery, BusyHasJob, OneDelivery, Sound, UNCHANGED env,
         NEW e \in Slots, NEW y, Moves(e, y),
         NEW j \in Jobs, exec[e].job = j, y.pc # "idle" => y.job = j,
         \A k \in Jobs \ {j} : job'[k] = job[k] /\ item'[k] = item[k],
         y.pc # "idle" => /\ SlotOK(y, job'[j].status, item'[j])
                          /\ Reliable => Answered(y, item'[j]),
         Written(job'[j].status, item'[j]), Reliable => Shown(job'[j].status, item'[j])
  PROVE  Sound'
<1>1. exec'[e] = y /\ \A d \in Slots \ {e} : exec'[d] = exec[d]
  BY DEF TypeOK, Moves
<1>2. Reliable' <=> Reliable
  BY DEF Reliable
<1>3. ASSUME NEW d \in Slots, exec'[d].pc # "idle"
      PROVE  /\ SlotOK(exec'[d], job'[exec'[d].job].status, item'[exec'[d].job])
             /\ Reliable => Answered(exec'[d], item'[exec'[d].job])
  <2>1. CASE d = e
    BY <1>1, <1>3, <2>1
  <2>2. CASE d # e
    <3>1. exec'[d] = exec[d] /\ exec[d].job \in Jobs
      BY <1>1, <1>3, <2>2 DEF BusyHasJob
    <3>2. exec[d].job # j
      BY <2>2, OnlySlot
    <3>3. job'[exec[d].job] = job[exec[d].job] /\ item'[exec[d].job] = item[exec[d].job]
      BY <3>1, <3>2
    <3> QED BY <1>3, <3>1, <3>3 DEF Sound
  <2> QED BY <2>1, <2>2
<1>4. ASSUME NEW k \in Jobs
      PROVE  Written(job'[k].status, item'[k]) /\ (Reliable => Shown(job'[k].status, item'[k]))
  <2>1. CASE k = j
    BY <2>1
  <2>2. CASE k # j
    BY <2>2 DEF Sound
  <2> QED BY <2>1, <2>2
<1> QED BY <1>2, <1>3, <1>4 DEF Sound

(* What changes when an execution goes to a step, or a student to a stage.  *)
LEMMA GotoMoves ==
  ASSUME TypeOK, NEW e \in Slots, NEW pc, Goto(e, pc)
  PROVE  \E y : /\ Moves(e, y)
                /\ y.pc = pc /\ y.job = exec[e].job /\ y.stage = exec[e].stage /\ y.result = exec[e].result
<1> DEFINE y == [exec[e] EXCEPT !.pc = pc]
<1>1. exec[e] \in Execution
  BY DEF TypeOK
<1>2. Moves(e, y)
  BY DEF Goto, Moves
<1>3. y.pc = pc /\ y.job = exec[e].job /\ y.stage = exec[e].stage /\ y.result = exec[e].result
  BY <1>1 DEF Execution
<1> HIDE DEF y
<1> QED BY <1>2, <1>3

LEMMA StageMoves ==
  ASSUME TypeOK, NEW e \in Slots, NEW s \in Students, NEW st, Move(e, s, st)
  PROVE  \E y : /\ Moves(e, y)
                /\ y.pc = exec[e].pc /\ y.job = exec[e].job /\ y.result = exec[e].result
                /\ y.stage[s] = st /\ \A i \in Students \ {s} : y.stage[i] = exec[e].stage[i]
<1> DEFINE y == [exec[e] EXCEPT !.stage[s] = st]
<1>1. exec[e] \in Execution
  BY DEF TypeOK
<1>2. Moves(e, y)
  BY DEF Move, Moves
<1>3. /\ y.pc = exec[e].pc /\ y.job = exec[e].job /\ y.result = exec[e].result
      /\ y.stage[s] = st /\ \A i \in Students \ {s} : y.stage[i] = exec[e].stage[i]
  BY <1>1 DEF Execution
<1> HIDE DEF y
<1> QED BY <1>2, <1>3

LEMMA ResultMoves ==
  ASSUME NEW x \in Execution, NEW s \in Students, NEW o, NEW y, y = Returned(x, s, o)
  PROVE  /\ y.pc = x.pc /\ y.job = x.job /\ y.stage[s] = "item" /\ y.result[s] = o
         /\ \A i \in Students \ {s} : y.stage[i] = x.stage[i] /\ y.result[i] = x.result[i]
  BY DEF Execution, Returned

LEMMA BeginMoves ==
  ASSUME TypeOK, NEW e \in Slots, exec' = [exec EXCEPT ![e] = Begun(@)]
  PROVE  \E y : /\ Moves(e, y)
                /\ y.pc = "pool" /\ y.job = exec[e].job /\ y.result = exec[e].result
                /\ \A s \in Students : y.stage[s] = IF s \in Targets(exec[e].job) THEN "left" ELSE "out"
<1> DEFINE y == Begun(exec[e])
<1>1. exec[e] \in Execution
  BY DEF TypeOK
<1>2. Moves(e, y)
  BY DEF Moves
<1>3. /\ y.pc = "pool" /\ y.job = exec[e].job /\ y.result = exec[e].result
      /\ \A s \in Students : y.stage[s] = IF s \in Targets(exec[e].job) THEN "left" ELSE "out"
  BY <1>1 DEF Execution, Begun
<1> HIDE DEF y
<1> QED BY <1>2, <1>3

(* A write of the status column.                                            *)
LEMMA StatusMoves ==
  ASSUME TypeOK, NEW j \in Jobs, NEW st, job' = [job EXCEPT ![j].status = st]
  PROVE  job'[j].status = st /\ \A k \in Jobs \ {j} : job'[k] = job[k]
<1>1. job[j] \in JobRow /\ job' = [job EXCEPT ![j] = [job[j] EXCEPT !.status = st]]
  BY DEF TypeOK
<1> QED BY <1>1 DEF TypeOK, JobRow

-----------------------------------------------------------------------------
(* Sound is kept, one action at a time.                                     *)
IdleIsOut == \A e \in Slots : exec[e].pc = "idle" => \A s \in Students : exec[e].stage[s] = "out"
Steady ==
    /\ TypeOK /\ OutcomeKnown /\ Delivery /\ BusyHasJob /\ IdleIsOut /\ OneDelivery /\ Sound
    /\ UNCHANGED env

LEMMA SoundOf ==
  ASSUME Steady, NEW e \in Slots, exec[e].pc # "idle"
  PROVE  /\ exec[e].job \in Jobs /\ exec[e] \in Execution
         /\ SlotOK(exec[e], job[exec[e].job].status, item[exec[e].job])
         /\ Reliable => Answered(exec[e], item[exec[e].job])
         /\ Written(job[exec[e].job].status, item[exec[e].job])
         /\ Reliable => Shown(job[exec[e].job].status, item[exec[e].job])
  BY DEF Steady, BusyHasJob, Sound, TypeOK

(* The rows stay as they are. *)
LEMMA RowsKept ==
  ASSUME Steady, NEW e \in Slots, exec[e].pc # "idle", NEW y, Moves(e, y),
         UNCHANGED <<job, item>>,
         y.pc # "idle" => /\ y.job = exec[e].job
                          /\ SlotOK(y, job[exec[e].job].status, item[exec[e].job])
                          /\ Reliable => Answered(y, item[exec[e].job])
  PROVE  Sound'
  BY SoundOf, SlotMoves DEF Steady

LEMMA StartSound ==
  ASSUME Steady, NEW j \in Jobs, NEW ids \in SUBSET Students, Start(j, ids)
  PROVE  Sound'
<1>1. /\ job[j].status = "NONE" /\ ids # {} /\ UNCHANGED exec
      /\ job' = [job EXCEPT ![j] = [NoRow EXCEPT !.status = "QUEUED", !.total = Cardinality(ids)]]
      /\ item' = [item EXCEPT ![j] = [s \in Students |-> IF s \in ids
                                         THEN [NoItem EXCEPT !.status = "NEVER_SYNCED"] ELSE NoItem]]
  BY DEF Start
<1>2. \A k \in Jobs \ {j} : job'[k] = job[k] /\ item'[k] = item[k]
  BY <1>1 DEF Steady, TypeOK
<1>3. job'[j].status = "QUEUED" /\ \A s \in ids : item'[j][s].status = "NEVER_SYNCED"
  BY <1>1 DEF Steady, TypeOK, NoRow, NoItem
<1>4. Reliable' <=> Reliable
  BY DEF Steady, Reliable
<1>5. ASSUME NEW e \in Slots, exec[e].pc # "idle" PROVE exec[e].job \in Jobs \ {j}
  BY <1>1, <1>5 DEF Steady, Delivery, OnePlace, Unheld, BusyHasJob
<1>6. Written(job'[j].status, item'[j]) /\ Shown(job'[j].status, item'[j])
  BY <1>1, <1>3 DEF Written, Shown
<1>7. ASSUME NEW e \in Slots, exec[e].pc # "idle"
      PROVE  /\ SlotOK(exec[e], job'[exec[e].job].status, item'[exec[e].job])
             /\ Reliable => Answered(exec[e], item'[exec[e].job])
  <2>1. job'[exec[e].job] = job[exec[e].job] /\ item'[exec[e].job] = item[exec[e].job]
    BY <1>2, <1>5, <1>7
  <2> QED BY <1>7, <2>1, SoundOf
<1>8. ASSUME NEW k \in Jobs
      PROVE  Written(job'[k].status, item'[k]) /\ (Reliable => Shown(job'[k].status, item'[k]))
  BY <1>2, <1>6 DEF Steady, Sound
<1> QED BY <1>1, <1>4, <1>7, <1>8 DEF Sound

LEMMA CancelSound ==
  ASSUME Steady, NEW j \in Jobs, Cancel(j)
  PROVE  Sound'
<1>1. job[j].status # "NONE" /\ job' = [job EXCEPT ![j].status = "CANCELLED"] /\ UNCHANGED <<item, exec>>
  BY DEF Cancel
<1>2. job'[j].status = "CANCELLED" /\ \A k \in Jobs \ {j} : job'[k] = job[k]
  BY <1>1, StatusMoves DEF Steady
<1>3. Reliable' <=> Reliable
  BY DEF Steady, Reliable
<1>4. ASSUME NEW e \in Slots, exec[e].pc # "idle"
      PROVE  SlotOK(exec[e], job'[exec[e].job].status, item[exec[e].job])
  <2>1. SlotOK(exec[e], job[exec[e].job].status, item[exec[e].job]) /\ exec[e].job \in Jobs
    BY <1>4, SoundOf
  <2>2. job'[exec[e].job].status \in {job[exec[e].job].status, "CANCELLED"}
    BY <1>2, <2>1
  <2> QED BY <2>1, <2>2 DEF SlotOK
<1>5. ASSUME NEW k \in Jobs
      PROVE  Written(job'[k].status, item[k]) /\ (Reliable => Shown(job'[k].status, item[k]))
  <2>1. Written(job[k].status, item[k]) /\ (Reliable => Shown(job[k].status, item[k]))
    BY DEF Steady, Sound
  <2>2. CASE k = j
    BY <1>1, <1>2, <2>1, <2>2 DEF Written, Shown
  <2>3. CASE k # j
    BY <1>2, <2>1, <2>3
  <2> QED BY <2>2, <2>3
<1> QED BY <1>1, <1>3, <1>4, <1>5, SoundOf DEF Sound

(* A slot is called for a job, or is free again.                            *)
LEMMA CalledSound ==
  ASSUME Steady, NEW e \in Slots, NEW j \in Jobs, exec' = [exec EXCEPT ![e] = Called(j)],
         UNCHANGED <<job, item>>
  PROVE  Sound'
<1>1. exec'[e] = Called(j) /\ \A d \in Slots \ {e} : exec'[d] = exec[d]
  BY DEF Steady, TypeOK
<1>2. /\ Called(j).pc = "load" /\ Called(j).job = j
      /\ \A s \in Students : Called(j).stage[s] = "out" /\ Called(j).result[s] = "none"
  BY DEF Called, Idle
<1>3. SlotOK(Called(j), job[j].status, item[j]) /\ Answered(Called(j), item[j])
  BY <1>2 DEF SlotOK, Answered, OpenStage, WorkingPc
<1>4. Reliable' <=> Reliable
  BY DEF Steady, Reliable
<1> QED BY <1>1, <1>2, <1>3, <1>4, SoundOf DEF Sound, Steady

LEMMA FreeSound ==
  ASSUME Steady, NEW e \in Slots, exec[e].pc # "idle", exec' = [exec EXCEPT ![e] = Idle],
         UNCHANGED <<job, item>>
  PROVE  Sound'
<1>1. Idle.pc = "idle"
  BY DEF Idle
<1>2. Moves(e, Idle)
  BY DEF Moves
<1> QED BY <1>1, <1>2, RowsKept

LEMMA LoadSound ==
  ASSUME Steady, NEW e \in Slots, Load(e)
  PROVE  Sound'
<1> DEFINE j == exec[e].job
<1>1. exec[e].pc = "load" /\ UNCHANGED <<job, item>>
  BY DEF Load
<1>2. PICK pc \in {"ack", "mark", "reject"} :
         Goto(e, pc) /\ (pc = "mark" => job[j].status \notin {"NONE", "RUNNING", "COMPLETED"})
  BY DEF Load
<1>3. PICK y : /\ Moves(e, y)
               /\ y.pc = pc /\ y.job = exec[e].job /\ y.stage = exec[e].stage /\ y.result = exec[e].result
  BY <1>2, GotoMoves DEF Steady
<1>4. SlotOK(exec[e], job[j].status, item[j])
  BY <1>1, SoundOf
<1>5. SlotOK(y, job[j].status, item[j]) /\ Answered(y, item[j])
  BY <1>1, <1>2, <1>3, <1>4 DEF SlotOK, Answered, OpenStage, WorkingPc
<1> QED BY <1>1, <1>3, <1>5, RowsKept

LEMMA MarkSound ==
  ASSUME Steady, NEW e \in Slots, MarkRunning(e)
  PROVE  Sound'
<1> DEFINE j == exec[e].job
<1>1. exec[e].pc = "mark" /\ UNCHANGED item
  BY DEF MarkRunning
<1>2. /\ j \in Jobs /\ SlotOK(exec[e], job[j].status, item[j]) /\ Written(job[j].status, item[j])
  BY <1>1, SoundOf
<1>3. CASE job' = [job EXCEPT ![j].status = "RUNNING"] /\ exec' = [exec EXCEPT ![e] = Begun(@)]
  <2>1. job'[j].status = "RUNNING" /\ \A k \in Jobs \ {j} : job'[k] = job[k]
    BY <1>2, <1>3, StatusMoves DEF Steady
  <2>2. PICK y : /\ Moves(e, y)
                 /\ y.pc = "pool" /\ y.job = exec[e].job /\ y.result = exec[e].result
                 /\ \A s \in Students : y.stage[s] = IF s \in Targets(j) THEN "left" ELSE "out"
    BY <1>3, BeginMoves DEF Steady
  <2>3. \A s \in Students : y.result[s] = "none"
    BY <1>1, <1>2, <2>2 DEF SlotOK
  <2>4. SlotOK(y, job'[j].status, item[j]) /\ Answered(y, item[j])
    BY <2>1, <2>2, <2>3 DEF SlotOK, Answered, OpenStage, WorkingPc, Targets
  <2>5. Written(job'[j].status, item[j]) /\ Shown(job'[j].status, item[j])
    BY <1>1, <1>2, <2>1 DEF Written, Shown, SlotOK
  <2>6. \A k \in Jobs \ {j} : job'[k] = job[k] /\ item'[k] = item[k]
    BY <1>1, <2>1
  <2>7. item'[j] = item[j] /\ y.job = j
    BY <1>1, <2>2
  <2>8. PICK k \in Jobs : k = j
    BY <1>2
  <2>9. /\ SlotOK(y, job'[k].status, item'[k]) /\ Answered(y, item'[k])
        /\ Written(job'[k].status, item'[k]) /\ Shown(job'[k].status, item'[k])
        /\ exec[e].job = k /\ y.job = k
        /\ \A i \in Jobs \ {k} : job'[i] = job[i] /\ item'[i] = item[i]
    BY <2>4, <2>5, <2>6, <2>7, <2>8
  <2> QED BY <2>2, <2>9, SlotMoves DEF Steady
<1>4. CASE Goto(e, "reject") /\ UNCHANGED job
  <2>1. PICK y : /\ Moves(e, y) /\ y.pc = "reject"
                 /\ y.job = exec[e].job /\ y.stage = exec[e].stage /\ y.result = exec[e].result
    BY <1>4, GotoMoves DEF Steady
  <2>2. SlotOK(y, job[j].status, item[j]) /\ Answered(y, item[j])
    BY <1>1, <1>2, <2>1 DEF SlotOK, Answered, OpenStage, WorkingPc
  <2> QED BY <1>1, <1>4, <2>1, <2>2, RowsKept
<1> QED BY <1>3, <1>4 DEF MarkRunning

LEMMA TakeSound ==
  ASSUME Steady, NEW e \in Slots, NEW s \in Students, TakeStudent(e, s)
  PROVE  Sound'
<1> DEFINE j == exec[e].job
<1>1. exec[e].pc = "pool" /\ exec[e].stage[s] = "left" /\ Move(e, s, "fetch") /\ UNCHANGED <<job, item>>
  BY DEF TakeStudent
<1>2. PICK y : /\ Moves(e, y)
               /\ y.pc = exec[e].pc /\ y.job = exec[e].job /\ y.result = exec[e].result
               /\ y.stage[s] = "fetch" /\ \A i \in Students \ {s} : y.stage[i] = exec[e].stage[i]
  BY <1>1, StageMoves DEF Steady
<1>3. SlotOK(exec[e], job[j].status, item[j]) /\ (Reliable => Answered(exec[e], item[j]))
  BY <1>1, SoundOf
<1>4. SlotOK(y, job[j].status, item[j])
  BY <1>1, <1>2, <1>3 DEF SlotOK, OpenStage, WorkingPc
<1>5. Reliable => Answered(y, item[j])
  BY <1>1, <1>2, <1>3 DEF Answered
<1> QED BY <1>1, <1>2, <1>4, <1>5, RowsKept

LEMMA ReturnSound ==
  ASSUME Steady, NEW e \in Slots, NEW s \in Students, SyncReturns(e, s)
  PROVE  Sound'
<1> DEFINE j == exec[e].job
<1>1. exec[e].stage[s] = "fetch" /\ UNCHANGED <<job, item>>
  BY DEF SyncReturns
<1>2. exec[e].pc # "idle"
  <2>1. exec[e].pc = "idle" => exec[e].stage[s] = "out"
    BY DEF Steady, IdleIsOut
  <2> QED BY <1>1, <2>1
<1>3. SlotOK(exec[e], job[j].status, item[j]) /\ (Reliable => Answered(exec[e], item[j])) /\ exec[e].pc = "pool"
  BY <1>1, <1>2, SoundOf DEF SlotOK, OpenStage
<1>4. ASSUME NEW o \in Outcomes, exec' = [exec EXCEPT ![e] = Returned(@, s, o)] PROVE Sound'
  <2>1. PICK y : /\ Moves(e, y)
                 /\ y.pc = exec[e].pc /\ y.job = exec[e].job /\ y.stage[s] = "item" /\ y.result[s] = o
                 /\ \A i \in Students \ {s} : y.stage[i] = exec[e].stage[i] /\ y.result[i] = exec[e].result[i]
    <3>1. PICK y : y = Returned(exec[e], s, o)
      OBVIOUS
    <3>2. exec[e] \in Execution /\ Moves(e, y)
      BY <1>4, <3>1 DEF Steady, TypeOK, Moves
    <3>3. /\ y.pc = exec[e].pc /\ y.job = exec[e].job /\ y.stage[s] = "item" /\ y.result[s] = o
          /\ \A i \in Students \ {s} : y.stage[i] = exec[e].stage[i] /\ y.result[i] = exec[e].result[i]
      BY <3>1, <3>2, ResultMoves
    <3> QED BY <3>2, <3>3
  <2>2. SlotOK(y, job[j].status, item[j])
    BY <1>1, <1>3, <2>1 DEF SlotOK, OpenStage, WorkingPc
  <2>3. Reliable => Answered(y, item[j])
    BY <1>1, <1>3, <2>1 DEF Answered
  <2> QED BY <1>1, <1>2, <2>1, <2>2, <2>3, RowsKept
<1>5. CASE ~ Reliable /\ Move(e, s, "done")
  <2>1. PICK y : /\ Moves(e, y)
                 /\ y.pc = exec[e].pc /\ y.job = exec[e].job /\ y.result = exec[e].result
                 /\ y.stage[s] = "done" /\ \A i \in Students \ {s} : y.stage[i] = exec[e].stage[i]
    BY <1>5, StageMoves DEF Steady
  <2>2. SlotOK(y, job[j].status, item[j])
    BY <1>1, <1>3, <2>1 DEF SlotOK, OpenStage, WorkingPc
  <2> QED BY <1>1, <1>2, <1>5, <2>1, <2>2, RowsKept
<1> QED BY <1>4, <1>5 DEF SyncReturns, Reliable

LEMMA RecordSound ==
  ASSUME Steady, NEW e \in Slots, NEW s \in Students, RecordItem(e, s)
  PROVE  Sound'
<1>1. exec[e].stage[s] = "item" /\ UNCHANGED job
  BY DEF RecordItem
<1>2. exec[e].pc # "idle"
  <2>1. exec[e].pc = "idle" => exec[e].stage[s] = "out"
    BY DEF Steady, IdleIsOut
  <2> QED BY <1>1, <2>1
<1>3. PICK j \in Jobs : j = exec[e].job
  BY <1>2, SoundOf
<1>4. /\ SlotOK(exec[e], job[j].status, item[j]) /\ (Reliable => Answered(exec[e], item[j])) /\ exec[e].pc = "pool"
      /\ Written(job[j].status, item[j]) /\ exec[e] \in Execution
  BY <1>1, <1>2, <1>3, SoundOf DEF SlotOK, OpenStage
<1>5. exec[e].result[s] \in Outcomes
  BY <1>1 DEF Steady, OutcomeKnown
<1>6. CASE item' = [item EXCEPT ![exec[e].job][s] = Recorded(@, exec[e].result[s])] /\ Move(e, s, "count")
  <2>1. PICK y : /\ Moves(e, y)
                 /\ y.pc = exec[e].pc /\ y.job = exec[e].job /\ y.result = exec[e].result
                 /\ y.stage[s] = "count" /\ \A i \in Students \ {s} : y.stage[i] = exec[e].stage[i]
    BY <1>6, StageMoves DEF Steady
  <2>2. /\ item' = [item EXCEPT ![j] = [item[j] EXCEPT ![s] = Recorded(item[j][s], exec[e].result[s])]]
        /\ item[j] \in [Students -> ItemRow]
    BY <1>3, <1>6 DEF Steady, TypeOK
  <2>3. /\ \A k \in Jobs \ {j} : item'[k] = item[k]
        /\ item'[j] = [item[j] EXCEPT ![s] = Recorded(item[j][s], exec[e].result[s])]
    BY <2>2 DEF Steady, TypeOK
  <2>4. \A i \in Students \ {s} : item'[j][i] = item[j][i]
    BY <2>2, <2>3
  <2>5. item'[j][s].status = exec[e].result[s]
    <3>1. item[j][s] \in ItemRow /\ item'[j][s] = Recorded(item[j][s], exec[e].result[s])
      BY <2>2, <2>3
    <3> QED BY <3>1 DEF ItemRow, Recorded
  <2>6. item[j][s].status # "ABSENT" /\ item'[j][s].status # "ABSENT"
    BY <1>1, <1>4, <1>5, <2>5 DEF SlotOK, WorkingPc, Outcomes
  <2>7. SlotOK(y, job[j].status, item'[j])
    BY <1>1, <1>4, <2>1, <2>4, <2>6 DEF SlotOK, OpenStage, WorkingPc
  <2>8. Reliable => Answered(y, item'[j])
    BY <1>1, <1>4, <1>5, <2>1, <2>4, <2>5 DEF Answered
  <2>9. job[j].status \in {"RUNNING", "CANCELLED"}
    BY <1>4 DEF SlotOK, WorkingPc
  <2>10. Written(job[j].status, item'[j]) /\ Shown(job[j].status, item'[j])
    BY <2>6, <2>9 DEF Written, Shown
  <2>11. /\ SlotOK(y, job'[j].status, item'[j]) /\ (Reliable => Answered(y, item'[j]))
         /\ Written(job'[j].status, item'[j]) /\ Shown(job'[j].status, item'[j])
         /\ \A k \in Jobs \ {j} : job'[k] = job[k] /\ item'[k] = item[k]
         /\ exec[e].job = j /\ y.job = j
    BY <1>1, <1>3, <2>1, <2>3, <2>7, <2>8, <2>10
  <2>12. TypeOK /\ Delivery /\ BusyHasJob /\ OneDelivery /\ Sound /\ UNCHANGED env
    BY DEF Steady
  <2>13. Moves(e, y)
    BY <2>1
  <2> QED BY <2>11, <2>12, <2>13, SlotMoves
<1>7. CASE ~ Reliable /\ Move(e, s, "done") /\ UNCHANGED item
  <2>1. PICK y : /\ Moves(e, y)
                 /\ y.pc = exec[e].pc /\ y.job = exec[e].job /\ y.result = exec[e].result
                 /\ y.stage[s] = "done" /\ \A i \in Students \ {s} : y.stage[i] = exec[e].stage[i]
    BY <1>7, StageMoves DEF Steady
  <2>2. SlotOK(y, job[j].status, item[j])
    BY <1>1, <1>4, <2>1 DEF SlotOK, OpenStage, WorkingPc
  <2> QED BY <1>1, <1>2, <1>3, <1>7, <2>1, <2>2, RowsKept
<1> QED BY <1>6, <1>7 DEF RecordItem, Reliable

LEMMA CountSound ==
  ASSUME Steady, NEW e \in Slots, NEW s \in Students, CountStudent(e, s)
  PROVE  Sound'
<1>1. exec[e].stage[s] = "count" /\ UNCHANGED item /\ Move(e, s, "done")
  BY DEF CountStudent
<1>2. exec[e].pc # "idle"
  <2>1. exec[e].pc = "idle" => exec[e].stage[s] = "out"
    BY DEF Steady, IdleIsOut
  <2> QED BY <1>1, <2>1
<1>3. PICK j \in Jobs : j = exec[e].job
  BY <1>2, SoundOf
<1>4. /\ SlotOK(exec[e], job[j].status, item[j]) /\ (Reliable => Answered(exec[e], item[j])) /\ exec[e].pc = "pool"
      /\ Written(job[j].status, item[j]) /\ (Reliable => Shown(job[j].status, item[j]))
  BY <1>1, <1>2, <1>3, SoundOf DEF SlotOK, OpenStage
<1>5. PICK y : /\ Moves(e, y)
               /\ y.pc = exec[e].pc /\ y.job = exec[e].job /\ y.result = exec[e].result
               /\ y.stage[s] = "done" /\ \A i \in Students \ {s} : y.stage[i] = exec[e].stage[i]
  BY <1>1, StageMoves DEF Steady
<1>6. job'[j].status = job[j].status /\ \A k \in Jobs \ {j} : job'[k] = job[k]
  <2>1. CASE UNCHANGED job
    BY <2>1
  <2>2. CASE job' = [job EXCEPT ![j] = Counted(@, exec[e].result[s])]
    BY <2>2 DEF Steady, TypeOK, JobRow, Counted
  <2> QED BY <1>3, <2>1, <2>2 DEF CountStudent
<1>7. SlotOK(y, job[j].status, item[j])
  BY <1>1, <1>4, <1>5 DEF SlotOK, OpenStage, WorkingPc
<1>8. Reliable => Answered(y, item[j])
  BY <1>1, <1>4, <1>5 DEF Answered
<1> QED BY <1>1, <1>3, <1>4, <1>5, <1>6, <1>7, <1>8, SlotMoves DEF Steady

(* The steps after the pool: nothing is open any more. *)
LEMMA GoOnSound ==
  ASSUME Steady, NEW e \in Slots, exec[e].pc \in WorkingPc,
         NEW pc \in {"derive", "finish", "catch", "ack", "reject"}, Goto(e, pc), UNCHANGED item,
         \A s \in Students : exec[e].stage[s] \notin OpenStage,
         NEW st, IF st = "" THEN UNCHANGED job ELSE job' = [job EXCEPT ![exec[e].job].status = st],
         st # "" => pc = "ack",
         st # "" => Written(st, item[exec[e].job]) /\ (Reliable => Shown(st, item[exec[e].job]))
  PROVE  Sound'
<1>1. PICK j \in Jobs : j = exec[e].job
  BY SoundOf DEF WorkingPc
<1>2. /\ SlotOK(exec[e], job[j].status, item[j]) /\ (Reliable => Answered(exec[e], item[j]))
      /\ Written(job[j].status, item[j]) /\ (Reliable => Shown(job[j].status, item[j]))
  BY <1>1, SoundOf DEF WorkingPc
<1>3. PICK y : /\ Moves(e, y)
               /\ y.pc = pc /\ y.job = exec[e].job /\ y.stage = exec[e].stage /\ y.result = exec[e].result
  <2>1. PICK y : y = [exec[e] EXCEPT !.pc = pc]
    OBVIOUS
  <2>2. Moves(e, y)
    BY <2>1 DEF Goto, Moves
  <2>3. exec[e] \in Execution
    BY DEF Steady, TypeOK
  <2>4. y.pc = pc /\ y.job = exec[e].job /\ y.stage = exec[e].stage /\ y.result = exec[e].result
    BY <2>1, <2>3 DEF Execution
  <2> QED BY <2>2, <2>4
<1>4. CASE st = ""
  <2>1. SlotOK(y, job[j].status, item[j])
    BY ZenonT(40), <1>2, <1>3 DEF SlotOK, WorkingPc
  <2>2. Reliable => Answered(y, item[j])
    BY <1>2, <1>3 DEF Answered
  <2>3. exec[e].pc # "idle"
    BY DEF WorkingPc
  <2> QED BY <1>1, <1>3, <1>4, <2>1, <2>2, <2>3, RowsKept
<1>5. CASE st # ""
  <2>1. job' = [job EXCEPT ![j].status = st] /\ y.pc = "ack"
    BY <1>1, <1>3, <1>5
  <2>2. job'[j].status = st /\ \A k \in Jobs \ {j} : job'[k] = job[k]
    BY <2>1, StatusMoves DEF Steady
  <2>3. SlotOK(y, st, item[j]) /\ Answered(y, item[j])
    BY <1>2, <1>3, <2>1 DEF SlotOK, Answered, WorkingPc
  <2>4. Written(st, item[j]) /\ (Reliable => Shown(st, item[j]))
    BY <1>1, <1>5
  <2>5. /\ SlotOK(y, job'[j].status, item'[j]) /\ Answered(y, item'[j])
        /\ Written(job'[j].status, item'[j]) /\ (Reliable => Shown(job'[j].status, item'[j]))
        /\ \A k \in Jobs \ {j} : job'[k] = job[k] /\ item'[k] = item[k]
        /\ exec[e].job = j /\ y.job = j
    BY <1>1, <1>3, <2>2, <2>3, <2>4
  <2> QED BY <1>3, <2>5, SlotMoves DEF Steady
<1> QED BY <1>4, <1>5

LEMMA DrainSound ==
  ASSUME Steady, NEW e \in Slots, PoolDrained(e) \/ Derive(e)
  PROVE  Sound'
<1>1. exec[e].pc \in WorkingPc /\ UNCHANGED <<job, item>>
  BY DEF PoolDrained, Derive, WorkingPc
<1>2. PICK pc \in {"derive", "finish", "catch"} : Goto(e, pc)
  BY DEF PoolDrained, Derive
<1>3. SlotOK(exec[e], job[exec[e].job].status, item[exec[e].job]) /\ exec[e] \in Execution
  BY <1>1, SoundOf DEF WorkingPc
<1>4. \A s \in Students : exec[e].stage[s] \notin OpenStage
  <2>1. CASE PoolDrained(e)
    BY <2>1 DEF PoolDrained, InStage, InFlight, OpenStage
  <2>2. CASE Derive(e)
    BY <1>3, <2>2 DEF Derive, SlotOK
  <2> QED BY <2>1, <2>2
<1> QED BY <1>1, <1>2, <1>4, GoOnSound

LEMMA FinishSound ==
  ASSUME Steady, NEW e \in Slots, Finish(e)
  PROVE  Sound'
<1> DEFINE j == exec[e].job
           st == FinalStatus(e)
<1>1. exec[e].pc = "finish" /\ exec[e].pc \in WorkingPc /\ UNCHANGED item
  BY DEF Finish, WorkingPc
<1>2. /\ SlotOK(exec[e], job[j].status, item[j]) /\ exec[e] \in Execution
      /\ Reliable => Answered(exec[e], item[j])
      /\ Written(job[j].status, item[j]) /\ j \in Jobs
  BY <1>1, SoundOf
<1>3. \A s \in Students : exec[e].stage[s] \notin OpenStage
  BY <1>1, <1>2 DEF SlotOK
<1>4. CASE Goto(e, "catch") /\ UNCHANGED job
  BY <1>1, <1>3, <1>4, GoOnSound
<1>5. CASE job' = [job EXCEPT ![j].status = st] /\ Goto(e, "ack")
  <2>1. st \in {"COMPLETED", "COMPLETED_WITH_ERRORS"} /\ (st = "COMPLETED" <=> \A s \in Students : exec[e].result[s] # "FAILURE")
    BY DEF FinalStatus, Ran
  <2>2. job[j].status \in {"RUNNING", "CANCELLED"}
    BY <1>1, <1>2 DEF SlotOK
  <2>3. Written(st, item[j])
    BY <1>2, <2>1, <2>2 DEF Written
  <2>4. ASSUME Reliable PROVE Shown(st, item[j])
    <3>1. \A s \in Students : \/ exec[e].stage[s] = "done"
                              \/ exec[e].stage[s] = "out"
      BY <1>2, <1>3 DEF Execution, OpenStage
    <3>2. ASSUME NEW s \in Students
          PROVE  /\ item[j][s].status # "ABSENT" => item[j][s].status \in Outcomes
                 /\ item[j][s].status # "FAILURE" <=> exec[e].result[s] # "FAILURE"
      <4>1. CASE exec[e].stage[s] = "done"
        BY <1>1, <1>2, <2>4, <4>1 DEF Answered
      <4>2. CASE exec[e].stage[s] = "out"
        <5>1. exec[e].result[s] = "none" /\ item[j][s].status = "ABSENT"
          BY <1>1, <1>2, <4>2 DEF SlotOK
        <5> QED BY <5>1
      <4> QED BY <3>1, <4>1, <4>2
    <3> QED BY <2>1, <3>2 DEF Shown
  <2>5. st # ""
    BY <2>1
  <2> HIDE DEF st
  <2> QED BY <1>1, <1>3, <1>5, <2>3, <2>4, <2>5, GoOnSound
<1> QED BY <1>4, <1>5 DEF Finish

LEMMA CatchSound ==
  ASSUME Steady, NEW e \in Slots, Catch(e)
  PROVE  Sound'
<1> DEFINE j == exec[e].job
<1>1. exec[e].pc = "catch" /\ exec[e].pc \in WorkingPc /\ UNCHANGED item
  BY DEF Catch, WorkingPc
<1>2. SlotOK(exec[e], job[j].status, item[j]) /\ Written(job[j].status, item[j])
  BY <1>1, SoundOf
<1>3. \A s \in Students : exec[e].stage[s] \notin OpenStage
  BY <1>1, <1>2 DEF SlotOK
<1>4. CASE Goto(e, "reject") /\ UNCHANGED job
  BY <1>1, <1>3, <1>4, GoOnSound
<1>5. CASE job' = [job EXCEPT ![j].status = "FAILED"] /\ Goto(e, "ack")
  <2>1. job[j].status \in {"RUNNING", "CANCELLED"}
    BY <1>1, <1>2 DEF SlotOK
  <2>2. Written("FAILED", item[j]) /\ Shown("FAILED", item[j])
    BY <1>2, <2>1 DEF Written, Shown
  <2> QED BY <1>1, <1>3, <1>5, <2>2, GoOnSound
<1> QED BY <1>4, <1>5 DEF Catch

LEMMA NextSound ==
  ASSUME Steady, [Next]_vars
  PROVE  Sound'
<1>1. CASE UNCHANGED <<job, item, exec>>
  <2>1. (Reliable' <=> Reliable) /\ (OneDelivery' <=> OneDelivery)
    BY DEF Steady, Reliable, OneDelivery
  <2> QED BY <1>1, <2>1 DEF Sound, Steady
<1>2. ASSUME NEW j \in Jobs, NEW ids \in SUBSET Students, Start(j, ids) PROVE Sound'
  BY <1>2, StartSound
<1>3. ASSUME NEW j \in Jobs, Dispatch(j) PROVE Sound'
  <2>1. UNCHANGED <<job, item>>
    BY <1>3 DEF Dispatch
  <2>2. ASSUME NEW e \in Locals, RunInline(e, j) PROVE Sound'
    BY <2>1, <2>2, CalledSound DEF RunInline, Slots
  <2> QED BY <1>1, <1>3, <2>1, <2>2 DEF Dispatch
<1>4. ASSUME NEW w \in Workers, NEW j \in Jobs, Deliver(w, j) PROVE Sound'
  BY <1>4, CalledSound DEF Deliver, Slots
<1>5. ASSUME NEW e \in Slots, Ack(e) \/ Reject(e) \/ CrashExecution(e) PROVE Sound'
  BY <1>5, FreeSound DEF Ack, Reject, CrashExecution
<1>6. ASSUME NEW e \in Slots, ExecutionStep(e) PROVE Sound'
  <2>1. ASSUME NEW s \in Students,
               TakeStudent(e, s) \/ SyncReturns(e, s) \/ RecordItem(e, s) \/ CountStudent(e, s)
        PROVE  Sound'
    BY <2>1, TakeSound, ReturnSound, RecordSound, CountSound
  <2> QED BY <1>5, <1>6, <2>1, LoadSound, MarkSound, DrainSound, FinishSound, CatchSound DEF ExecutionStep
<1>7. ASSUME NEW j \in Jobs, Cancel(j) PROVE Sound'
  BY <1>7, CancelSound
<1>8. ASSUME NEW j \in Jobs, Stalled(j) \/ CrashStart(j) PROVE Sound'
  BY <1>1, <1>8 DEF Stalled, CrashStart
<1>9. CASE UNCHANGED vars
  BY <1>1, <1>9 DEF vars
<1> QED BY <1>2, <1>3, <1>4, <1>5, <1>6, <1>7, <1>8, <1>9 DEF Next, QueueStep

LEMMA NextIdleIsOut ==
  ASSUME TypeOK, IdleIsOut, [Next]_vars
  PROVE  IdleIsOut'
<1> SUFFICES ASSUME NEW e \in Slots, exec'[e].pc = "idle", NEW s \in Students
             PROVE  exec'[e].stage[s] = "out"
  BY DEF IdleIsOut
<1>1. exec[e] \in Execution /\ ExecStep(exec[e], exec'[e])
  BY EveryExecStep DEF TypeOK
<1>2. exec[e].pc = "idle" => \A i \in Students : exec[e].stage[i] = "out"
  BY DEF IdleIsOut
<1>3. Idle.stage[s] = "out" /\ \A j \in Jobs : Called(j).pc = "load"
  BY DEF Idle, Called
<1>4. Begun(exec[e]).pc = "pool"
  BY <1>1 DEF Begun, Execution
<1>5. ASSUME exec[e].pc # "idle", exec'[e] # Idle PROVE FALSE
  BY <1>1, <1>3, <1>4, <1>5 DEF ExecStep, Returned, Execution, Active
<1>6. CASE exec[e].pc = "idle"
  BY <1>1, <1>2, <1>3, <1>6 DEF ExecStep, Active
<1> QED BY <1>3, <1>5, <1>6

LEMMA InitSound == Init => Sound /\ IdleIsOut /\ BusyHasJob /\ Delivery
<1> SUFFICES ASSUME Init PROVE Sound /\ IdleIsOut /\ BusyHasJob /\ Delivery
  OBVIOUS
<1>1. IdleIsOut /\ BusyHasJob /\ \A e \in Slots : exec[e].pc = "idle"
  BY DEF Init, IdleIsOut, BusyHasJob, Idle
<1>2. Delivery
  BY SyncJobsAssumption DEF Init, Delivery, IdleIsFree, OnePlace, Unheld, Idle, NoRow, Slots
<1>3. \A j \in Jobs : Written(job[j].status, item[j]) /\ Shown(job[j].status, item[j])
  BY DEF Init, Written, Shown, NoRow, NoItem
<1> QED BY <1>1, <1>2, <1>3 DEF Sound

Joint ==
    /\ TypeOK /\ OutcomeKnown /\ BusyHasJob /\ IdleIsOut
    /\ OneDelivery => Delivery
    /\ Sound

LEMMA NextJoint == Joint /\ [Next]_vars => Joint'
<1> SUFFICES ASSUME Joint, [Next]_vars PROVE Joint'
  OBVIOUS
<1>1. TypeOK' /\ OutcomeKnown' /\ BusyHasJob' /\ IdleIsOut'
  BY NextTyped, NextKnown, NextBusy, NextIdleIsOut DEF Joint
<1>2. UNCHANGED env
  BY DEF Next, vars
<1>3. OneDelivery' <=> OneDelivery
  BY <1>2 DEF OneDelivery
<1>4. CASE OneDelivery
  <2>1. Delivery'
    BY <1>4, NextIdle, NextOnePlace DEF Joint, Delivery
  <2>2. Sound'
    BY <1>2, <1>4, NextSound DEF Joint, Steady
  <2> QED BY <1>1, <2>1, <2>2 DEF Joint
<1>5. CASE ~ OneDelivery
  BY <1>1, <1>3, <1>5 DEF Joint, Sound
<1> QED BY <1>4, <1>5

LEMMA JointAlways == Spec => []Joint
<1>1. Init => Joint
  <2>1. Init => TypeOK /\ OutcomeKnown
    BY IdleTyped, SyncJobsAssumption
       DEF Init, TypeOK, OutcomeKnown, JobRow, ItemRow, Message, NoRow, NoItem, Idle, Environment
  <2> QED BY <2>1, InitSound DEF Joint
<1> QED BY <1>1, NextJoint, PTL DEF Spec

(* The verdict a finished job shows is the one its items tell, whatever     *)
(* crashes, redeliveries, repeated runs and cancels its run met, as long as *)
(* the database answers and the broker delivers a job once at a time.       *)
THEOREM VerdictIsTrue == Spec => []VerdictMatchesItems
<1>1. Joint => VerdictMatchesItems
  <2> SUFFICES ASSUME Joint, NEW j \in Jobs, OneDelivery, Reliable,
                      job[j].status \in {"COMPLETED", "COMPLETED_WITH_ERRORS"}
               PROVE  /\ \A s \in Targets(j) : item[j][s].status \in Outcomes
                      /\ job[j].status = "COMPLETED" <=> \A s \in Targets(j) : item[j][s].status # "FAILURE"
    BY DEF VerdictMatchesItems, Reliable
  <2>1. Shown(job[j].status, item[j])
    BY DEF Joint, Sound
  <2> QED BY <2>1 DEF Shown, Targets
<1> QED BY <1>1, JointAlways, PTL

-----------------------------------------------------------------------------
(* The refinement.  What a watcher of the rows sees of an execution.        *)
Busy(x, j) == x.job = j /\ x.pc \in WorkingPc
OpenOf(x) == {s \in Students : x.stage[s] \in OpenStage}
FailOf(x) == {s \in Students : x.result[s] = "FAILURE"}
HeldIn(f, j) == \E e \in Slots : Busy(f[e], j)
OwedIn(f, j) == {s \in Students : \E e \in Slots : Busy(f[e], j) /\ s \in OpenOf(f[e])}
FailIn(f, j) == {s \in Students : \E e \in Slots : Busy(f[e], j) /\ s \in FailOf(f[e])}

LEMMA Seen ==
  /\ Held = [j \in Jobs |-> HeldIn(exec, j)] /\ Held' = [j \in Jobs |-> HeldIn(exec', j)]
  /\ Owed = [j \in Jobs |-> OwedIn(exec, j)] /\ Owed' = [j \in Jobs |-> OwedIn(exec', j)]
  /\ Failures = [j \in Jobs |-> FailIn(exec, j)] /\ Failures' = [j \in Jobs |-> FailIn(exec', j)]
<1>1. ASSUME NEW j \in Jobs
      PROVE  /\ (Working(j) # {}) = HeldIn(exec, j)
             /\ UNION {InStage(e, "left") \cup InFlight(e) : e \in Working(j)} = OwedIn(exec, j)
             /\ UNION {Ran(e, "FAILURE") : e \in Working(j)} = FailIn(exec, j)
  <2>1. \A e : e \in Working(j) <=> e \in Slots /\ Busy(exec[e], j)
    BY DEF Working, Busy, WorkingPc
  <2>2. \A e : InStage(e, "left") \cup InFlight(e) = OpenOf(exec[e]) /\ Ran(e, "FAILURE") = FailOf(exec[e])
    BY DEF InStage, InFlight, OpenOf, OpenStage, Ran, FailOf
  <2>3. \A e : OpenOf(exec[e]) \subseteq Students /\ FailOf(exec[e]) \subseteq Students
    BY DEF OpenOf, FailOf
  <2> QED BY <2>1, <2>2, <2>3 DEF HeldIn, OwedIn, FailIn
<1>2. ASSUME NEW j \in Jobs
      PROVE  /\ (Working(j)' # {}) = HeldIn(exec', j)
             /\ (UNION {InStage(e, "left") \cup InFlight(e) : e \in Working(j)})' = OwedIn(exec', j)
             /\ (UNION {Ran(e, "FAILURE") : e \in Working(j)})' = FailIn(exec', j)
  <2>1. \A e : e \in Working(j)' <=> e \in Slots /\ Busy(exec'[e], j)
    BY DEF Working, Busy, WorkingPc
  <2>2. \A e : (InStage(e, "left") \cup InFlight(e))' = OpenOf(exec'[e]) /\ Ran(e, "FAILURE")' = FailOf(exec'[e])
    BY DEF InStage, InFlight, OpenOf, OpenStage, Ran, FailOf
  <2>3. \A e : OpenOf(exec'[e]) \subseteq Students /\ FailOf(exec'[e]) \subseteq Students
    BY DEF OpenOf, FailOf
  <2> QED BY <2>1, <2>2, <2>3 DEF HeldIn, OwedIn, FailIn
<1> QED BY <1>1, <1>2 DEF Held, Owed, Failures

(* Only the slots that work on a job count.                                 *)
LEMMA SeenAlike ==
  ASSUME NEW f, NEW g, NEW k, \A d \in Slots : Busy(f[d], k) \/ Busy(g[d], k) => f[d] = g[d]
  PROVE  HeldIn(f, k) = HeldIn(g, k) /\ OwedIn(f, k) = OwedIn(g, k) /\ FailIn(f, k) = FailIn(g, k)
<1>1. \A d \in Slots : Busy(f[d], k) <=> Busy(g[d], k)
  OBVIOUS
<1> QED BY <1>1 DEF HeldIn, OwedIn, FailIn

LEMMA SeenAlone ==
  ASSUME NEW f, NEW j, NEW e \in Slots, \A d \in Slots \ {e} : ~ Busy(f[d], j)
  PROVE  /\ HeldIn(f, j) <=> Busy(f[e], j)
         /\ OwedIn(f, j) = IF Busy(f[e], j) THEN OpenOf(f[e]) ELSE {}
         /\ FailIn(f, j) = IF Busy(f[e], j) THEN FailOf(f[e]) ELSE {}
<1>1. \A d \in Slots : Busy(f[d], j) => d = e
  OBVIOUS
<1>2. HeldIn(f, j) <=> Busy(f[e], j)
  BY <1>1 DEF HeldIn
<1>3. CASE Busy(f[e], j)
  <2>1. OwedIn(f, j) = OpenOf(f[e])
    BY <1>1, <1>3 DEF OwedIn, OpenOf
  <2>2. FailIn(f, j) = FailOf(f[e])
    BY <1>1, <1>3 DEF FailIn, FailOf
  <2> QED BY <1>2, <1>3, <2>1, <2>2
<1>4. CASE ~ Busy(f[e], j)
  <2>1. \A d \in Slots : ~ Busy(f[d], j)
    BY <1>1, <1>4
  <2>2. OwedIn(f, j) = {} /\ FailIn(f, j) = {}
    BY <2>1 DEF OwedIn, FailIn
  <2> QED BY <1>2, <1>4, <2>2
<1> QED BY <1>3, <1>4

(* What is seen of the job of a slot, and what changes of it, of no other   *)
(* job, when the slot moves: `open' and `fail' are what the run then owes   *)
(* and what it found failing.                                               *)
LEMMA SlotHeld ==
  ASSUME Delivery, NEW e \in Slots, NEW j \in Jobs, exec[e].job = j
  PROVE  /\ exec[e].pc \in WorkingPc => Held[j] = TRUE
         /\ exec[e].pc \notin WorkingPc => Held[j] = FALSE
         /\ Owed[j] = {s \in Students : exec[e].pc \in WorkingPc /\ exec[e].stage[s] \in OpenStage}
         /\ Failures[j] = {s \in Students : exec[e].pc \in WorkingPc /\ exec[e].result[s] = "FAILURE"}
<1>1. \A d \in Slots \ {e} : ~ Busy(exec[d], j)
  BY OnlySlot DEF Busy
<1>2. Busy(exec[e], j) <=> exec[e].pc \in WorkingPc
  BY DEF Busy, WorkingPc
<1>3. /\ HeldIn(exec, j) <=> Busy(exec[e], j)
      /\ OwedIn(exec, j) = IF Busy(exec[e], j) THEN OpenOf(exec[e]) ELSE {}
      /\ FailIn(exec, j) = IF Busy(exec[e], j) THEN FailOf(exec[e]) ELSE {}
  BY <1>1, SeenAlone
<1>4. Held[j] = HeldIn(exec, j) /\ Owed[j] = OwedIn(exec, j) /\ Failures[j] = FailIn(exec, j)
  BY Seen
<1>5. (exec[e].pc \in WorkingPc => HeldIn(exec, j) = TRUE) /\ (exec[e].pc \notin WorkingPc => HeldIn(exec, j) = FALSE)
  BY <1>2, <1>3 DEF HeldIn
<1> QED BY <1>2, <1>3, <1>4, <1>5 DEF OpenOf, FailOf

Opens(y, open) == \A s \in Students : s \in open <=> y.pc \in WorkingPc /\ y.stage[s] \in OpenStage
Fails(y, fail) == \A s \in Students : s \in fail <=> y.pc \in WorkingPc /\ y.result[s] = "FAILURE"
Shows(j, held, open, fail) ==
    /\ Held' = [Held EXCEPT ![j] = held]
    /\ Owed' = [Owed EXCEPT ![j] = open]
    /\ Failures' = [Failures EXCEPT ![j] = fail]

LEMMA SlotSeen ==
  ASSUME TypeOK, Delivery, NEW e \in Slots, NEW y, Moves(e, y),
         NEW j \in Jobs, exec[e].job = j, y.pc # "idle" => y.job = j,
         NEW open \in SUBSET Students, Opens(y, open), NEW fail \in SUBSET Students, Fails(y, fail)
  PROVE  /\ y.pc \in WorkingPc => Shows(j, TRUE, open, fail)
         /\ y.pc \notin WorkingPc => Shows(j, FALSE, open, fail)
<1>1. exec'[e] = y /\ \A d \in Slots \ {e} : exec'[d] = exec[d]
  BY DEF TypeOK, Moves
<1>2. \A d \in Slots \ {e} : ~ Busy(exec[d], j) /\ ~ Busy(exec'[d], j)
  BY <1>1, OnlySlot DEF Busy
<1>3. Busy(y, j) <=> y.pc \in WorkingPc
  BY DEF Busy, WorkingPc
<1>4. PICK g : g = exec'
  OBVIOUS
<1>5. /\ HeldIn(g, j) <=> Busy(y, j)
      /\ OwedIn(g, j) = IF Busy(y, j) THEN OpenOf(y) ELSE {}
      /\ FailIn(g, j) = IF Busy(y, j) THEN FailOf(y) ELSE {}
  <2>1. g[e] = y /\ \A d \in Slots \ {e} : ~ Busy(g[d], j)
    BY <1>1, <1>2, <1>4
  <2> QED BY <2>1, SeenAlone
<1>6. ASSUME NEW k \in Jobs \ {j}
      PROVE  /\ HeldIn(g, k) = HeldIn(exec, k) /\ OwedIn(g, k) = OwedIn(exec, k)
             /\ FailIn(g, k) = FailIn(exec, k)
  <2>1. ~ Busy(exec[e], k) /\ ~ Busy(y, k)
    BY DEF Busy, WorkingPc
  <2>2. \A d \in Slots : Busy(g[d], k) \/ Busy(exec[d], k) => g[d] = exec[d]
    BY <1>1, <1>4, <2>1
  <2>3. PICK f : f = exec
    OBVIOUS
  <2> QED BY <2>2, <2>3, SeenAlike
<1>7. /\ Held' = [k \in Jobs |-> HeldIn(g, k)] /\ Owed' = [k \in Jobs |-> OwedIn(g, k)]
      /\ Failures' = [k \in Jobs |-> FailIn(g, k)]
  BY <1>4, Seen
<1>8. /\ y.pc \in WorkingPc => Held' = [Held EXCEPT ![j] = TRUE]
      /\ y.pc \notin WorkingPc => Held' = [Held EXCEPT ![j] = FALSE]
  <2>1. (y.pc \in WorkingPc => HeldIn(g, j) = TRUE) /\ (y.pc \notin WorkingPc => HeldIn(g, j) = FALSE)
    BY <1>3, <1>5 DEF HeldIn
  <2> QED BY ZenonT(40), <1>6, <1>7, <2>1, Seen
<1>9. OwedIn(g, j) = open /\ FailIn(g, j) = fail
  BY <1>3, <1>5 DEF OpenOf, FailOf, Opens, Fails
<1>10. Owed' = [Owed EXCEPT ![j] = open]
  BY <1>6, <1>7, <1>9, Seen
<1>11. Failures' = [Failures EXCEPT ![j] = fail]
  BY <1>6, <1>7, <1>9, Seen
<1> QED BY <1>8, <1>10, <1>11 DEF Shows

(* Slots that work on no job are not seen.                                  *)
LEMMA SlotUnseen ==
  ASSUME TypeOK, NEW e \in Slots, NEW y, Moves(e, y),
         exec[e].pc \notin WorkingPc, y.pc \notin WorkingPc
  PROVE  UNCHANGED <<Held, Owed, Failures>>
<1>1. exec'[e] = y /\ \A d \in Slots \ {e} : exec'[d] = exec[d]
  BY DEF TypeOK, Moves
<1>2. \A k \in Jobs : \A d \in Slots : Busy(exec'[d], k) \/ Busy(exec[d], k) => exec'[d] = exec[d]
  BY <1>1 DEF Busy
<1>3. PICK f, g : f = exec /\ g = exec'
  OBVIOUS
<1>4. ASSUME NEW k \in Jobs
      PROVE  HeldIn(g, k) = HeldIn(f, k) /\ OwedIn(g, k) = OwedIn(f, k) /\ FailIn(g, k) = FailIn(f, k)
  <2>1. \A d \in Slots : Busy(g[d], k) \/ Busy(f[d], k) => g[d] = f[d]
    BY <1>2, <1>3
  <2> QED BY <2>1, SeenAlike
<1> QED BY <1>3, <1>4, Seen

LEMMA StatusSeen ==
  ASSUME TypeOK, NEW j \in Jobs, NEW st, job'[j].status = st, \A k \in Jobs \ {j} : job'[k] = job[k]
  PROVE  Status' = [Status EXCEPT ![j] = st] /\ Status[j] = job[j].status
  BY DEF Status

LEMMA SeenSame ==
  /\ \A j \in Jobs : Held = [Held EXCEPT ![j] = Held[j]] /\ Owed = [Owed EXCEPT ![j] = Owed[j]]
                     /\ Failures = [Failures EXCEPT ![j] = Failures[j]] /\ Status = [Status EXCEPT ![j] = Status[j]]
  /\ \A j \in Jobs : Held[j] \in BOOLEAN
  BY DEF Held, Owed, Failures, Status

-----------------------------------------------------------------------------
(* Every step of the queue, the pool and the database is a step of the      *)
(* lifecycle or leaves what is seen of it alone.                            *)
AllSeen == <<Status, Held, Owed, Failures>>

LEMMA RowsUnseen ==
  (UNCHANGED job => UNCHANGED Status) /\ (UNCHANGED exec => UNCHANGED <<Held, Owed, Failures>>)
<1>1. UNCHANGED exec => UNCHANGED <<Held, Owed, Failures>>
  <2> SUFFICES ASSUME UNCHANGED exec PROVE UNCHANGED <<Held, Owed, Failures>>
    OBVIOUS
  <2>1. PICK f : f = exec
    OBVIOUS
  <2>2. exec' = f
    BY <2>1
  <2> QED BY <2>1, <2>2, Seen
<1> QED BY <1>1 DEF Status

LEMMA StartSeen ==
  ASSUME Steady, NEW j \in Jobs, NEW ids \in SUBSET Students, Start(j, ids)
  PROVE  Lifecycle!Submit(j)
<1>1. /\ job[j].status = "NONE" /\ UNCHANGED exec
      /\ job' = [job EXCEPT ![j] = [NoRow EXCEPT !.status = "QUEUED", !.total = Cardinality(ids)]]
  BY DEF Start
<1>2. job'[j].status = "QUEUED" /\ \A k \in Jobs \ {j} : job'[k] = job[k]
  BY <1>1 DEF Steady, TypeOK, NoRow
<1>3. Status' = [Status EXCEPT ![j] = "QUEUED"] /\ Status[j] = "NONE"
  BY <1>1, <1>2, StatusSeen DEF Steady
<1> QED BY <1>1, <1>3, RowsUnseen DEF Lifecycle!Submit

LEMMA CancelSeen ==
  ASSUME Steady, NEW j \in Jobs, Cancel(j)
  PROVE  Lifecycle!Cancel(j)
<1>1. job[j].status # "NONE" /\ UNCHANGED exec /\ job' = [job EXCEPT ![j].status = "CANCELLED"]
  BY DEF Cancel
<1>2. Status' = [Status EXCEPT ![j] = "CANCELLED"] /\ Status[j] # "NONE"
  BY <1>1, StatusMoves, StatusSeen DEF Steady
<1> QED BY <1>1, <1>2, RowsUnseen DEF Lifecycle!Cancel

(* Only the rows a watcher does not read, or slots that work on no job. *)
LEMMA ElsewhereSeen ==
  ASSUME Steady, NEW e \in Slots, NEW y, Moves(e, y), UNCHANGED job,
         exec[e].pc \notin WorkingPc, y.pc \notin WorkingPc
  PROVE  UNCHANGED AllSeen
  BY SlotUnseen, RowsUnseen DEF Steady, AllSeen

LEMMA CalledSeen ==
  ASSUME Steady, NEW e \in Slots, NEW j \in Jobs, exec[e].pc = "idle",
         exec' = [exec EXCEPT ![e] = Called(j)], UNCHANGED job
  PROVE  UNCHANGED AllSeen
<1>1. Called(j).pc \notin WorkingPc /\ exec[e].pc \notin WorkingPc
  BY DEF Called, Idle, WorkingPc
<1>2. Moves(e, Called(j))
  BY DEF Moves
<1> QED BY <1>1, <1>2, ElsewhereSeen

LEMMA LoadSeen ==
  ASSUME Steady, NEW e \in Slots, Load(e)
  PROVE  UNCHANGED AllSeen
<1>1. PICK pc \in {"ack", "mark", "reject"} : Goto(e, pc) /\ UNCHANGED job /\ exec[e].pc = "load"
  BY DEF Load
<1>2. PICK y : Moves(e, y) /\ y.pc = pc
  BY <1>1, GotoMoves DEF Steady
<1>3. y.pc \notin WorkingPc /\ exec[e].pc \notin WorkingPc
  BY <1>1, <1>2 DEF WorkingPc
<1> QED BY <1>1, <1>2, <1>3, ElsewhereSeen

(* A slot that works goes on working, or stops. *)
LEMMA WorkSeen ==
  ASSUME Steady, NEW e \in Slots, exec[e].pc \in WorkingPc, NEW j \in Jobs, exec[e].job = j,
         NEW y, Moves(e, y), y.pc \in WorkingPc, y.job = j,
         NEW open \in SUBSET Students, Opens(y, open), NEW fail \in SUBSET Students, Fails(y, fail)
  PROVE  Held[j] = TRUE /\ Shows(j, TRUE, open, fail)
<1>1. Delivery /\ TypeOK
  BY DEF Steady
<1>2. Shows(j, TRUE, open, fail)
  BY <1>1, SlotSeen
<1>3. Held[j] = TRUE
  BY <1>1, SlotHeld
<1> QED BY <1>2, <1>3

LEMMA StopSeen ==
  ASSUME Steady, NEW e \in Slots, exec[e].pc \in WorkingPc, NEW j \in Jobs, exec[e].job = j,
         NEW y, Moves(e, y), y.pc \notin WorkingPc, y.pc # "idle" => y.job = j
  PROVE  Lifecycle!Release(j)
<1>1. Delivery /\ TypeOK
  BY DEF Steady
<1>2. PICK none \in SUBSET Students : none = {}
  OBVIOUS
<1>3. Opens(y, none) /\ Fails(y, none)
  BY <1>2 DEF Opens, Fails
<1>4. Shows(j, FALSE, none, none)
  BY <1>1, <1>3, SlotSeen
<1>5. Held[j] = TRUE
  BY <1>1, SlotHeld
<1> QED BY <1>2, <1>4, <1>5 DEF Lifecycle!Release, Shows

(* A step of the pool that settles nobody and learns of no failure, one     *)
(* that settles a student, and one that learns of a failure.                *)
LEMMA QuietSeen ==
  ASSUME Steady, NEW e \in Slots, exec[e].pc \in WorkingPc, NEW j \in Jobs, exec[e].job = j,
         NEW y, Moves(e, y), y.pc \in WorkingPc, y.job = j, UNCHANGED Status,
         \A i \in Students : y.stage[i] \in OpenStage <=> exec[e].stage[i] \in OpenStage,
         \A i \in Students : y.result[i] = "FAILURE" <=> exec[e].result[i] = "FAILURE"
  PROVE  UNCHANGED AllSeen
<1>1. Delivery
  BY DEF Steady
<1>2. /\ Owed[j] = {s \in Students : exec[e].pc \in WorkingPc /\ exec[e].stage[s] \in OpenStage}
      /\ Failures[j] = {s \in Students : exec[e].pc \in WorkingPc /\ exec[e].result[s] = "FAILURE"}
  BY <1>1, SlotHeld
<1>3. PICK open \in SUBSET Students, fail \in SUBSET Students : open = Owed[j] /\ fail = Failures[j]
  BY <1>2
<1>4. Opens(y, open) /\ Fails(y, fail)
  BY <1>2, <1>3 DEF Opens, Fails
<1>5. Held[j] = TRUE /\ Shows(j, TRUE, open, fail)
  BY <1>4, WorkSeen
<1>6. UNCHANGED Held
  BY <1>5, SeenSame DEF Shows
<1> QED BY <1>3, <1>5, <1>6, SeenSame DEF Shows, AllSeen

LEMMA SettleSeen ==
  ASSUME Steady, NEW e \in Slots, exec[e].pc \in WorkingPc, NEW j \in Jobs, exec[e].job = j,
         NEW y, Moves(e, y), y.pc \in WorkingPc, y.job = j, UNCHANGED Status,
         NEW s \in Students, exec[e].stage[s] \in OpenStage, y.stage[s] \notin OpenStage,
         \A i \in Students \ {s} : y.stage[i] = exec[e].stage[i], y.result = exec[e].result
  PROVE  Lifecycle!Settle(j, s)
<1>1. Delivery
  BY DEF Steady
<1>2. /\ Owed[j] = {i \in Students : exec[e].pc \in WorkingPc /\ exec[e].stage[i] \in OpenStage}
      /\ Failures[j] = {i \in Students : exec[e].pc \in WorkingPc /\ exec[e].result[i] = "FAILURE"}
  BY <1>1, SlotHeld
<1>3. PICK open \in SUBSET Students, fail \in SUBSET Students : open = Owed[j] \ {s} /\ fail = Failures[j]
  BY <1>2
<1>4. Opens(y, open) /\ Fails(y, fail)
  BY <1>2, <1>3 DEF Opens, Fails
<1>5. Held[j] = TRUE /\ Shows(j, TRUE, open, fail)
  BY <1>4, WorkSeen
<1>6. UNCHANGED Held
  BY <1>5, SeenSame DEF Shows
<1> QED BY <1>2, <1>3, <1>5, <1>6, SeenSame DEF Shows, Lifecycle!Settle

LEMMA LearnSeen ==
  ASSUME Steady, NEW e \in Slots, exec[e].pc \in WorkingPc, NEW j \in Jobs, exec[e].job = j,
         NEW y, Moves(e, y), y.pc \in WorkingPc, y.job = j, UNCHANGED Status,
         NEW s \in Students, exec[e].stage[s] \in OpenStage, y.result[s] = "FAILURE",
         \A i \in Students : y.stage[i] \in OpenStage <=> exec[e].stage[i] \in OpenStage,
         \A i \in Students \ {s} : y.result[i] = exec[e].result[i]
  PROVE  Lifecycle!Learn(j, s)
<1>1. Delivery
  BY DEF Steady
<1>2. /\ Owed[j] = {i \in Students : exec[e].pc \in WorkingPc /\ exec[e].stage[i] \in OpenStage}
      /\ Failures[j] = {i \in Students : exec[e].pc \in WorkingPc /\ exec[e].result[i] = "FAILURE"}
  BY <1>1, SlotHeld
<1>3. PICK open \in SUBSET Students, fail \in SUBSET Students : open = Owed[j] /\ fail = Failures[j] \cup {s}
  BY <1>2
<1>4. Opens(y, open) /\ Fails(y, fail)
  BY <1>2, <1>3 DEF Opens, Fails
<1>5. Held[j] = TRUE /\ Shows(j, TRUE, open, fail)
  BY <1>4, WorkSeen
<1>6. UNCHANGED Held
  BY <1>5, SeenSame DEF Shows
<1> QED BY <1>2, <1>3, <1>5, <1>6, SeenSame DEF Shows, Lifecycle!Learn

(* The actions of one execution, as the lifecycle sees them. *)
Visible == Lifecycle!Next \/ UNCHANGED AllSeen

LEMMA MarkSeen ==
  ASSUME Steady, NEW e \in Slots, MarkRunning(e)
  PROVE  Visible
<1>1. exec[e].pc = "mark" /\ exec[e].pc \notin WorkingPc
  BY DEF MarkRunning, WorkingPc
<1>2. CASE Goto(e, "reject") /\ UNCHANGED job
  <2>1. PICK y : Moves(e, y) /\ y.pc = "reject"
    BY <1>2, GotoMoves DEF Steady
  <2>2. y.pc \notin WorkingPc
    BY <2>1 DEF WorkingPc
  <2> QED BY <1>1, <1>2, <2>1, <2>2, ElsewhereSeen DEF Visible
<1>3. CASE job' = [job EXCEPT ![exec[e].job].status = "RUNNING"] /\ exec' = [exec EXCEPT ![e] = Begun(@)]
  <2>1. /\ exec[e].job \in Jobs
        /\ SlotOK(exec[e], job[exec[e].job].status, item[exec[e].job])
        /\ Written(job[exec[e].job].status, item[exec[e].job])
    BY <1>1, SoundOf
  <2>2. PICK j \in Jobs : j = exec[e].job
    BY <2>1
  <2>3. PICK y : /\ Moves(e, y)
                 /\ y.pc = "pool" /\ y.job = exec[e].job /\ y.result = exec[e].result
                 /\ \A s \in Students : y.stage[s] = IF s \in Targets(exec[e].job) THEN "left" ELSE "out"
    BY <1>3, BeginMoves DEF Steady
  <2>4. TypeOK /\ Delivery
    BY DEF Steady
  <2>5. job' = [job EXCEPT ![j].status = "RUNNING"]
    BY <1>3, <2>2
  <2>6. job'[j].status = "RUNNING" /\ \A k \in Jobs \ {j} : job'[k] = job[k]
    BY <2>4, <2>5, StatusMoves
  <2>7. Status' = [Status EXCEPT ![j] = "RUNNING"] /\ Status[j] = job[j].status
    BY <2>4, <2>6, StatusSeen
  <2>8. Status[j] \notin {"NONE", "RUNNING", "COMPLETED"}
    BY <1>1, <2>1, <2>2, <2>7 DEF SlotOK
  <2>9. PICK open \in SUBSET Students, none \in SUBSET Students : open = Targets(j) /\ none = {}
    BY DEF Targets
  <2>10. open # {}
    BY <2>1, <2>2, <2>7, <2>8, <2>9 DEF Written, Targets
  <2>11. Opens(y, open)
    BY <2>2, <2>3, <2>9 DEF Opens, OpenStage, WorkingPc
  <2>12. Fails(y, none)
    BY <1>1, <2>1, <2>3, <2>9 DEF Fails, SlotOK
  <2>13. Moves(e, y) /\ y.pc \in WorkingPc
    BY <2>3 DEF Moves, WorkingPc
  <2>14. exec[e].job = j /\ (y.pc # "idle" => y.job = j)
    BY <2>2, <2>3
  <2>15. Shows(j, TRUE, open, none)
    BY <2>4, <2>11, <2>12, <2>13, <2>14, SlotSeen
  <2>16. Held[j] = FALSE /\ Failures[j] = {}
    BY <1>1, <2>4, <2>14, SlotHeld
  <2>17. UNCHANGED Failures
    BY <2>9, <2>15, <2>16, SeenSame DEF Shows
  <2>18. Lifecycle!Begin(j, open)
    BY <2>7, <2>8, <2>10, <2>15, <2>16, <2>17 DEF Lifecycle!Begin, Shows
  <2> QED BY <2>18 DEF Visible, Lifecycle!Next
<1> QED BY <1>2, <1>3 DEF MarkRunning

LEMMA TakeSeen ==
  ASSUME Steady, NEW e \in Slots, NEW s \in Students, TakeStudent(e, s)
  PROVE  Visible
<1>1. exec[e].pc \in WorkingPc /\ exec[e].stage[s] = "left" /\ Move(e, s, "fetch") /\ UNCHANGED job
  BY DEF TakeStudent, WorkingPc
<1>2. exec[e].pc # "idle"
  BY <1>1 DEF WorkingPc
<1>3. PICK j \in Jobs : exec[e].job = j
  BY <1>2, SoundOf
<1>4. PICK y : /\ Moves(e, y)
               /\ y.pc = exec[e].pc /\ y.job = exec[e].job /\ y.result = exec[e].result
               /\ y.stage[s] = "fetch" /\ \A i \in Students \ {s} : y.stage[i] = exec[e].stage[i]
  BY <1>1, StageMoves DEF Steady
<1>5. Moves(e, y) /\ y.pc \in WorkingPc /\ y.job = j /\ UNCHANGED Status
  BY <1>1, <1>3, <1>4, RowsUnseen DEF Moves
<1>6. \A i \in Students : y.stage[i] \in OpenStage <=> exec[e].stage[i] \in OpenStage
  BY <1>1, <1>4 DEF OpenStage
<1>7. \A i \in Students : y.result[i] = "FAILURE" <=> exec[e].result[i] = "FAILURE"
  BY <1>4
<1> QED BY <1>1, <1>3, <1>5, <1>6, <1>7, QuietSeen DEF Visible

LEMMA ReturnSeen ==
  ASSUME Steady, NEW e \in Slots, NEW s \in Students, SyncReturns(e, s)
  PROVE  Visible
<1>1. exec[e].stage[s] = "fetch" /\ exec[e].stage[s] \in OpenStage /\ UNCHANGED job
  BY DEF SyncReturns, OpenStage
<1>2. exec[e].pc # "idle"
  BY <1>1 DEF Steady, IdleIsOut
<1>3. exec[e].job \in Jobs /\ SlotOK(exec[e], job[exec[e].job].status, item[exec[e].job])
      /\ exec[e] \in Execution
  BY <1>2, SoundOf
<1>4. exec[e].pc \in WorkingPc /\ exec[e].result[s] = "none"
  BY <1>1, <1>3 DEF SlotOK, WorkingPc
<1>5. PICK j \in Jobs : exec[e].job = j
  BY <1>3
<1>6. UNCHANGED Status
  BY <1>1, RowsUnseen
<1>7. CASE Move(e, s, "done")
  <2>1. PICK y : /\ Moves(e, y)
                 /\ y.pc = exec[e].pc /\ y.job = exec[e].job /\ y.result = exec[e].result
                 /\ y.stage[s] = "done" /\ \A i \in Students \ {s} : y.stage[i] = exec[e].stage[i]
    BY <1>7, StageMoves DEF Steady
  <2>2. Moves(e, y) /\ y.pc \in WorkingPc /\ y.job = j /\ y.stage[s] \notin OpenStage
    BY <1>4, <1>5, <2>1 DEF Moves, OpenStage
  <2>3. Lifecycle!Settle(j, s)
    BY <1>1, <1>4, <1>5, <1>6, <2>1, <2>2, SettleSeen
  <2> QED BY <2>3 DEF Visible, Lifecycle!Next
<1>8. ASSUME NEW o \in Outcomes, exec' = [exec EXCEPT ![e] = Returned(@, s, o)] PROVE Visible
  <2>1. PICK y : y = Returned(exec[e], s, o)
    OBVIOUS
  <2>2. Moves(e, y)
    BY <1>8, <2>1 DEF Moves
  <2>3. /\ y.pc = exec[e].pc /\ y.job = exec[e].job /\ y.stage[s] = "item" /\ y.result[s] = o
        /\ \A i \in Students \ {s} : y.stage[i] = exec[e].stage[i] /\ y.result[i] = exec[e].result[i]
    BY <1>3, <2>1, ResultMoves
  <2>4. Moves(e, y) /\ y.pc \in WorkingPc /\ y.job = j
    BY <1>4, <1>5, <2>2, <2>3 DEF Moves
  <2>5. \A i \in Students : y.stage[i] \in OpenStage <=> exec[e].stage[i] \in OpenStage
    BY <1>1, <2>3 DEF OpenStage
  <2>6. CASE o = "FAILURE"
    <3>1. Lifecycle!Learn(j, s)
      BY <1>1, <1>4, <1>5, <1>6, <2>3, <2>4, <2>5, <2>6, LearnSeen
    <3> QED BY <3>1 DEF Visible, Lifecycle!Next
  <2>7. CASE o # "FAILURE"
    <3>1. \A i \in Students : y.result[i] = "FAILURE" <=> exec[e].result[i] = "FAILURE"
      BY <1>4, <2>3, <2>7
    <3> QED BY <1>4, <1>5, <1>6, <2>4, <2>5, <3>1, QuietSeen DEF Visible
  <2> QED BY <2>6, <2>7
<1> QED BY <1>7, <1>8 DEF SyncReturns

LEMMA StageSeen ==
  ASSUME Steady, NEW e \in Slots, NEW s \in Students, UNCHANGED Status,
         exec[e].stage[s] \in {"item", "count"},
         Move(e, s, "count") \/ Move(e, s, "done")
  PROVE  Visible
<1>1. exec[e].stage[s] \in OpenStage
  BY DEF OpenStage
<1>2. exec[e].pc # "idle"
  BY DEF Steady, IdleIsOut
<1>3. exec[e].job \in Jobs /\ SlotOK(exec[e], job[exec[e].job].status, item[exec[e].job])
  BY <1>2, SoundOf
<1>4. exec[e].pc \in WorkingPc
  BY <1>1, <1>3 DEF SlotOK, WorkingPc
<1>5. PICK j \in Jobs : exec[e].job = j
  BY <1>3
<1>6. PICK st \in {"count", "done"} : Move(e, s, st)
  OBVIOUS
<1>7. PICK y : /\ Moves(e, y)
               /\ y.pc = exec[e].pc /\ y.job = exec[e].job /\ y.result = exec[e].result
               /\ y.stage[s] = st /\ \A i \in Students \ {s} : y.stage[i] = exec[e].stage[i]
  BY <1>6, StageMoves DEF Steady
<1>8. Moves(e, y) /\ y.pc \in WorkingPc /\ y.job = j
  BY <1>4, <1>5, <1>7 DEF Moves
<1>9. CASE st = "count"
  <2>1. \A i \in Students : y.stage[i] \in OpenStage <=> exec[e].stage[i] \in OpenStage
    BY <1>1, <1>7, <1>9 DEF OpenStage
  <2>2. \A i \in Students : y.result[i] = "FAILURE" <=> exec[e].result[i] = "FAILURE"
    BY <1>7
  <2> QED BY <1>4, <1>5, <1>8, <2>1, <2>2, QuietSeen DEF Visible
<1>10. CASE st = "done"
  <2>1. y.stage[s] \notin OpenStage
    BY <1>7, <1>10 DEF OpenStage
  <2>2. Lifecycle!Settle(j, s)
    BY <1>1, <1>4, <1>5, <1>7, <1>8, <2>1, SettleSeen
  <2> QED BY <2>2 DEF Visible, Lifecycle!Next
<1> QED BY <1>9, <1>10

LEMMA CountSeen ==
  ASSUME Steady, NEW e \in Slots, NEW s \in Students, CountStudent(e, s)
  PROVE  Visible
<1>1. exec[e].stage[s] \in {"item", "count"} /\ Move(e, s, "done")
  BY DEF CountStudent
<1>2. job \in [Jobs -> JobRow]
  BY DEF Steady, TypeOK
<1>3. ASSUME NEW o, job' = [job EXCEPT ![exec[e].job] = Counted(@, o)], NEW k \in Jobs
      PROVE  job'[k].status = job[k].status
  BY <1>2, <1>3 DEF JobRow, Counted
<1>4. UNCHANGED Status
  BY <1>3 DEF CountStudent, Status
<1> QED BY <1>1, <1>4, StageSeen

(* The end of the pool and of the derived writes.                           *)
LEMMA GoOnSeen ==
  ASSUME Steady, NEW e \in Slots, exec[e].pc \in WorkingPc, UNCHANGED job,
         NEW pc \in {"derive", "finish", "catch"}, Goto(e, pc)
  PROVE  Visible
<1>1. exec[e].pc # "idle"
  BY DEF WorkingPc
<1>2. PICK j \in Jobs : exec[e].job = j
  BY <1>1, SoundOf
<1>3. PICK y : /\ Moves(e, y)
               /\ y.pc = pc /\ y.job = exec[e].job /\ y.stage = exec[e].stage /\ y.result = exec[e].result
  BY GotoMoves DEF Steady
<1>4. Moves(e, y) /\ y.pc \in WorkingPc /\ y.job = j /\ UNCHANGED Status
  BY <1>2, <1>3, RowsUnseen DEF Moves, WorkingPc
<1>5. \A i \in Students : /\ y.stage[i] \in OpenStage <=> exec[e].stage[i] \in OpenStage
                          /\ y.result[i] = "FAILURE" <=> exec[e].result[i] = "FAILURE"
  BY <1>3
<1> QED BY <1>2, <1>4, <1>5, QuietSeen DEF Visible

(* A run that gives up the job without a verdict. *)
LEMMA LostSeen ==
  ASSUME Steady, NEW e \in Slots, exec[e].pc \in WorkingPc, UNCHANGED job,
         Goto(e, "reject") \/ exec' = [exec EXCEPT ![e] = Idle]
  PROVE  Visible
<1>1. exec[e].pc # "idle"
  BY DEF WorkingPc
<1>2. PICK j \in Jobs : exec[e].job = j
  BY <1>1, SoundOf
<1>3. PICK y : /\ Moves(e, y)
               /\ y.pc \notin WorkingPc /\ (y.pc # "idle" => y.job = exec[e].job)
  <2>1. CASE Goto(e, "reject")
    <3>1. PICK y : Moves(e, y) /\ y.pc = "reject" /\ y.job = exec[e].job
      BY <2>1, GotoMoves DEF Steady
    <3>2. y.pc \notin WorkingPc
      BY <3>1 DEF WorkingPc
    <3> QED BY <3>1, <3>2
  <2>2. CASE exec' = [exec EXCEPT ![e] = Idle]
    <3>1. Idle.pc = "idle" /\ Idle.pc \notin WorkingPc
      BY DEF Idle, WorkingPc
    <3>2. Moves(e, Idle)
      BY <2>2 DEF Moves
    <3> QED BY <3>1, <3>2
  <2> QED BY <2>1, <2>2
<1>4. Moves(e, y) /\ (y.pc # "idle" => y.job = j)
  BY <1>2, <1>3 DEF Moves
<1>5. Lifecycle!Release(j)
  BY <1>2, <1>3, <1>4, StopSeen
<1>6. Lifecycle!Lose(j)
  BY <1>5, RowsUnseen DEF Lifecycle!Lose
<1> QED BY <1>6 DEF Visible, Lifecycle!Next

(* A run that writes its last status. *)
LEMMA EndSeen ==
  ASSUME Steady, NEW e \in Slots, exec[e].pc \in {"finish", "catch"}, NEW st,
         job' = [job EXCEPT ![exec[e].job].status = st], Goto(e, "ack"),
         st = FinalStatus(e) \/ st = "FAILED"
  PROVE  Visible
<1>1. exec[e].pc \in WorkingPc /\ exec[e].pc # "idle" /\ exec[e].pc # "pool"
  BY DEF WorkingPc
<1>2. exec[e].job \in Jobs /\ SlotOK(exec[e], job[exec[e].job].status, item[exec[e].job])
  BY <1>1, SoundOf
<1>3. PICK j \in Jobs : exec[e].job = j
  BY <1>2
<1>4. TypeOK /\ Delivery
  BY DEF Steady
<1>5. job' = [job EXCEPT ![j].status = st]
  BY <1>3
<1>6. job'[j].status = st /\ \A k \in Jobs \ {j} : job'[k] = job[k]
  BY <1>4, <1>5, StatusMoves
<1>7. Status' = [Status EXCEPT ![j] = st]
  BY <1>4, <1>6, StatusSeen
<1>8. PICK y : Moves(e, y) /\ y.pc = "ack" /\ y.job = exec[e].job
  BY <1>4, GotoMoves
<1>9. Moves(e, y) /\ y.pc \notin WorkingPc /\ (y.pc # "idle" => y.job = j)
  BY <1>3, <1>8 DEF Moves, WorkingPc
<1>10. Lifecycle!Release(j)
  BY <1>1, <1>3, <1>9, StopSeen
<1>11. /\ Owed[j] = {s \in Students : exec[e].pc \in WorkingPc /\ exec[e].stage[s] \in OpenStage}
       /\ Failures[j] = {s \in Students : exec[e].pc \in WorkingPc /\ exec[e].result[s] = "FAILURE"}
  BY <1>3, <1>4, SlotHeld
<1>12. Owed[j] = {}
  BY <1>1, <1>2, <1>11 DEF SlotOK
<1>13. CASE st = "FAILED"
  <2>1. Lifecycle!Abort(j)
    BY <1>7, <1>10, <1>12, <1>13 DEF Lifecycle!Abort
  <2> QED BY <2>1 DEF Visible, Lifecycle!Next
<1>14. CASE st = FinalStatus(e)
  <2>1. Failures[j] = Ran(e, "FAILURE")
    BY <1>1, <1>11 DEF Ran
  <2>2. st = IF Failures[j] = {} THEN "COMPLETED" ELSE "COMPLETED_WITH_ERRORS"
    BY <1>14, <2>1 DEF FinalStatus
  <2>3. Status' = [Status EXCEPT ![j] = IF Failures[j] = {} THEN "COMPLETED" ELSE "COMPLETED_WITH_ERRORS"]
    BY <1>7, <2>2
  <2>4. Lifecycle!Conclude(j)
    BY <1>10, <1>12, <2>3 DEF Lifecycle!Conclude
  <2> QED BY <2>4 DEF Visible, Lifecycle!Next
<1> QED BY <1>13, <1>14

LEMMA FreeSeen ==
  ASSUME Steady, NEW e \in Slots, exec[e].pc \notin WorkingPc, UNCHANGED job,
         exec' = [exec EXCEPT ![e] = Idle]
  PROVE  Visible
<1>1. Idle.pc \notin WorkingPc
  BY DEF Idle, WorkingPc
<1>2. Moves(e, Idle)
  BY DEF Moves
<1> QED BY <1>1, <1>2, ElsewhereSeen DEF Visible

LEMMA ExecutionSeen ==
  ASSUME Steady, NEW e \in Slots, ExecutionStep(e)
  PROVE  Visible
<1>1. CASE Load(e)
  BY <1>1, LoadSeen DEF Visible
<1>2. CASE MarkRunning(e)
  BY <1>2, MarkSeen
<1>3. CASE PoolDrained(e) \/ Derive(e)
  <2>1. exec[e].pc \in WorkingPc /\ UNCHANGED job
    BY <1>3 DEF PoolDrained, Derive, WorkingPc
  <2>2. \E pc \in {"derive", "finish", "catch"} : Goto(e, pc)
    BY <1>3 DEF PoolDrained, Derive
  <2> QED BY <2>1, <2>2, GoOnSeen
<1>4. CASE Finish(e)
  <2>1. exec[e].pc \in {"finish", "catch"} /\ exec[e].pc \in WorkingPc
    BY <1>4 DEF Finish, WorkingPc
  <2>2. CASE Goto(e, "catch") /\ UNCHANGED job
    BY <2>1, <2>2, GoOnSeen
  <2>3. CASE job' = [job EXCEPT ![exec[e].job].status = FinalStatus(e)] /\ Goto(e, "ack")
    <3>1. PICK st : st = FinalStatus(e)
      OBVIOUS
    <3>2. job' = [job EXCEPT ![exec[e].job].status = st]
      BY <2>3, <3>1
    <3> QED BY <2>1, <2>3, <3>1, <3>2, EndSeen
  <2> QED BY <1>4, <2>2, <2>3 DEF Finish
<1>5. CASE Catch(e)
  <2>1. exec[e].pc \in {"finish", "catch"} /\ exec[e].pc \in WorkingPc
    BY <1>5 DEF Catch, WorkingPc
  <2>2. CASE Goto(e, "reject") /\ UNCHANGED job
    BY <2>1, <2>2, LostSeen
  <2>3. CASE job' = [job EXCEPT ![exec[e].job].status = "FAILED"] /\ Goto(e, "ack")
    BY <2>1, <2>3, EndSeen
  <2> QED BY <1>5, <2>2, <2>3 DEF Catch
<1>6. CASE Ack(e) \/ Reject(e)
  <2>1. exec[e].pc \notin WorkingPc /\ UNCHANGED job /\ exec' = [exec EXCEPT ![e] = Idle]
    BY <1>6 DEF Ack, Reject, WorkingPc
  <2> QED BY <2>1, FreeSeen
<1>7. ASSUME NEW s \in Students, TakeStudent(e, s) \/ SyncReturns(e, s) PROVE Visible
  BY <1>7, TakeSeen, ReturnSeen
<1>8. ASSUME NEW s \in Students, RecordItem(e, s) PROVE Visible
  <2>1. exec[e].stage[s] \in {"item", "count"} /\ (Move(e, s, "count") \/ Move(e, s, "done")) /\ UNCHANGED job
    BY <1>8 DEF RecordItem
  <2> QED BY <2>1, StageSeen, RowsUnseen
<1>9. ASSUME NEW s \in Students, CountStudent(e, s) PROVE Visible
  BY <1>9, CountSeen
<1> QED BY <1>1, <1>2, <1>3, <1>4, <1>5, <1>6, <1>7, <1>8, <1>9 DEF ExecutionStep

LEMMA NextSeen ==
  ASSUME Joint, OneDelivery, [Next]_vars
  PROVE  Visible
<1>1. CASE UNCHANGED vars
  BY <1>1, RowsUnseen DEF vars, Visible, AllSeen
<1>2. CASE Next
  <2>1. Steady
    BY <1>2 DEF Joint, Steady, Next
  <2>2. ASSUME NEW j \in Jobs, NEW ids \in SUBSET Students, Start(j, ids) PROVE Visible
    BY <2>1, <2>2, StartSeen DEF Visible, Lifecycle!Next
  <2>3. ASSUME NEW j \in Jobs, Cancel(j) PROVE Visible
    BY <2>1, <2>3, CancelSeen DEF Visible, Lifecycle!Next
  <2>4. CASE UNCHANGED <<job, exec>>
    BY <2>4, RowsUnseen DEF Visible, AllSeen
  <2>5. ASSUME NEW j \in Jobs, CrashStart(j) \/ Stalled(j) PROVE Visible
    BY <2>4, <2>5 DEF CrashStart, Stalled
  <2>6. ASSUME NEW j \in Jobs, Dispatch(j) PROVE Visible
    <3>1. UNCHANGED job
      BY <2>6 DEF Dispatch
    <3>2. ASSUME NEW e \in Locals, RunInline(e, j) PROVE Visible
      BY <2>1, <3>1, <3>2, CalledSeen DEF RunInline, Slots, Visible
    <3> QED BY <2>4, <2>6, <3>1, <3>2 DEF Dispatch
  <2>7. ASSUME NEW w \in Workers, NEW j \in Jobs, Deliver(w, j) PROVE Visible
    BY <2>1, <2>7, CalledSeen DEF Deliver, Slots, Visible
  <2>8. ASSUME NEW e \in Slots, CrashExecution(e) PROVE Visible
    <3>1. UNCHANGED job /\ exec' = [exec EXCEPT ![e] = Idle]
      BY <2>8 DEF CrashExecution
    <3> QED BY <2>1, <3>1, LostSeen, FreeSeen
  <2>9. ASSUME NEW e \in Slots, ExecutionStep(e) PROVE Visible
    BY <2>1, <2>9, ExecutionSeen
  <2> QED BY <1>2, <2>2, <2>3, <2>5, <2>6, <2>7, <2>8, <2>9 DEF Next, QueueStep
<1> QED BY <1>1, <1>2

LEMMA InitSeen == Init => Lifecycle!Init
<1> SUFFICES ASSUME Init PROVE Lifecycle!Init
  OBVIOUS
<1>1. \A j \in Jobs : Working(j) = {}
  BY DEF Init, Working, Idle
<1>2. \A j \in Jobs : job[j].status = "NONE"
  BY DEF Init, NoRow
<1>3. /\ Status = [j \in Jobs |-> "NONE"] /\ Held = [j \in Jobs |-> FALSE]
      /\ Owed = [j \in Jobs |-> {}] /\ Failures = [j \in Jobs |-> {}]
  BY <1>1, <1>2 DEF Status, Held, Owed, Failures
<1> QED BY <1>3 DEF Lifecycle!Init

(* Whatever the number of jobs, students, workers and processes, and        *)
(* through crashes, redeliveries, cancels and failing database calls, the   *)
(* queue, the pool and the memory of the processes implement JobLifecycle,  *)
(* as long as the broker has a job in one place at a time.                  *)
THEOREM Implements == Spec /\ OneDelivery => ImplementsLifecycle
<1>1. Init => Lifecycle!Init
  BY InitSeen
<1>2. Joint /\ OneDelivery /\ [Next]_vars => [Lifecycle!Next]_(Lifecycle!vars)
  BY NextSeen DEF Visible, AllSeen, Lifecycle!vars
<1>3. OneDelivery /\ [Next]_vars => OneDelivery'
  BY DEF OneDelivery, Next, vars
<1> QED BY <1>1, <1>2, <1>3, JointAlways, PTL DEF Spec, ImplementsLifecycle, Lifecycle!Spec

-----------------------------------------------------------------------------
(* The counters.  Where nothing goes wrong but the enqueue, a job is run    *)
(* once: until then its row is QUEUED with counters at zero, while it runs  *)
(* they count the students its pool has done, and the run ends with all of  *)
(* them done.                                                               *)
Calm == env.crashes = 0 /\ env.faults \subseteq {"queue"}

DoneIn(x) == {s \in Students : x.stage[s] = "done"}
DoneAs(x, o) == {s \in Students : x.stage[s] = "done" /\ x.result[s] = o}
With(it, o) == {s \in Students : it[s].status = o}

Tallied(row, n, ok, bad, skip) ==
    row.processed = n /\ row.succeeded = ok /\ row.failed = bad /\ row.skipped = skip

SlotCounts(x, row) ==
    /\ x.pc \notin {"catch", "reject"}
    /\ x.pc \in {"load", "mark"} => row.status = "QUEUED"
    /\ x.pc \in WorkingPc =>
          Tallied(row, Cardinality(DoneIn(x)), Cardinality(DoneAs(x, "OK")),
                  Cardinality(DoneAs(x, "FAILURE")), Cardinality(DoneAs(x, "SKIPPED")))

RowCounts(row, it) ==
    /\ row.status = "QUEUED" => Tallied(row, 0, 0, 0, 0)
    /\ row.status # "NONE" => row.total = Cardinality({s \in Students : it[s].status # "ABSENT"})
    /\ row.status \in {"COMPLETED", "COMPLETED_WITH_ERRORS"} =>
          Tallied(row, row.total, Cardinality(With(it, "OK")),
                  Cardinality(With(it, "FAILURE")), Cardinality(With(it, "SKIPPED")))

(* Whoever has yet to run the job finds it QUEUED; a worker has its message. *)
Pending(j) ==
    /\ j \in creating \/ msg[j].at = "waiting" => job[j].status = "QUEUED"
    /\ \A w \in Workers : msg[j].at = w => exec[w].job = j

Exact ==
    Calm =>
        /\ \A e \in Slots : exec[e].pc # "idle" => SlotCounts(exec[e], job[exec[e].job])
        /\ \A j \in Jobs : Pending(j) /\ RowCounts(job[j], item[j])

CalmSteady == Steady /\ Calm /\ Exact

LEMMA CalmIs ==
  ASSUME CalmSteady
  PROVE  /\ TypeOK /\ Delivery /\ BusyHasJob /\ OneDelivery /\ Reliable /\ Calm'
         /\ \A f \in {"cancel", "db", "lostReply", "stall"} : f \notin env.faults
         /\ ~ Crash
<1>1. \A f \in {"cancel", "db", "lostReply", "stall"} : f \notin env.faults
  BY DEF CalmSteady, Calm
<1>2. Calm'
  BY DEF CalmSteady, Calm, Steady
<1>3. TypeOK /\ Delivery /\ BusyHasJob /\ OneDelivery
  BY DEF CalmSteady, Steady
<1>4. crashes \in Int /\ crashes <= env.crashes /\ 0 <= crashes
  BY <1>3, SyncJobsAssumption DEF TypeOK, Environment
<1>5. ~ Crash
  BY <1>4 DEF CalmSteady, Calm, Crash
<1> QED BY <1>1, <1>2, <1>3, <1>5 DEF Reliable

(* One slot moves, on its own job. *)
LEMMA ExactMoves ==
  ASSUME CalmSteady, NEW e \in Slots, NEW y, Moves(e, y), NEW j \in Jobs, exec[e].job = j,
         y.pc # "idle" => y.job = j, UNCHANGED creating,
         \A k \in Jobs \ {j} : job'[k] = job[k] /\ item'[k] = item[k] /\ msg'[k] = msg[k],
         y.pc # "idle" => SlotCounts(y, job'[j]) /\ msg'[j] = msg[j],
         y.pc = "idle" => msg'[j].at = "none",
         RowCounts(job'[j], item'[j])
  PROVE  Exact'
<1> USE CalmIs
<1>1. exec'[e] = y /\ \A d \in Slots \ {e} : exec'[d] = exec[d]
  BY DEF TypeOK, Moves
<1>2. ASSUME NEW d \in Slots, exec'[d].pc # "idle" PROVE SlotCounts(exec'[d], job'[exec'[d].job])
  <2>1. CASE d = e
    BY <1>1, <1>2, <2>1
  <2>2. CASE d # e
    <3>1. exec'[d] = exec[d] /\ exec[d].job \in Jobs
      BY <1>1, <1>2, <2>2 DEF BusyHasJob
    <3>2. exec[d].job # j
      BY <2>2, OnlySlot
    <3>3. job'[exec[d].job] = job[exec[d].job]
      BY <3>1, <3>2
    <3>4. SlotCounts(exec[d], job[exec[d].job])
      BY <1>2, <3>1 DEF CalmSteady, Exact
    <3> QED BY <3>1, <3>3, <3>4
  <2> QED BY <2>1, <2>2
<1>3. ASSUME NEW k \in Jobs PROVE RowCounts(job'[k], item'[k])
  <2>1. CASE k = j
    BY <2>1
  <2>2. CASE k # j
    BY <2>2 DEF CalmSteady, Exact
  <2> QED BY <2>1, <2>2
<1>4. ASSUME NEW k \in Jobs PROVE Pending(k)'
  <2>1. Pending(k) /\ OnePlace(k)
    BY DEF CalmSteady, Exact, Delivery
  <2>2. CASE k # j
    <3>1. msg'[k] = msg[k] /\ job'[k] = job[k]
      BY <2>2
    <3>2. \A w \in Workers : msg[k].at = w => exec'[w].job = k
      BY <1>1, <2>1, <2>2 DEF Pending, Slots
    <3> QED BY <2>1, <3>1, <3>2 DEF Pending
  <2>3. CASE k = j
    <3>1. ~ Unheld(j) /\ j \notin creating /\ msg[j].at # "waiting"
      BY <2>1, <2>3 DEF Unheld, OnePlace
    <3>2. CASE y.pc = "idle"
      BY <2>3, <3>1, <3>2, SyncJobsAssumption DEF Pending
    <3>3. CASE y.pc # "idle"
      <4>1. \A w \in Workers : msg[j].at = w => exec'[w].job = j
        BY <1>1, <2>1, <2>3, <3>3 DEF Pending, Slots
      <4> QED BY <2>3, <3>1, <3>3, <4>1 DEF Pending
    <3> QED BY <3>2, <3>3
  <2> QED BY <2>2, <2>3
<1> QED BY <1>2, <1>3, <1>4 DEF Exact

(* The steps before a job is executed. *)
LEMMA StartExact ==
  ASSUME CalmSteady, NEW j \in Jobs, NEW ids \in SUBSET Students, Start(j, ids)
  PROVE  Exact'
<1> USE CalmIs
<1>1. /\ job[j].status = "NONE" /\ UNCHANGED <<exec, msg>> /\ creating' = creating \cup {j}
      /\ job' = [job EXCEPT ![j] = [NoRow EXCEPT !.status = "QUEUED", !.total = Cardinality(ids)]]
      /\ item' = [item EXCEPT ![j] = [s \in Students |-> IF s \in ids
                                         THEN [NoItem EXCEPT !.status = "NEVER_SYNCED"] ELSE NoItem]]
  BY DEF Start
<1>2. \A k \in Jobs \ {j} : job'[k] = job[k] /\ item'[k] = item[k]
  BY <1>1 DEF TypeOK
<1>3. job'[j] = [NoRow EXCEPT !.status = "QUEUED", !.total = Cardinality(ids)]
  BY <1>1 DEF TypeOK
<1>4. job'[j].status = "QUEUED" /\ job'[j].total = Cardinality(ids) /\ Tallied(job'[j], 0, 0, 0, 0)
  BY <1>3 DEF NoRow, Tallied
<1>5. \A s \in Students : item'[j][s].status # "ABSENT" <=> s \in ids
  BY <1>1 DEF TypeOK, NoItem
<1>6. {s \in Students : item'[j][s].status # "ABSENT"} = ids
  BY <1>5
<1>7. RowCounts(job'[j], item'[j])
  BY <1>4, <1>6 DEF RowCounts
<1>8. OnePlace(j)
  BY DEF Delivery
<1>9. ASSUME NEW e \in Slots, exec[e].pc # "idle" PROVE SlotCounts(exec[e], job'[exec[e].job])
  <2>1. exec[e].job \in Jobs \ {j}
    BY <1>1, <1>8, <1>9 DEF OnePlace, Unheld, BusyHasJob
  <2>2. job'[exec[e].job] = job[exec[e].job]
    BY <1>2, <2>1
  <2> QED BY <1>9, <2>2 DEF CalmSteady, Exact
<1>10. ASSUME NEW k \in Jobs PROVE Pending(k)' /\ RowCounts(job'[k], item'[k])
  <2>1. Pending(k) /\ RowCounts(job[k], item[k])
    BY DEF CalmSteady, Exact
  <2>2. CASE k = j
    BY <1>1, <1>4, <1>7, <2>1, <2>2 DEF Pending
  <2>3. CASE k # j
    BY <1>1, <1>2, <2>1, <2>3 DEF Pending
  <2> QED BY <2>2, <2>3
<1> QED BY <1>1, <1>9, <1>10 DEF Exact

LEMMA CalledExact ==
  ASSUME CalmSteady, NEW e \in Slots, NEW j \in Jobs, Moves(e, Called(j)), exec[e].pc = "idle",
         UNCHANGED <<job, item>>, creating' \subseteq creating, job[j].status = "QUEUED",
         \A k \in Jobs \ {j} : msg'[k] = msg[k], msg'[j].at \in {"none", e}
  PROVE  Exact'
<1> USE CalmIs
<1>1. exec'[e] = Called(j) /\ \A d \in Slots \ {e} : exec'[d] = exec[d]
  BY DEF TypeOK, Moves
<1>2. Called(j).pc = "load" /\ Called(j).job = j
  BY DEF Called, Idle
<1>3. SlotCounts(Called(j), job[j])
  BY <1>2 DEF SlotCounts, WorkingPc
<1>4. ASSUME NEW d \in Slots, exec'[d].pc # "idle" PROVE SlotCounts(exec'[d], job'[exec'[d].job])
  <2>1. CASE d = e
    BY <1>1, <1>2, <1>3, <2>1
  <2>2. CASE d # e
    BY <1>1, <1>4, <2>2 DEF CalmSteady, Exact
  <2> QED BY <2>1, <2>2
<1>5. exec[e].job = None
  BY DEF Delivery, IdleIsFree
<1>6. ASSUME NEW k \in Jobs PROVE Pending(k)' /\ RowCounts(job'[k], item'[k])
  <2>1. Pending(k) /\ RowCounts(job[k], item[k])
    BY DEF CalmSteady, Exact
  <2>2. CASE k = j
    BY <1>1, <1>2, <2>1, <2>2, SyncJobsAssumption DEF Pending, Slots
  <2>3. CASE k # j
    BY <1>1, <1>5, <2>1, <2>3, SyncJobsAssumption DEF Pending, Slots
  <2> QED BY <2>2, <2>3
<1> QED BY <1>4, <1>6 DEF Exact

LEMMA QueuedExact ==
  ASSUME CalmSteady, UNCHANGED <<job, item, exec>>, creating' \subseteq creating,
         \A k \in Jobs : \/ msg'[k] = msg[k]
                         \/ msg'[k].at = "waiting" /\ job[k].status = "QUEUED"
  PROVE  Exact'
<1> USE CalmIs
<1>1. ASSUME NEW k \in Jobs PROVE Pending(k)' /\ RowCounts(job'[k], item'[k])
  <2>1. Pending(k) /\ RowCounts(job[k], item[k])
    BY DEF CalmSteady, Exact
  <2> QED BY <2>1, SyncJobsAssumption DEF Pending
<1> QED BY <1>1 DEF Exact, CalmSteady

LEMMA QueueExact ==
  ASSUME CalmSteady, QueueStep
  PROVE  Exact'
<1> USE CalmIs
<1>1. ASSUME NEW j \in Jobs, Dispatch(j) PROVE Exact'
  <2>1. /\ j \in creating /\ creating' \subseteq creating /\ UNCHANGED <<job, item>>
        /\ Pending(j) /\ OnePlace(j)
    BY <1>1 DEF Dispatch, CalmSteady, Exact, Delivery
  <2>2. job[j].status = "QUEUED" /\ msg[j].at = "none"
    BY <2>1 DEF Pending, OnePlace
  <2>3. ASSUME NEW e \in Locals, RunInline(e, j), UNCHANGED msg PROVE Exact'
    <3>1. Moves(e, Called(j)) /\ exec[e].pc = "idle" /\ e \in Slots
      BY <2>3 DEF RunInline, Moves, Slots
    <3> QED BY <2>1, <2>2, <2>3, <3>1, CalledExact
  <2>4. CASE Enqueue(j) /\ UNCHANGED exec
    <3>1. msg'[j].at = "waiting" /\ \A k \in Jobs \ {j} : msg'[k] = msg[k]
      BY <2>4 DEF Enqueue, TypeOK, Message
    <3> QED BY <2>1, <2>2, <2>4, <3>1, QueuedExact
  <2> QED BY <1>1, <2>3, <2>4 DEF Dispatch
<1>2. ASSUME NEW j \in Jobs, Stalled(j) PROVE FALSE
  BY <1>2 DEF Stalled, CalmSteady, Exact, Pending
<1>3. ASSUME NEW w \in Workers, NEW j \in Jobs, Deliver(w, j) PROVE Exact'
  <2>1. Pending(j)
    BY DEF CalmSteady, Exact
  <2>2. job[j].status = "QUEUED" /\ creating' = creating /\ UNCHANGED <<job, item>>
    BY <1>3, <2>1 DEF Deliver, Pending
  <2>3. msg'[j].at = w /\ \A k \in Jobs \ {j} : msg'[k] = msg[k]
    BY <1>3 DEF Deliver, TypeOK, Message
  <2>4. Moves(w, Called(j)) /\ exec[w].pc = "idle" /\ w \in Slots
    BY <1>3 DEF Deliver, Moves, Slots
  <2> QED BY <2>2, <2>3, <2>4, CalledExact
<1> QED BY <1>1, <1>2, <1>3 DEF QueueStep

(* What an execution is known to be.  *)
LEMMA ExactOf ==
  ASSUME CalmSteady, NEW e \in Slots, exec[e].pc # "idle"
  PROVE  \E j \in Jobs : /\ exec[e].job = j /\ exec[e] \in Execution
                         /\ SlotOK(exec[e], job[j].status, item[j]) /\ Answered(exec[e], item[j])
                         /\ SlotCounts(exec[e], job[j]) /\ RowCounts(job[j], item[j])
<1> USE CalmIs
<1>1. Steady
  BY DEF CalmSteady
<1>2. /\ exec[e].job \in Jobs /\ exec[e] \in Execution
      /\ SlotOK(exec[e], job[exec[e].job].status, item[exec[e].job])
      /\ Answered(exec[e], item[exec[e].job])
  BY <1>1, SoundOf
<1>3. SlotCounts(exec[e], job[exec[e].job]) /\ RowCounts(job[exec[e].job], item[exec[e].job])
  BY <1>2 DEF CalmSteady, Exact
<1> QED BY <1>2, <1>3

(* The rows stay as they are, and the execution goes on. *)
LEMMA RowsExact ==
  ASSUME CalmSteady, NEW e \in Slots, NEW y, Moves(e, y), NEW j \in Jobs, exec[e].job = j,
         y.pc # "idle", y.job = j, UNCHANGED <<job, item, creating, msg>>, SlotCounts(y, job[j])
  PROVE  Exact'
<1>1. RowCounts(job[j], item[j])
  BY DEF CalmSteady, Exact
<1>2. \A k \in Jobs \ {j} : job'[k] = job[k] /\ item'[k] = item[k] /\ msg'[k] = msg[k]
  OBVIOUS
<1>3. SlotCounts(y, job'[j]) /\ RowCounts(job'[j], item'[j]) /\ msg'[j] = msg[j]
  BY <1>1
<1> QED BY <1>2, <1>3, ExactMoves

LEMMA SameDone ==
  ASSUME NEW x, NEW y,
         \A s \in Students : y.stage[s] = "done" <=> x.stage[s] = "done",
         \A s \in Students : x.stage[s] = "done" => y.result[s] = x.result[s]
  PROVE  DoneIn(y) = DoneIn(x) /\ \A o : DoneAs(y, o) = DoneAs(x, o)
  BY DEF DoneIn, DoneAs

LEMMA SameCounts ==
  ASSUME NEW x, NEW y, NEW row, SlotCounts(x, row), x.pc \in WorkingPc,
         y.pc \notin {"load", "mark", "catch", "reject"},
         \A s \in Students : y.stage[s] = "done" <=> x.stage[s] = "done",
         \A s \in Students : x.stage[s] = "done" => y.result[s] = x.result[s]
  PROVE  SlotCounts(y, row)
<1>1. DoneIn(y) = DoneIn(x) /\ \A o : DoneAs(y, o) = DoneAs(x, o)
  BY SameDone
<1>2. Tallied(row, Cardinality(DoneIn(x)), Cardinality(DoneAs(x, "OK")),
              Cardinality(DoneAs(x, "FAILURE")), Cardinality(DoneAs(x, "SKIPPED")))
  BY DEF SlotCounts
<1>3. Tallied(row, Cardinality(DoneIn(y)), Cardinality(DoneAs(y, "OK")),
              Cardinality(DoneAs(y, "FAILURE")), Cardinality(DoneAs(y, "SKIPPED")))
  BY <1>1, <1>2
<1> QED BY <1>3 DEF SlotCounts

LEMMA LoadExact ==
  ASSUME CalmSteady, NEW e \in Slots, Load(e)
  PROVE  Exact'
<1>1. exec[e].pc = "load" /\ UNCHANGED <<job, item, creating, msg>>
  BY DEF Load
<1>2. PICK j \in Jobs : /\ exec[e].job = j /\ SlotCounts(exec[e], job[j])
  BY <1>1, ExactOf
<1>3. PICK pc \in {"ack", "mark"} : Goto(e, pc)
  BY CalmIs DEF Load
<1>4. TypeOK
  BY CalmIs
<1>5. PICK y : Moves(e, y) /\ y.pc = pc /\ y.job = exec[e].job
  BY <1>3, <1>4, GotoMoves
<1>6. SlotCounts(y, job[j])
  BY <1>1, <1>2, <1>5 DEF SlotCounts, WorkingPc
<1> QED BY <1>1, <1>2, <1>5, <1>6, RowsExact

(* A write of the status column leaves the counters alone. *)
LEMMA StatusCounts ==
  ASSUME TypeOK, NEW j \in Jobs, NEW st, job' = [job EXCEPT ![j].status = st]
  PROVE  /\ job'[j].status = st /\ job'[j].total = job[j].total
         /\ \A n, ok, bad, skip : Tallied(job[j], n, ok, bad, skip) => Tallied(job'[j], n, ok, bad, skip)
         /\ \A k \in Jobs \ {j} : job'[k] = job[k]
<1>1. job[j] \in JobRow /\ job' = [job EXCEPT ![j] = [job[j] EXCEPT !.status = st]]
  BY DEF TypeOK
<1> QED BY <1>1 DEF TypeOK, JobRow, Tallied

LEMMA MarkExact ==
  ASSUME CalmSteady, NEW e \in Slots, MarkRunning(e)
  PROVE  Exact'
<1>1. /\ exec[e].pc = "mark" /\ UNCHANGED <<item, creating, msg>>
      /\ job' = [job EXCEPT ![exec[e].job].status = "RUNNING"] /\ exec' = [exec EXCEPT ![e] = Begun(@)]
  BY CalmIs DEF MarkRunning
<1>2. PICK j \in Jobs : /\ exec[e].job = j /\ SlotCounts(exec[e], job[j]) /\ RowCounts(job[j], item[j])
  BY <1>1, ExactOf
<1>3. TypeOK
  BY CalmIs
<1>4. PICK y : /\ Moves(e, y)
               /\ y.pc = "pool" /\ y.job = exec[e].job
               /\ \A s \in Students : y.stage[s] = IF s \in Targets(exec[e].job) THEN "left" ELSE "out"
  BY <1>1, <1>3, BeginMoves
<1>5. DoneIn(y) = {} /\ \A o : DoneAs(y, o) = {}
  BY <1>4 DEF DoneIn, DoneAs
<1>6. Cardinality(DoneIn(y)) = 0 /\ \A o : Cardinality(DoneAs(y, o)) = 0
  BY <1>5, FS_EmptySet
<1>7. job[j].status = "QUEUED" /\ Tallied(job[j], 0, 0, 0, 0)
  BY <1>1, <1>2 DEF SlotCounts, RowCounts
<1>8. job' = [job EXCEPT ![j].status = "RUNNING"]
  BY <1>1, <1>2
<1>9. /\ job'[j].status = "RUNNING" /\ job'[j].total = job[j].total /\ Tallied(job'[j], 0, 0, 0, 0)
      /\ \A k \in Jobs \ {j} : job'[k] = job[k]
  BY <1>3, <1>7, <1>8, StatusCounts
<1>10. SlotCounts(y, job'[j])
  BY <1>4, <1>6, <1>9 DEF SlotCounts
<1>11. RowCounts(job'[j], item'[j])
  BY <1>1, <1>2, <1>7, <1>9 DEF RowCounts
<1>12. \A k \in Jobs \ {j} : job'[k] = job[k] /\ item'[k] = item[k] /\ msg'[k] = msg[k]
  BY <1>1, <1>9
<1>13. y.pc # "idle" /\ y.job = j /\ msg'[j] = msg[j] /\ UNCHANGED creating
  BY <1>1, <1>2, <1>4
<1> QED BY <1>2, <1>4, <1>10, <1>11, <1>12, <1>13, ExactMoves

LEMMA TakeExact ==
  ASSUME CalmSteady, NEW e \in Slots, NEW s \in Students, TakeStudent(e, s)
  PROVE  Exact'
<1>1. /\ exec[e].pc = "pool" /\ exec[e].stage[s] = "left" /\ Move(e, s, "fetch")
      /\ UNCHANGED <<job, item, creating, msg>>
  BY DEF TakeStudent
<1>2. PICK j \in Jobs : /\ exec[e].job = j /\ SlotCounts(exec[e], job[j])
  BY <1>1, ExactOf
<1>3. TypeOK
  BY CalmIs
<1>4. PICK y : /\ Moves(e, y)
               /\ y.pc = exec[e].pc /\ y.job = exec[e].job /\ y.result = exec[e].result
               /\ y.stage[s] = "fetch" /\ \A i \in Students \ {s} : y.stage[i] = exec[e].stage[i]
  BY <1>1, <1>3, StageMoves
<1>5. \A i \in Students : y.stage[i] = "done" <=> exec[e].stage[i] = "done"
  BY <1>1, <1>4
<1>6. exec[e].pc \in WorkingPc /\ y.pc \notin {"load", "mark", "catch", "reject"} /\ y.pc # "idle"
  BY <1>1, <1>4 DEF WorkingPc
<1>7. SlotCounts(y, job[j])
  BY <1>2, <1>4, <1>5, <1>6, SameCounts
<1> QED BY <1>1, <1>2, <1>4, <1>6, <1>7, RowsExact

(* A student in the pool is there because the execution runs the pool. *)
LEMMA PoolOf ==
  ASSUME CalmSteady, NEW e \in Slots, NEW s \in Students, exec[e].stage[s] \in OpenStage
  PROVE  exec[e].pc = "pool"
<1>1. exec[e].pc # "idle"
  BY DEF CalmSteady, Steady, IdleIsOut, OpenStage
<1> QED BY <1>1, ExactOf DEF SlotOK

LEMMA ReturnExact ==
  ASSUME CalmSteady, NEW e \in Slots, NEW s \in Students, SyncReturns(e, s)
  PROVE  Exact'
<1>1. /\ exec[e].stage[s] = "fetch" /\ exec[e].stage[s] \in OpenStage
      /\ UNCHANGED <<job, item, creating, msg>>
  BY DEF SyncReturns, OpenStage
<1>2. exec[e].pc = "pool"
  BY <1>1, PoolOf
<1>3. PICK j \in Jobs : exec[e].job = j /\ SlotCounts(exec[e], job[j]) /\ exec[e] \in Execution
  BY <1>2, ExactOf
<1>4. PICK o \in Outcomes : exec' = [exec EXCEPT ![e] = Returned(@, s, o)]
  BY CalmIs DEF SyncReturns
<1>5. PICK y : y = Returned(exec[e], s, o)
  OBVIOUS
<1>6. Moves(e, y)
  BY <1>4, <1>5 DEF Moves
<1>7. /\ y.pc = exec[e].pc /\ y.job = exec[e].job /\ y.stage[s] = "item" /\ y.result[s] = o
      /\ \A i \in Students \ {s} : y.stage[i] = exec[e].stage[i] /\ y.result[i] = exec[e].result[i]
  BY <1>3, <1>5, ResultMoves
<1>8. /\ \A i \in Students : y.stage[i] = "done" <=> exec[e].stage[i] = "done"
      /\ \A i \in Students : exec[e].stage[i] = "done" => y.result[i] = exec[e].result[i]
  BY <1>1, <1>7
<1>9. exec[e].pc \in WorkingPc /\ y.pc \notin {"load", "mark", "catch", "reject"} /\ y.pc # "idle"
  BY <1>2, <1>7 DEF WorkingPc
<1>10. SlotCounts(y, job[j])
  BY <1>3, <1>8, <1>9, SameCounts
<1> QED BY <1>1, <1>3, <1>6, <1>7, <1>9, <1>10, RowsExact

(* The row of a student who was selected keeps being one. *)
LEMMA RecordedRow ==
  ASSUME TypeOK, NEW j \in Jobs, NEW s \in Students, NEW o \in Outcomes,
         item' = [item EXCEPT ![j][s] = Recorded(@, o)]
  PROVE  /\ item'[j][s].status = o
         /\ \A i \in Students \ {s} : item'[j][i] = item[j][i]
         /\ \A k \in Jobs \ {j} : item'[k] = item[k]
<1>1. item[j][s] \in ItemRow
  BY DEF TypeOK
<1>2. PICK row : row = Recorded(item[j][s], o)
  OBVIOUS
<1>3. row.status = o
  BY <1>1, <1>2 DEF Recorded, ItemRow
<1>4. PICK rows : rows = [item[j] EXCEPT ![s] = row]
  OBVIOUS
<1>5. rows[s] = row /\ \A i \in Students \ {s} : rows[i] = item[j][i]
  BY <1>4 DEF TypeOK
<1>6. item' = [item EXCEPT ![j] = rows]
  BY <1>2, <1>4
<1>7. item'[j] = rows /\ \A k \in Jobs \ {j} : item'[k] = item[k]
  BY <1>6 DEF TypeOK
<1> QED BY <1>3, <1>5, <1>7

LEMMA RecordExact ==
  ASSUME CalmSteady, NEW e \in Slots, NEW s \in Students, RecordItem(e, s)
  PROVE  Exact'
<1>1. exec[e].stage[s] = "item" /\ exec[e].stage[s] \in OpenStage /\ UNCHANGED <<job, creating, msg>>
  BY DEF RecordItem, OpenStage
<1>2. exec[e].pc = "pool" /\ exec[e].pc \in WorkingPc
  BY <1>1, PoolOf DEF WorkingPc
<1>3. PICK j \in Jobs : /\ exec[e].job = j /\ exec[e] \in Execution
                        /\ SlotOK(exec[e], job[j].status, item[j])
                        /\ SlotCounts(exec[e], job[j]) /\ RowCounts(job[j], item[j])
  BY <1>2, ExactOf
<1>4. TypeOK
  BY CalmIs
<1>5. exec[e].result[s] \in Outcomes
  BY <1>1 DEF CalmSteady, Steady, OutcomeKnown
<1>6. item' = [item EXCEPT ![exec[e].job][s] = Recorded(@, exec[e].result[s])] /\ Move(e, s, "count")
  BY CalmIs DEF RecordItem
<1>7. PICK o \in Outcomes : o = exec[e].result[s]
  BY <1>5
<1>8. item' = [item EXCEPT ![j][s] = Recorded(@, o)]
  BY <1>3, <1>6, <1>7
<1>9. /\ item'[j][s].status = o
      /\ \A i \in Students \ {s} : item'[j][i] = item[j][i]
      /\ \A k \in Jobs \ {j} : item'[k] = item[k]
  BY <1>4, <1>8, RecordedRow
<1>10. item[j][s].status # "ABSENT" /\ item'[j][s].status # "ABSENT"
  BY <1>1, <1>2, <1>3, <1>9 DEF SlotOK, Outcomes
<1>11. {i \in Students : item'[j][i].status # "ABSENT"} = {i \in Students : item[j][i].status # "ABSENT"}
  BY <1>9, <1>10
<1>12. job[j].status \in {"RUNNING", "CANCELLED"}
  BY <1>2, <1>3 DEF SlotOK
<1>13. RowCounts(job'[j], item'[j])
  BY <1>1, <1>3, <1>11, <1>12 DEF RowCounts
<1>14. PICK y : /\ Moves(e, y)
                /\ y.pc = exec[e].pc /\ y.job = exec[e].job /\ y.result = exec[e].result
                /\ y.stage[s] = "count" /\ \A i \in Students \ {s} : y.stage[i] = exec[e].stage[i]
  BY <1>4, <1>6, StageMoves
<1>15. \A i \in Students : y.stage[i] = "done" <=> exec[e].stage[i] = "done"
  BY <1>1, <1>14
<1>16. y.pc \notin {"load", "mark", "catch", "reject"} /\ y.pc # "idle" /\ y.job = j
  BY <1>2, <1>3, <1>14
<1>17. SlotCounts(y, job[j])
  BY <1>2, <1>3, <1>14, <1>15, <1>16, SameCounts
<1>18. /\ SlotCounts(y, job'[j]) /\ msg'[j] = msg[j] /\ UNCHANGED creating
       /\ \A k \in Jobs \ {j} : job'[k] = job[k] /\ item'[k] = item[k] /\ msg'[k] = msg[k]
  BY <1>1, <1>9, <1>17
<1> QED BY <1>3, <1>13, <1>14, <1>16, <1>18, ExactMoves

(* Counting one student: the sets that are counted grow by him. *)
LEMMA OneMore ==
  ASSUME NEW x, NEW y, NEW s \in Students, x.stage[s] # "done", y.stage[s] = "done",
         \A i \in Students \ {s} : y.stage[i] = x.stage[i], y.result = x.result
  PROVE  /\ Cardinality(DoneIn(y)) = Cardinality(DoneIn(x)) + 1
         /\ \A o : Cardinality(DoneAs(y, o)) = Cardinality(DoneAs(x, o)) + IF x.result[s] = o THEN 1 ELSE 0
         /\ Cardinality(DoneIn(x)) \in Nat /\ \A o : Cardinality(DoneAs(x, o)) \in Nat
<1>1. IsFiniteSet(Students)
  BY SyncJobsAssumption
<1>2. IsFiniteSet(DoneIn(x)) /\ \A o : IsFiniteSet(DoneAs(x, o))
  <2>1. DoneIn(x) \subseteq Students /\ \A o : DoneAs(x, o) \subseteq Students
    BY DEF DoneIn, DoneAs
  <2> QED BY <1>1, <2>1, FS_Subset
<1>3. DoneIn(y) = DoneIn(x) \cup {s} /\ s \notin DoneIn(x)
  BY DEF DoneIn
<1>4. ASSUME NEW o, x.result[s] = o
      PROVE  DoneAs(y, o) = DoneAs(x, o) \cup {s} /\ s \notin DoneAs(x, o)
  BY <1>4 DEF DoneAs
<1>5. ASSUME NEW o, x.result[s] # o PROVE DoneAs(y, o) = DoneAs(x, o)
  BY <1>5 DEF DoneAs
<1>6. Cardinality(DoneIn(x)) \in Nat /\ \A o : Cardinality(DoneAs(x, o)) \in Nat
  BY <1>2, FS_CardinalityType
<1>7. Cardinality(DoneIn(y)) = Cardinality(DoneIn(x)) + 1
  BY <1>2, <1>3, FS_AddElement
<1>8. ASSUME NEW o
      PROVE  Cardinality(DoneAs(y, o)) = Cardinality(DoneAs(x, o)) + IF x.result[s] = o THEN 1 ELSE 0
  <2>1. CASE x.result[s] = o
    BY <1>2, <1>4, <2>1, FS_AddElement
  <2>2. CASE x.result[s] # o
    BY <1>5, <1>6, <2>2
  <2> QED BY <2>1, <2>2
<1> QED BY <1>6, <1>7, <1>8

LEMMA CountedRow ==
  ASSUME TypeOK, NEW j \in Jobs, NEW o \in Outcomes, job' = [job EXCEPT ![j] = Counted(@, o)],
         NEW n, NEW ok, NEW bad, NEW skip, Tallied(job[j], n, ok, bad, skip)
  PROVE  /\ job'[j].status = job[j].status /\ job'[j].total = job[j].total
         /\ Tallied(job'[j], n + 1, ok + IF o = "OK" THEN 1 ELSE 0,
                    bad + IF o = "FAILURE" THEN 1 ELSE 0, skip + IF o = "SKIPPED" THEN 1 ELSE 0)
         /\ \A k \in Jobs \ {j} : job'[k] = job[k]
<1>1. job[j] \in JobRow
  BY DEF TypeOK
<1>2. job'[j] = Counted(job[j], o) /\ \A k \in Jobs \ {j} : job'[k] = job[k]
  BY DEF TypeOK
<1>3. PICK row \in JobRow : row = job[j]
  BY <1>1
<1>4. /\ row.processed = n /\ row.succeeded = ok /\ row.failed = bad /\ row.skipped = skip
      /\ n \in Nat /\ ok \in Nat /\ bad \in Nat /\ skip \in Nat
  BY <1>3 DEF Tallied, JobRow
<1>5. Counted(row, o).status = row.status /\ Counted(row, o).total = row.total
  BY DEF Counted, JobRow
<1>6. /\ Counted(row, o).processed = row.processed + 1
      /\ Counted(row, o).succeeded = IF o = "OK" THEN row.succeeded + 1 ELSE row.succeeded
      /\ Counted(row, o).failed = IF o = "FAILURE" THEN row.failed + 1 ELSE row.failed
      /\ Counted(row, o).skipped = IF o = "SKIPPED" THEN row.skipped + 1 ELSE row.skipped
  BY DEF Counted, JobRow
<1>7. Tallied(Counted(row, o), n + 1, ok + IF o = "OK" THEN 1 ELSE 0,
              bad + IF o = "FAILURE" THEN 1 ELSE 0, skip + IF o = "SKIPPED" THEN 1 ELSE 0)
  BY <1>4, <1>6 DEF Tallied
<1> QED BY <1>2, <1>3, <1>5, <1>7

LEMMA CountExact ==
  ASSUME CalmSteady, NEW e \in Slots, NEW s \in Students, CountStudent(e, s)
  PROVE  Exact'
<1>1. /\ exec[e].stage[s] = "count" /\ exec[e].stage[s] \in OpenStage /\ UNCHANGED <<item, creating, msg>>
      /\ job' = [job EXCEPT ![exec[e].job] = Counted(@, exec[e].result[s])] /\ Move(e, s, "done")
  BY CalmIs DEF CountStudent, OpenStage
<1>2. exec[e].pc = "pool" /\ exec[e].pc \in WorkingPc
  BY <1>1, PoolOf DEF WorkingPc
<1>3. PICK j \in Jobs : /\ exec[e].job = j
                        /\ SlotOK(exec[e], job[j].status, item[j])
                        /\ SlotCounts(exec[e], job[j]) /\ RowCounts(job[j], item[j])
  BY <1>2, ExactOf
<1>4. TypeOK
  BY CalmIs
<1>5. PICK o \in Outcomes : o = exec[e].result[s]
  BY <1>1 DEF CalmSteady, Steady, OutcomeKnown
<1>6. job' = [job EXCEPT ![j] = Counted(@, o)]
  BY <1>1, <1>3, <1>5
<1>7. PICK y : /\ Moves(e, y)
               /\ y.pc = exec[e].pc /\ y.job = exec[e].job /\ y.result = exec[e].result
               /\ y.stage[s] = "done" /\ \A i \in Students \ {s} : y.stage[i] = exec[e].stage[i]
  BY <1>1, <1>4, StageMoves
<1>8. PICK n, ok, bad, skip : /\ n = Cardinality(DoneIn(exec[e]))
                              /\ ok = Cardinality(DoneAs(exec[e], "OK"))
                              /\ bad = Cardinality(DoneAs(exec[e], "FAILURE"))
                              /\ skip = Cardinality(DoneAs(exec[e], "SKIPPED"))
  OBVIOUS
<1>9. Tallied(job[j], n, ok, bad, skip)
  BY <1>2, <1>3, <1>8 DEF SlotCounts
<1>10. /\ job'[j].status = job[j].status /\ job'[j].total = job[j].total
       /\ Tallied(job'[j], n + 1, ok + IF o = "OK" THEN 1 ELSE 0,
                  bad + IF o = "FAILURE" THEN 1 ELSE 0, skip + IF o = "SKIPPED" THEN 1 ELSE 0)
       /\ \A k \in Jobs \ {j} : job'[k] = job[k]
  BY <1>4, <1>6, <1>9, CountedRow
<1>11. PICK x : x = exec[e]
  OBVIOUS
<1>12. /\ x.stage[s] # "done" /\ y.stage[s] = "done" /\ y.result = x.result
       /\ \A i \in Students \ {s} : y.stage[i] = x.stage[i]
  BY <1>1, <1>7, <1>11
<1>13. /\ Cardinality(DoneIn(y)) = Cardinality(DoneIn(x)) + 1
       /\ \A a : Cardinality(DoneAs(y, a)) = Cardinality(DoneAs(x, a)) + IF x.result[s] = a THEN 1 ELSE 0
  BY <1>12, OneMore
<1>14. /\ Cardinality(DoneIn(y)) = n + 1
       /\ Cardinality(DoneAs(y, "OK")) = ok + IF o = "OK" THEN 1 ELSE 0
       /\ Cardinality(DoneAs(y, "FAILURE")) = bad + IF o = "FAILURE" THEN 1 ELSE 0
       /\ Cardinality(DoneAs(y, "SKIPPED")) = skip + IF o = "SKIPPED" THEN 1 ELSE 0
  BY <1>5, <1>8, <1>11, <1>13
<1>15. Tallied(job'[j], Cardinality(DoneIn(y)), Cardinality(DoneAs(y, "OK")),
               Cardinality(DoneAs(y, "FAILURE")), Cardinality(DoneAs(y, "SKIPPED")))
  BY <1>10, <1>14
<1>16. y.pc = "pool" /\ y.job = j
  BY <1>2, <1>3, <1>7
<1>17. SlotCounts(y, job'[j])
  BY <1>15, <1>16 DEF SlotCounts
<1>18. job[j].status \in {"RUNNING", "CANCELLED"}
  BY <1>2, <1>3 DEF SlotOK
<1>19. RowCounts(job'[j], item'[j])
  BY <1>1, <1>3, <1>10, <1>18 DEF RowCounts
<1>20. /\ \A k \in Jobs \ {j} : job'[k] = job[k] /\ item'[k] = item[k] /\ msg'[k] = msg[k]
       /\ msg'[j] = msg[j] /\ UNCHANGED creating /\ y.pc # "idle"
  BY <1>1, <1>10, <1>16
<1> QED BY <1>3, <1>7, <1>16, <1>17, <1>19, <1>20, ExactMoves

LEMMA GoOnExact ==
  ASSUME CalmSteady, NEW e \in Slots, PoolDrained(e) \/ Derive(e)
  PROVE  Exact'
<1>1. exec[e].pc \in WorkingPc /\ exec[e].pc # "idle" /\ UNCHANGED <<job, item, creating, msg>>
  BY DEF PoolDrained, Derive, WorkingPc
<1>2. PICK pc \in {"derive", "finish"} : Goto(e, pc)
  BY CalmIs DEF PoolDrained, Derive
<1>3. PICK j \in Jobs : exec[e].job = j /\ SlotCounts(exec[e], job[j])
  BY <1>1, ExactOf
<1>4. TypeOK
  BY CalmIs
<1>5. PICK y : /\ Moves(e, y)
               /\ y.pc = pc /\ y.job = exec[e].job /\ y.stage = exec[e].stage /\ y.result = exec[e].result
  BY <1>2, <1>4, GotoMoves
<1>6. y.pc \notin {"load", "mark", "catch", "reject"} /\ y.pc # "idle" /\ y.job = j
  BY <1>3, <1>5
<1>7. SlotCounts(y, job[j])
  BY <1>1, <1>3, <1>5, <1>6, SameCounts
<1> QED BY <1>1, <1>3, <1>5, <1>6, <1>7, RowsExact

LEMMA FinishExact ==
  ASSUME CalmSteady, NEW e \in Slots, Finish(e)
  PROVE  Exact'
<1>1. /\ exec[e].pc = "finish" /\ UNCHANGED <<item, creating, msg>>
      /\ job' = [job EXCEPT ![exec[e].job].status = FinalStatus(e)] /\ Goto(e, "ack")
  BY CalmIs DEF Finish
<1>2. PICK j \in Jobs : /\ exec[e].job = j /\ exec[e] \in Execution
                        /\ SlotOK(exec[e], job[j].status, item[j]) /\ Answered(exec[e], item[j])
                        /\ SlotCounts(exec[e], job[j]) /\ RowCounts(job[j], item[j])
  BY <1>1, ExactOf
<1>3. TypeOK
  BY CalmIs
<1>4. PICK st : st = FinalStatus(e)
  OBVIOUS
<1>5. st \in {"COMPLETED", "COMPLETED_WITH_ERRORS"}
  BY <1>4 DEF FinalStatus
<1>6. job' = [job EXCEPT ![j].status = st]
  BY <1>1, <1>2, <1>4
<1>7. PICK y : Moves(e, y) /\ y.pc = "ack" /\ y.job = exec[e].job
  BY <1>1, <1>3, GotoMoves
<1>8. \A s \in Students : exec[e].stage[s] = "done" <=> item[j][s].status # "ABSENT"
  <2>1. \A s \in Students : exec[e].stage[s] \in {"out", "done"}
    BY <1>1, <1>2 DEF SlotOK, OpenStage, Execution
  <2> QED BY <1>1, <1>2, <2>1 DEF SlotOK, WorkingPc
<1>9. \A s \in Students : exec[e].stage[s] = "done" => item[j][s].status = exec[e].result[s]
  BY <1>1, <1>2 DEF Answered, WorkingPc
<1>10. DoneIn(exec[e]) = {s \in Students : item[j][s].status # "ABSENT"}
  BY <1>8 DEF DoneIn
<1>11. \A o \in Outcomes : DoneAs(exec[e], o) = With(item[j], o)
  BY <1>8, <1>9 DEF DoneAs, With, Outcomes
<1>12. job[j].status \in {"RUNNING", "CANCELLED"}
  BY <1>1, <1>2 DEF SlotOK, WorkingPc
<1>13. Cardinality(DoneIn(exec[e])) = job[j].total
  BY <1>2, <1>10, <1>12 DEF RowCounts
<1>14. Tallied(job[j], job[j].total, Cardinality(With(item[j], "OK")),
               Cardinality(With(item[j], "FAILURE")), Cardinality(With(item[j], "SKIPPED")))
  <2>1. Tallied(job[j], Cardinality(DoneIn(exec[e])), Cardinality(DoneAs(exec[e], "OK")),
                Cardinality(DoneAs(exec[e], "FAILURE")), Cardinality(DoneAs(exec[e], "SKIPPED")))
    BY <1>1, <1>2 DEF SlotCounts, WorkingPc
  <2>2. {"OK", "FAILURE", "SKIPPED"} \subseteq Outcomes
    BY DEF Outcomes
  <2> QED BY <1>11, <1>13, <2>1, <2>2
<1>15. /\ job'[j].status = st /\ job'[j].total = job[j].total
       /\ \A n, ok, bad, skip : Tallied(job[j], n, ok, bad, skip) => Tallied(job'[j], n, ok, bad, skip)
       /\ \A k \in Jobs \ {j} : job'[k] = job[k]
  BY <1>3, <1>6, StatusCounts
<1>16. Tallied(job'[j], job'[j].total, Cardinality(With(item[j], "OK")),
               Cardinality(With(item[j], "FAILURE")), Cardinality(With(item[j], "SKIPPED")))
  BY <1>14, <1>15
<1>17. RowCounts(job'[j], item'[j])
  BY <1>1, <1>2, <1>5, <1>12, <1>15, <1>16 DEF RowCounts
<1>18. SlotCounts(y, job'[j])
  BY <1>7 DEF SlotCounts, WorkingPc
<1>19. /\ \A k \in Jobs \ {j} : job'[k] = job[k] /\ item'[k] = item[k] /\ msg'[k] = msg[k]
       /\ msg'[j] = msg[j] /\ UNCHANGED creating /\ y.pc # "idle" /\ y.job = j
  BY <1>1, <1>2, <1>7, <1>15
<1> QED BY <1>2, <1>7, <1>17, <1>18, <1>19, ExactMoves

LEMMA AckExact ==
  ASSUME CalmSteady, NEW e \in Slots, Ack(e)
  PROVE  Exact'
<1>1. /\ exec[e].pc = "ack" /\ UNCHANGED <<job, item, creating>> /\ exec' = [exec EXCEPT ![e] = Idle]
      /\ msg' = IF Holds(e, exec[e].job) THEN [msg EXCEPT ![exec[e].job].at = "none"] ELSE msg
  BY DEF Ack
<1>2. PICK j \in Jobs : exec[e].job = j /\ RowCounts(job[j], item[j])
  BY <1>1, ExactOf
<1>3. TypeOK /\ OnePlace(j)
  BY CalmIs DEF Delivery
<1>4. Moves(e, Idle) /\ Idle.pc = "idle"
  BY <1>1 DEF Moves, Idle
<1>5. msg'[j].at = "none" /\ \A k \in Jobs \ {j} : msg'[k] = msg[k]
  <2>1. CASE e \in Workers
    <3>1. Holds(e, j)
      BY <1>2, <1>3, <2>1 DEF OnePlace, Holds
    <3>2. msg' = [msg EXCEPT ![j].at = "none"]
      BY <1>1, <1>2, <3>1
    <3> QED BY <1>3, <3>2 DEF TypeOK, Message
  <2>2. CASE e \notin Workers
    <3>1. e \in Locals /\ ~ Holds(e, j)
      BY <2>2 DEF Slots, Holds
    <3> QED BY <1>1, <1>2, <1>3, <3>1 DEF OnePlace
  <2> QED BY <2>1, <2>2
<1>6. RowCounts(job'[j], item'[j]) /\ \A k \in Jobs \ {j} : job'[k] = job[k] /\ item'[k] = item[k] /\ msg'[k] = msg[k]
  BY <1>1, <1>2, <1>5
<1> QED BY <1>1, <1>2, <1>4, <1>5, <1>6, ExactMoves

LEMMA NextExact ==
  ASSUME Joint, OneDelivery, Exact, [Next]_vars
  PROVE  Exact'
<1>1. CASE UNCHANGED vars
  BY <1>1 DEF vars, Exact, Calm, Pending
<1>2. CASE Next /\ ~ Calm
  BY <1>2 DEF Next, Exact, Calm
<1>3. CASE Next /\ Calm
  <2>1. CalmSteady
    BY <1>3 DEF Joint, Steady, Next, CalmSteady
  <2>2. ASSUME NEW j \in Jobs, NEW ids \in SUBSET Students, Start(j, ids) PROVE Exact'
    BY <2>1, <2>2, StartExact
  <2>3. ASSUME NEW j \in Jobs, Cancel(j) \/ CrashStart(j) PROVE FALSE
    BY <2>1, <2>3, CalmIs DEF Cancel, CrashStart
  <2>4. ASSUME NEW e \in Slots, CrashExecution(e) PROVE FALSE
    BY <2>1, <2>4, CalmIs DEF CrashExecution
  <2>5. ASSUME NEW e \in Slots, ExecutionStep(e) PROVE Exact'
    <3>1. ~ Catch(e) /\ ~ Reject(e)
      BY <2>1, ExactOf DEF Catch, Reject, SlotCounts
    <3>2. ASSUME NEW s \in Students,
                 TakeStudent(e, s) \/ SyncReturns(e, s) \/ RecordItem(e, s) \/ CountStudent(e, s)
          PROVE  Exact'
      BY <2>1, <3>2, TakeExact, ReturnExact, RecordExact, CountExact
    <3> QED BY <2>1, <2>5, <3>1, <3>2, LoadExact, MarkExact, GoOnExact, FinishExact, AckExact DEF ExecutionStep
  <2> QED BY <1>3, <2>1, <2>2, <2>3, <2>4, <2>5, QueueExact DEF Next
<1> QED BY <1>1, <1>2, <1>3

(* When a job that was run once, with the database answering, has finished, *)
(* its counters account for its whole selection, outcome by outcome, for    *)
(* any number of jobs, runners and students.                                *)
THEOREM CountersAreExact == Spec => []CountersExactAtEnd
<1> DEFINE IInv == OneDelivery => Exact
<1>1. Init => IInv
  <2> SUFFICES ASSUME Init PROVE Exact
    OBVIOUS
  <2>1. \A e \in Slots : exec[e].pc = "idle"
    BY DEF Init, Idle
  <2>2. \A j \in Jobs : job[j].status = "NONE" /\ msg[j].at = "none" /\ j \notin creating
    BY DEF Init, NoRow
  <2>3. \A j \in Jobs : Pending(j) /\ RowCounts(job[j], item[j])
    BY <2>2, SyncJobsAssumption DEF Pending, RowCounts
  <2> QED BY <2>1, <2>3 DEF Exact
<1>2. Joint /\ IInv /\ [Next]_vars => IInv'
  <2>1. [Next]_vars => (OneDelivery' <=> OneDelivery)
    BY DEF Next, vars, OneDelivery
  <2> QED BY <2>1, NextExact
<1>3. IInv => CountersExactAtEnd
  <2> SUFFICES ASSUME IInv, NEW j \in Jobs, env.crashes = 0, env.faults \subseteq {"queue"},
                      job[j].status \in {"COMPLETED", "COMPLETED_WITH_ERRORS"}
               PROVE  /\ job[j].processed = job[j].total
                      /\ job[j].succeeded = Tally(j, "OK")
                      /\ job[j].failed = Tally(j, "FAILURE")
                      /\ job[j].skipped = Tally(j, "SKIPPED")
    BY DEF CountersExactAtEnd
  <2>1. OneDelivery /\ Calm
    BY DEF OneDelivery, Calm
  <2>2. RowCounts(job[j], item[j])
    BY <2>1 DEF Exact
  <2>3. \A o \in Outcomes : Tally(j, o) = Cardinality(With(item[j], o))
    <3>1. ASSUME NEW o \in Outcomes PROVE {s \in Targets(j) : item[j][s].status = o} = With(item[j], o)
      BY DEF Targets, With, Outcomes
    <3> QED BY <3>1 DEF Tally
  <2> QED BY <2>2, <2>3 DEF RowCounts, Tallied, Outcomes
<1> HIDE DEF IInv
<1> QED BY <1>1, <1>2, <1>3, JointAlways, PTL DEF Spec

-----------------------------------------------------------------------------
(* Progress.  Every job is counted against its items: what was counted, and *)
(* what the executions under way are about to count, was attempted before.  *)
(* This holds in every environment, for a job that runs twice as well.      *)
InCount(x) == {s \in Students : x.stage[s] = "count"}
Weighs(x, j) == IF x.job = j THEN Cardinality(InCount(x)) ELSE 0
Carried(f, j) == SumOf([e \in Slots |-> Weighs(f[e], j)], Slots)
Attempted(rows) == SumOf([s \in Students |-> rows[s].attempts], Students)

(* Before its row is there, a job is nowhere. *)
NotYet(j) == job[j].status = "NONE" => j \notin creating /\ msg[j].at = "none" /\ Unheld(j)
Backed(j) == job[j].processed + Carried(exec, j) <= Attempted(item[j])
Progress == \A j \in Jobs : NotYet(j) /\ Backed(j)

LEMMA SlotsFinite == IsFiniteSet(Slots) /\ IsFiniteSet(Students)
  BY SyncJobsAssumption, FS_Union DEF Slots

LEMMA CountSize ==
  ASSUME NEW x
  PROVE  IsFiniteSet(InCount(x)) /\ Cardinality(InCount(x)) \in Nat
<1>1. InCount(x) \in SUBSET Students
  BY DEF InCount
<1> QED BY <1>1, SlotsFinite, FS_Subset, FS_CardinalityType

LEMMA WeighsNat == ASSUME NEW x, NEW j PROVE Weighs(x, j) \in Nat
  BY CountSize DEF Weighs

LEMMA CarriedNat == ASSUME NEW f, NEW j PROVE Carried(f, j) \in Nat
<1> DEFINE w == [e \in Slots |-> Weighs(f[e], j)]
<1>1. \A e \in Slots : w[e] \in Nat
  BY WeighsNat
<1> HIDE DEF w
<1>2. SumOf(w, Slots) \in Nat
  BY <1>1, SlotsFinite, SumNat
<1> QED BY <1>2 DEF Carried, w

LEMMA AttemptedNat ==
  ASSUME NEW rows \in [Students -> ItemRow]
  PROVE  Attempted(rows) \in Nat
<1> DEFINE w == [s \in Students |-> rows[s].attempts]
<1>1. \A s \in Students : w[s] \in Nat
  BY DEF ItemRow
<1> HIDE DEF w
<1>2. SumOf(w, Students) \in Nat
  BY <1>1, SlotsFinite, SumNat
<1> QED BY <1>2 DEF Attempted, w

(* No slot carries more than before.                                        *)
LEMMA CarriedLess ==
  ASSUME NEW f, NEW g, NEW j, \A e \in Slots : Weighs(g[e], j) <= Weighs(f[e], j)
  PROVE  Carried(g, j) <= Carried(f, j)
<1> DEFINE v == [e \in Slots |-> Weighs(f[e], j)]
           w == [e \in Slots |-> Weighs(g[e], j)]
<1>1. \A e \in Slots : v[e] \in Int /\ w[e] \in Int /\ w[e] <= v[e]
  BY WeighsNat
<1> HIDE DEF v, w
<1>2. SumOf(w, Slots) <= SumOf(v, Slots)
  BY <1>1, SlotsFinite, SumAtMost
<1> QED BY <1>2 DEF Carried, v, w

(* One slot carries something else.                                         *)
LEMMA CarriedOne ==
  ASSUME NEW f, NEW g, NEW j, NEW e \in Slots, \A d \in Slots \ {e} : g[d] = f[d]
  PROVE  Carried(g, j) - Weighs(g[e], j) = Carried(f, j) - Weighs(f[e], j)
<1> DEFINE v == [d \in Slots |-> Weighs(f[d], j)]
           w == [d \in Slots |-> Weighs(g[d], j)]
<1>1. \A d \in Slots : v[d] \in Int /\ w[d] \in Int
  BY WeighsNat
<1>2. \A d \in Slots \ {e} : v[d] = w[d]
  OBVIOUS
<1>3. v[e] = Weighs(f[e], j) /\ w[e] = Weighs(g[e], j)
  OBVIOUS
<1> HIDE DEF v, w
<1>4. IsFiniteSet(Slots \ {e})
  BY SlotsFinite, FS_RemoveElement
<1>5. /\ SumOf(v, Slots) = v[e] + SumOf(v, Slots \ {e})
      /\ SumOf(w, Slots) = w[e] + SumOf(w, Slots \ {e})
  BY <1>1, SlotsFinite, SumRemove
<1>6. SumOf(v, Slots \ {e}) = SumOf(w, Slots \ {e}) /\ SumOf(v, Slots \ {e}) \in Int
  <2>1. \A d \in Slots \ {e} : v[d] \in Int
    BY <1>1
  <2> QED BY <1>2, <1>4, <2>1, SumSame, SumInt
<1>7. SumOf(w, Slots) - w[e] = SumOf(v, Slots) - v[e]
  BY <1>1, <1>5, <1>6
<1> QED BY <1>3, <1>7 DEF Carried, v, w

(* One more attempt on one item.                                            *)
LEMMA AttemptedOne ==
  ASSUME NEW a \in [Students -> ItemRow], NEW b \in [Students -> ItemRow], NEW s \in Students,
         b[s].attempts = a[s].attempts + 1, \A i \in Students \ {s} : b[i] = a[i]
  PROVE  Attempted(b) = Attempted(a) + 1
<1> DEFINE v == [i \in Students |-> a[i].attempts]
           w == [i \in Students |-> b[i].attempts]
<1>1. \A i \in Students : v[i] \in Int /\ w[i] \in Int
  BY DEF ItemRow
<1>2. w[s] = v[s] + 1 /\ \A i \in Students \ {s} : v[i] = w[i]
  OBVIOUS
<1> HIDE DEF v, w
<1>3. IsFiniteSet(Students \ {s})
  BY SlotsFinite, FS_RemoveElement
<1>4. /\ SumOf(v, Students) = v[s] + SumOf(v, Students \ {s})
      /\ SumOf(w, Students) = w[s] + SumOf(w, Students \ {s})
  BY <1>1, SlotsFinite, SumRemove
<1>5. SumOf(v, Students \ {s}) = SumOf(w, Students \ {s}) /\ SumOf(v, Students \ {s}) \in Int
  <2>1. \A i \in Students \ {s} : v[i] \in Int
    BY <1>1
  <2> QED BY <1>2, <1>3, <2>1, SumSame, SumInt
<1>6. SumOf(w, Students) = SumOf(v, Students) + 1
  BY <1>1, <1>2, <1>4, <1>5
<1> QED BY <1>6 DEF Attempted, v, w

LEMMA BackedNat ==
  ASSUME TypeOK, NEW j \in Jobs
  PROVE  /\ job[j].processed \in Nat /\ Attempted(item[j]) \in Nat
         /\ Carried(exec, j) \in Nat /\ Carried(exec', j) \in Nat
<1>1. job[j].processed \in Nat /\ item[j] \in [Students -> ItemRow]
  BY DEF TypeOK, JobRow
<1> QED BY <1>1, AttemptedNat, CarriedNat

(* The steps that count and attempt nothing. *)
LEMMA BackedKept ==
  ASSUME TypeOK, NEW j \in Jobs, Backed(j),
         job'[j].processed = job[j].processed, item'[j] = item[j],
         \A e \in Slots : Weighs(exec'[e], j) <= Weighs(exec[e], j)
  PROVE  Backed(j)'
<1>1. Carried(exec', j) <= Carried(exec, j)
  BY CarriedLess
<1>2. job[j].processed + Carried(exec', j) <= Attempted(item[j])
  BY <1>1, BackedNat DEF Backed
<1> QED BY <1>2 DEF Backed

(* What a step of an execution does to its slot, to the items and to the    *)
(* counters: nothing that counts, an attempt recorded, or one counted.      *)
Unmoved == item' = item /\ \A j \in Jobs : job'[j].processed = job[j].processed
Quiet(x, y) ==
    /\ Unmoved
    /\ \A s \in Students : y.stage[s] = "count" => x.stage[s] = "count"
Recording(x, y, s) ==
    /\ x.stage[s] = "item" /\ y.stage[s] = "count" /\ y.job = x.job
    /\ \A i \in Students \ {s} : y.stage[i] = x.stage[i]
    /\ item' = [item EXCEPT ![x.job][s] = Recorded(@, x.result[s])]
    /\ job' = job
Counting(x, y, s) ==
    /\ x.stage[s] = "count" /\ y.stage[s] = "done" /\ y.job = x.job
    /\ \A i \in Students \ {s} : y.stage[i] = x.stage[i]
    /\ job' = [job EXCEPT ![x.job] = Counted(@, x.result[s])]
    /\ item' = item
Works(x, y) ==
    /\ y = Idle \/ y.job = x.job
    /\ Quiet(x, y) \/ \E s \in Students : Recording(x, y, s) \/ Counting(x, y, s)

Worked(e) == \E y : Moves(e, y) /\ Works(exec[e], y)

LEMMA StatusOnly ==
  ASSUME TypeOK, NEW k, NEW st, job' = [job EXCEPT ![k].status = st]
  PROVE  \A j \in Jobs : job'[j].processed = job[j].processed
  BY DEF TypeOK, JobRow

LEMMA ExecutionWorks ==
  ASSUME TypeOK, NEW e \in Slots, ExecutionStep(e) \/ CrashExecution(e)
  PROVE  Worked(e)
<1>1. ASSUME NEW pc, Goto(e, pc), Unmoved PROVE Worked(e)
  BY <1>1, GotoMoves DEF Works, Quiet, Worked
<1>2. ASSUME exec' = [exec EXCEPT ![e] = Idle], Unmoved PROVE Worked(e)
  <2>1. \A s \in Students : Idle.stage[s] = "out"
    BY DEF Idle
  <2>2. Moves(e, Idle) /\ Works(exec[e], Idle)
    BY <1>2, <2>1 DEF Moves, Works, Quiet
  <2> HIDE DEF Idle
  <2> QED BY <2>2 DEF Worked
<1>3. ASSUME NEW s \in Students, NEW st \in {"fetch", "done"}, Move(e, s, st), Unmoved PROVE Worked(e)
  <2>1. PICK y : /\ Moves(e, y)
                 /\ y.pc = exec[e].pc /\ y.job = exec[e].job /\ y.result = exec[e].result
                 /\ y.stage[s] = st /\ \A i \in Students \ {s} : y.stage[i] = exec[e].stage[i]
    BY <1>3, StageMoves
  <2>2. Works(exec[e], y)
    BY <1>3, <2>1 DEF Works, Quiet, Worked
  <2> QED BY <2>1, <2>2 DEF Worked
<1>4. CASE Load(e) \/ PoolDrained(e) \/ Derive(e)
  <2>1. Unmoved
    BY <1>4 DEF Load, PoolDrained, Derive, Unmoved
  <2>2. \E pc : Goto(e, pc)
    BY <1>4 DEF Load, PoolDrained, Derive
  <2> QED BY <1>1, <2>1, <2>2
<1>5. CASE Finish(e) \/ Catch(e)
  <2>1. Unmoved
    BY <1>5, StatusOnly DEF Finish, Catch, Unmoved
  <2>2. \E pc : Goto(e, pc)
    BY <1>5 DEF Finish, Catch
  <2> QED BY <1>1, <2>1, <2>2
<1>6. CASE MarkRunning(e)
  <2>1. Unmoved
    BY <1>6, StatusOnly DEF MarkRunning, Unmoved
  <2>2. CASE exec' = [exec EXCEPT ![e] = Begun(@)]
    <3>1. PICK y : /\ Moves(e, y)
                   /\ y.pc = "pool" /\ y.job = exec[e].job /\ y.result = exec[e].result
                   /\ \A s \in Students : y.stage[s] = IF s \in Targets(exec[e].job) THEN "left" ELSE "out"
      BY <2>2, BeginMoves
    <3>2. Works(exec[e], y)
      BY <2>1, <3>1 DEF Works, Quiet, Worked
    <3> QED BY <3>1, <3>2 DEF Worked
  <2>3. CASE Goto(e, "reject")
    <3> QED BY <1>1, <2>1, <2>3
  <2> QED BY <1>6, <2>2, <2>3 DEF MarkRunning
<1>7. CASE Ack(e) \/ Reject(e) \/ CrashExecution(e)
  <2>1. Unmoved /\ exec' = [exec EXCEPT ![e] = Idle]
    BY <1>7 DEF Ack, Reject, CrashExecution, Unmoved
  <2> QED BY <1>2, <2>1
<1>8. ASSUME NEW s \in Students, TakeStudent(e, s) PROVE Worked(e)
  <2>1. Unmoved /\ Move(e, s, "fetch")
    BY <1>8 DEF TakeStudent, Unmoved
  <2> QED BY <1>3, <2>1
<1>9. ASSUME NEW s \in Students, SyncReturns(e, s) PROVE Worked(e)
  <2>1. Unmoved
    BY <1>9 DEF SyncReturns, Unmoved
  <2>2. ASSUME NEW o \in Outcomes, exec' = [exec EXCEPT ![e] = Returned(@, s, o)] PROVE Worked(e)
    <3> DEFINE y == Returned(exec[e], s, o)
    <3>1. Moves(e, y)
      BY <2>2 DEF Moves
    <3>2. /\ y.job = exec[e].job /\ y.stage[s] = "item"
          /\ \A i \in Students \ {s} : y.stage[i] = exec[e].stage[i]
      BY ResultMoves DEF TypeOK
    <3> HIDE DEF y
    <3>3. Works(exec[e], y)
      BY <2>1, <3>2 DEF Works, Quiet, Worked
    <3> QED BY <3>1, <3>3 DEF Worked
  <2>3. CASE Move(e, s, "done")
    <3> QED BY <1>3, <2>1, <2>3
  <2> QED BY <1>9, <2>2, <2>3 DEF SyncReturns
<1>10. ASSUME NEW s \in Students, RecordItem(e, s) PROVE Worked(e)
  <2>1. CASE Move(e, s, "done") /\ UNCHANGED item
    <3>1. Unmoved
      BY <1>10, <2>1 DEF RecordItem, Unmoved
    <3> QED BY <1>3, <2>1, <3>1
  <2>2. CASE Move(e, s, "count")
             /\ item' = [item EXCEPT ![exec[e].job][s] = Recorded(@, exec[e].result[s])]
    <3>1. PICK y : /\ Moves(e, y)
                   /\ y.pc = exec[e].pc /\ y.job = exec[e].job /\ y.result = exec[e].result
                   /\ y.stage[s] = "count" /\ \A i \in Students \ {s} : y.stage[i] = exec[e].stage[i]
      BY <2>2, StageMoves
    <3>2. Recording(exec[e], y, s)
      BY <1>10, <2>2, <3>1 DEF RecordItem, Recording
    <3> QED BY <3>1, <3>2 DEF Works, Worked
  <2> QED BY <1>10, <2>1, <2>2 DEF RecordItem
<1>11. ASSUME NEW s \in Students, CountStudent(e, s) PROVE Worked(e)
  <2>1. PICK y : /\ Moves(e, y)
                 /\ y.pc = exec[e].pc /\ y.job = exec[e].job /\ y.result = exec[e].result
                 /\ y.stage[s] = "done" /\ \A i \in Students \ {s} : y.stage[i] = exec[e].stage[i]
    BY <1>11, StageMoves DEF CountStudent
  <2>2. CASE UNCHANGED job
    <3>1. Unmoved
      BY <1>11, <2>2 DEF CountStudent, Unmoved
    <3>2. Works(exec[e], y)
      BY <2>1, <3>1 DEF Works, Quiet, Worked
    <3> QED BY <2>1, <3>2 DEF Worked
  <2>3. CASE job' = [job EXCEPT ![exec[e].job] = Counted(@, exec[e].result[s])]
    <3>1. Counting(exec[e], y, s)
      BY <1>11, <2>1, <2>3 DEF CountStudent, Counting
    <3> QED BY <2>1, <3>1 DEF Works, Worked
  <2> QED BY <1>11, <2>2, <2>3 DEF CountStudent
<1> QED BY <1>4, <1>5, <1>6, <1>7, <1>8, <1>9, <1>10, <1>11 DEF ExecutionStep

(* An execution's step keeps the progress of every job.                     *)
LEMMA Lighter ==
  ASSUME NEW x, NEW y, NEW j,
         \/ \A s \in Students : y.stage[s] # "count"
         \/ y.job = x.job /\ \A s \in Students : y.stage[s] = "count" => x.stage[s] = "count"
  PROVE  Weighs(y, j) <= Weighs(x, j)
<1>1. CASE \A s \in Students : y.stage[s] # "count"
  <2>1. InCount(y) = {}
    BY <1>1 DEF InCount
  <2>2. Weighs(y, j) = 0
    BY <2>1, FS_EmptySet DEF Weighs
  <2> QED BY <2>2, WeighsNat
<1>2. CASE y.job = x.job /\ \A s \in Students : y.stage[s] = "count" => x.stage[s] = "count"
  <2>1. InCount(y) \in SUBSET InCount(x)
    BY <1>2 DEF InCount
  <2>2. Cardinality(InCount(y)) <= Cardinality(InCount(x))
    BY <2>1, CountSize, FS_Subset
  <2> QED BY <1>2, <2>2 DEF Weighs
<1> QED BY <1>1, <1>2

LEMMA ExecutionBacked ==
  ASSUME TypeOK, OutcomeKnown, NEW j \in Jobs, Backed(j), NEW e \in Slots,
         ExecutionStep(e) \/ CrashExecution(e)
  PROVE  Backed(j)'
<1>1. PICK y : Moves(e, y) /\ Works(exec[e], y)
  BY ExecutionWorks DEF Worked
<1> DEFINE x == exec[e]
<1>2. exec'[e] = y /\ \A d \in Slots \ {e} : exec'[d] = exec[d]
  BY <1>1 DEF Moves, TypeOK
<1>3. x \in Execution
  BY DEF TypeOK
<1> HIDE DEF x
<1>4. CASE Quiet(x, y)
  <2>1. Weighs(y, j) <= Weighs(x, j)
    <3>1. CASE y = Idle
      <4>1. \A s \in Students : y.stage[s] # "count"
        BY <3>1 DEF Idle
      <4> QED BY <4>1, Lighter
    <3>2. CASE y.job = x.job
      BY <1>4, <3>2, Lighter DEF Quiet
    <3> QED BY <1>1, <3>1, <3>2 DEF Works, x
  <2>2. \A d \in Slots : Weighs(exec'[d], j) <= Weighs(exec[d], j)
    BY <1>2, <2>1, WeighsNat DEF x
  <2> QED BY <1>4, <2>2, BackedKept DEF Quiet, Unmoved
<1>5. ASSUME NEW s \in Students, Recording(x, y, s) PROVE Backed(j)'
  <2>1. InCount(y) = InCount(x) \cup {s} /\ s \notin InCount(x)
    BY <1>5 DEF Recording, InCount
  <2>2. Cardinality(InCount(y)) = Cardinality(InCount(x)) + 1
    BY <2>1, CountSize, FS_AddElement
  <2>3. CASE x.job = j
    <3>1. Weighs(y, j) = Weighs(x, j) + 1
      BY <1>5, <2>2, <2>3 DEF Weighs, Recording
    <3>2. Carried(exec', j) - Weighs(y, j) = Carried(exec, j) - Weighs(x, j)
      BY <1>2, CarriedOne DEF x
    <3>3. Carried(exec', j) = Carried(exec, j) + 1
      BY <3>1, <3>2, WeighsNat, CarriedNat
    <3>4. Attempted(item'[j]) = Attempted(item[j]) + 1
      <4> DEFINE o == x.result[s]
                 row == Recorded(item[j][s], o)
      <4>1. o \in Outcomes
        BY <1>5 DEF OutcomeKnown, Recording, x
      <4>2. item[j] \in [Students -> ItemRow] /\ item' \in [Jobs -> [Students -> ItemRow]]
        BY <1>5, <2>3, <4>1, ItemTyped DEF TypeOK, Recording
      <4>3. item'[j][s] = row /\ \A i \in Students \ {s} : item'[j][i] = item[j][i]
        BY <1>5, <2>3, <4>2 DEF TypeOK, Recording
      <4>4. row.attempts = item[j][s].attempts + 1
        BY <4>2 DEF Recorded, ItemRow
      <4> HIDE DEF row, o
      <4> QED BY <4>2, <4>3, <4>4, AttemptedOne
    <3>5. job'[j] = job[j]
      BY <1>5 DEF Recording
    <3>6. job[j].processed + (Carried(exec, j) + 1) <= Attempted(item[j]) + 1
      BY BackedNat DEF Backed
    <3> QED BY <3>3, <3>4, <3>5, <3>6 DEF Backed
  <2>4. CASE x.job # j
    <3>1. Weighs(y, j) = 0
      BY <1>5, <2>4 DEF Weighs, Recording
    <3>2. \A d \in Slots : Weighs(exec'[d], j) <= Weighs(exec[d], j)
      BY <1>2, <3>1, WeighsNat
    <3>3. item'[j] = item[j] /\ job' = job
      BY <1>5, <2>4 DEF Recording, TypeOK
    <3> QED BY <3>2, <3>3, BackedKept
  <2> QED BY <2>3, <2>4
<1>6. ASSUME NEW s \in Students, Counting(x, y, s) PROVE Backed(j)'
  <2>1. InCount(x) = InCount(y) \cup {s} /\ s \notin InCount(y)
    BY <1>6 DEF Counting, InCount
  <2>2. Cardinality(InCount(x)) = Cardinality(InCount(y)) + 1
    BY <2>1, CountSize, FS_AddElement
  <2>3. CASE x.job = j
    <3>1. Weighs(x, j) = Weighs(y, j) + 1
      BY <1>6, <2>2, <2>3 DEF Weighs, Counting
    <3>2. Carried(exec', j) - Weighs(y, j) = Carried(exec, j) - Weighs(x, j)
      BY <1>2, CarriedOne DEF x
    <3>3. Carried(exec, j) = Carried(exec', j) + 1
      BY <3>1, <3>2, WeighsNat, CarriedNat
    <3>4. job'[j].processed = job[j].processed + 1 /\ item'[j] = item[j]
      BY <1>6, <2>3 DEF Counting, Counted, TypeOK, JobRow
    <3>5. (job[j].processed + 1) + Carried(exec', j) <= Attempted(item[j])
      BY <3>3, BackedNat DEF Backed
    <3> QED BY <3>4, <3>5 DEF Backed
  <2>4. CASE x.job # j
    <3>1. Weighs(y, j) = 0
      BY <1>6, <2>4 DEF Weighs, Counting
    <3>2. \A d \in Slots : Weighs(exec'[d], j) <= Weighs(exec[d], j)
      BY <1>2, <3>1, WeighsNat
    <3>3. item' = item /\ job'[j] = job[j]
      BY <1>6, <2>4 DEF Counting, TypeOK
    <3> QED BY <3>2, <3>3, BackedKept
  <2> QED BY <2>3, <2>4
<1> QED BY <1>1, <1>4, <1>5, <1>6 DEF Works, x

(* Starting, dispatching, delivering, cancelling: nobody carries more.      *)
LEMMA CalledBacked ==
  ASSUME TypeOK, NEW j \in Jobs, Backed(j), NEW e \in Slots, NEW k \in Jobs,
         exec' = [exec EXCEPT ![e] = Called(k)], UNCHANGED <<job, item>>
  PROVE  Backed(j)'
<1> DEFINE y == Called(k)
<1>1. \A s \in Students : y.stage[s] # "count"
  BY DEF Called, Idle
<1>2. exec'[e] = y /\ \A d \in Slots \ {e} : exec'[d] = exec[d]
  BY DEF TypeOK
<1> HIDE DEF y
<1>3. Weighs(y, j) <= Weighs(exec[e], j)
  BY <1>1, Lighter
<1>4. \A d \in Slots : Weighs(exec'[d], j) <= Weighs(exec[d], j)
  BY <1>2, <1>3, WeighsNat
<1> QED BY <1>4, BackedKept

LEMMA StillBacked ==
  ASSUME TypeOK, NEW j \in Jobs, Backed(j), UNCHANGED exec,
         job'[j].processed = job[j].processed, item'[j] = item[j]
  PROVE  Backed(j)'
<1>1. \A e \in Slots : Weighs(exec'[e], j) <= Weighs(exec[e], j)
  BY WeighsNat
<1> QED BY <1>1, BackedKept

LEMMA StartBacked ==
  ASSUME TypeOK, NEW j \in Jobs, NotYet(j), Backed(j),
         NEW k \in Jobs, NEW ids \in SUBSET Students, Start(k, ids), TypeOK'
  PROVE  Backed(j)'
<1>1. CASE j # k
  <2>1. job'[j] = job[j] /\ item'[j] = item[j] /\ UNCHANGED exec
    BY <1>1 DEF Start, TypeOK
  <2> QED BY <2>1, StillBacked
<1>2. CASE j = k
  <2>1. Unheld(j) /\ job'[j].processed = 0 /\ UNCHANGED exec
    BY <1>2 DEF Start, NotYet, TypeOK, NoRow
  <2>2. \A e \in Slots : Weighs(exec'[e], j) <= 0
    BY <2>1 DEF Unheld, Weighs
  <2>3. Carried(exec', j) <= 0
    <3> DEFINE w == [e \in Slots |-> Weighs(exec'[e], j)]
    <3>1. \A e \in Slots : w[e] \in Int /\ 0 <= w[e] /\ w[e] <= 0
      BY <2>2, WeighsNat
    <3> HIDE DEF w
    <3>2. SumOf(w, Slots) <= 0 * Cardinality(Slots)
      BY <3>1, SlotsFinite, SumBetween
    <3>3. Cardinality(Slots) \in Nat
      BY SlotsFinite, FS_CardinalityType
    <3> QED BY <3>2, <3>3 DEF Carried, w
  <2>4. Carried(exec', j) \in Nat /\ Attempted(item'[j]) \in Nat
    BY CarriedNat, AttemptedNat DEF TypeOK
  <2> QED BY <2>1, <2>3, <2>4 DEF Backed
<1> QED BY <1>1, <1>2

LEMMA NextBacked ==
  ASSUME TypeOK, TypeOK', OutcomeKnown, NEW j \in Jobs, NotYet(j), Backed(j), [Next]_vars
  PROVE  Backed(j)'
<1>1. ASSUME NEW k \in Jobs, Dispatch(k) PROVE Backed(j)'
  <2>1. UNCHANGED <<job, item>>
    BY <1>1 DEF Dispatch
  <2>2. UNCHANGED exec \/ \E e \in Slots : exec' = [exec EXCEPT ![e] = Called(k)]
    BY <1>1 DEF Dispatch, RunInline, Slots
  <2> QED BY <2>1, <2>2, CalledBacked, StillBacked
<1>2. ASSUME NEW w \in Workers, NEW k \in Jobs, Deliver(w, k) PROVE Backed(j)'
  <2>1. w \in Slots
    BY DEF Slots
  <2> QED BY <1>2, <2>1, CalledBacked DEF Deliver
<1>3. ASSUME NEW k \in Jobs, Stalled(k) \/ CrashStart(k) PROVE Backed(j)'
  BY <1>3, StillBacked DEF Stalled, CrashStart
<1>4. ASSUME NEW k \in Jobs, Cancel(k) PROVE Backed(j)'
  <2>1. job'[j].processed = job[j].processed
    BY <1>4, StatusOnly DEF Cancel
  <2> QED BY <1>4, <2>1, StillBacked DEF Cancel
<1>5. CASE UNCHANGED vars
  BY <1>5, StillBacked DEF vars
<1> QED BY <1>1, <1>2, <1>3, <1>4, <1>5, StartBacked, ExecutionBacked DEF Next, QueueStep

(* A job without a row has not been handed to anyone.                       *)
LEMMA NextNotYet ==
  ASSUME TypeOK, NEW j \in Jobs, NotYet(j), [Next]_vars
  PROVE  NotYet(j)'
<1> SUFFICES ASSUME job'[j].status = "NONE"
             PROVE  j \notin creating' /\ msg'[j].at = "none" /\ \A e \in Slots : exec'[e].job # j
  BY DEF NotYet, Unheld
<1>1. job[j].status = "NONE"
  BY StatusStep
<1>2. j \notin creating /\ msg[j].at = "none" /\ \A e \in Slots : exec[e].job # j
  BY <1>1 DEF NotYet, Unheld
<1>3. Idle.job # j /\ \A k \in Jobs : Called(k).job = k
  BY SyncJobsAssumption DEF Idle, Called
<1> DEFINE P == j \notin creating' /\ msg'[j].at = "none" /\ \A e \in Slots : exec'[e].job # j
<1>4. ASSUME NEW k \in Jobs, NEW ids \in SUBSET Students, Start(k, ids) PROVE P
  <2>1. j # k
    BY <1>4 DEF Start, TypeOK, NoRow
  <2> QED BY <1>2, <1>4, <2>1 DEF Start
<1>5. ASSUME NEW k \in Jobs, Dispatch(k) PROVE P
  <2>1. j # k /\ j \notin creating'
    BY <1>2, <1>5 DEF Dispatch
  <2>2. msg'[j] = msg[j]
    BY <1>5, <2>1 DEF Dispatch, Enqueue, TypeOK
  <2>3. UNCHANGED exec \/ \E e \in Slots : exec' = [exec EXCEPT ![e] = Called(k)]
    BY <1>5 DEF Dispatch, RunInline, Slots
  <2>4. \A e \in Slots : exec'[e].job # j
    BY <1>2, <1>3, <2>1, <2>3 DEF TypeOK
  <2> QED BY <1>2, <2>1, <2>2, <2>4
<1>6. ASSUME NEW w \in Workers, NEW k \in Jobs, Deliver(w, k) PROVE P
  <2>1. j # k
    BY <1>2, <1>6 DEF Deliver
  <2>2. \A e \in Slots : exec'[e].job # j
    BY <1>2, <1>3, <1>6, <2>1 DEF Deliver, TypeOK
  <2> QED BY <1>2, <1>6, <2>1, <2>2 DEF Deliver, TypeOK
<1>7. ASSUME NEW k \in Jobs, Stalled(k) PROVE P
  <2>1. j # k
    BY <1>2, <1>7, SyncJobsAssumption DEF Stalled
  <2> QED BY <1>2, <1>7, <2>1 DEF Stalled, TypeOK
<1>8. ASSUME NEW e \in Slots, ExecutionStep(e) \/ CrashExecution(e) PROVE P
  <2>1. PICK y : Moves(e, y) /\ Works(exec[e], y)
    BY <1>8, ExecutionWorks DEF Worked
  <2>2. y.job # j
    BY <1>2, <1>3, <2>1 DEF Works
  <2>3. \A d \in Slots : exec'[d].job # j
    BY <1>2, <2>1, <2>2 DEF Moves, TypeOK
  <2>4. UNCHANGED creating
    BY <1>8 DEF ExecutionStep, Load, MarkRunning, PoolDrained, Derive, Finish, Catch, Ack, Reject,
                TakeStudent, SyncReturns, RecordItem, CountStudent, CrashExecution
  <2>5. msg'[j] = msg[j]
    <3>1. exec[e].job # j
      BY <1>2
    <3>2. UNCHANGED msg \/ Ack(e) \/ Reject(e)
      BY <1>8 DEF ExecutionStep, Load, MarkRunning, PoolDrained, Derive, Finish, Catch,
                  TakeStudent, SyncReturns, RecordItem, CountStudent, CrashExecution
    <3> QED BY <3>1, <3>2 DEF Ack, Reject, TypeOK
  <2> QED BY <1>2, <2>3, <2>4, <2>5
<1>9. ASSUME NEW k \in Jobs, Cancel(k) \/ CrashStart(k) PROVE P
  BY <1>2, <1>9 DEF Cancel, CrashStart
<1>10. CASE UNCHANGED vars
  BY <1>2, <1>10 DEF vars
<1> QED BY <1>4, <1>5, <1>6, <1>7, <1>8, <1>9, <1>10 DEF Next, QueueStep

LEMMA InitProgress == Init => Progress
<1> SUFFICES ASSUME Init, NEW j \in Jobs PROVE NotYet(j) /\ Backed(j)
  BY DEF Progress
<1>1. TypeOK
  BY IdleTyped, SyncJobsAssumption
     DEF Init, TypeOK, JobRow, ItemRow, Message, NoRow, NoItem, Environment
<1>2. NotYet(j)
  BY SyncJobsAssumption DEF Init, NotYet, Unheld, Idle
<1>3. \A e \in Slots : Weighs(exec[e], j) <= 0
  <2>1. \A e \in Slots : exec[e].job # j
    BY SyncJobsAssumption DEF Init, Idle
  <2> QED BY <2>1 DEF Weighs
<1>4. Carried(exec, j) <= 0
  <2> DEFINE w == [e \in Slots |-> Weighs(exec[e], j)]
  <2>1. \A e \in Slots : w[e] \in Int /\ 0 <= w[e] /\ w[e] <= 0
    BY <1>3, WeighsNat
  <2> HIDE DEF w
  <2>2. SumOf(w, Slots) <= 0 * Cardinality(Slots)
    BY <2>1, SlotsFinite, SumBetween
  <2>3. Cardinality(Slots) \in Nat
    BY SlotsFinite, FS_CardinalityType
  <2> QED BY <2>2, <2>3 DEF Carried, w
<1>5. job[j].processed = 0
  BY DEF Init, NoRow
<1> QED BY <1>1, <1>2, <1>4, <1>5, BackedNat DEF Backed

(* The sum of the property is the one above. *)
CountTally(j) == SumOver({e \in Slots : exec[e].job = j}, LAMBDA e : Cardinality(InStage(e, "count")))
AttemptTally(j) == SumOver(Students, LAMBDA s : item[j][s].attempts)

LEMMA CountTallies == ASSUME NEW j PROVE CountTally(j) = Carried(exec, j)
<1> DEFINE S == {e \in Slots : exec[e].job = j}
           f == [e \in Slots |-> Weighs(exec[e], j)]
           F(g) == [t \in SUBSET S |-> IF t = {} THEN 0
                                       ELSE Cardinality(InStage(Pick(t), "count")) + g[t \ {Pick(t)}]]
           sums == CHOOSE g : g = F(g)
           G == PartialSums(f, S)
<1>1. S \in SUBSET Slots /\ IsFiniteSet(S) /\ IsFiniteSet(Slots \ S)
  BY SlotsFinite, FS_Subset, FS_Difference
<1>2. SumsUp(G, f, S)
  BY <1>1, SumsExist
<1>3. \A e \in S : f[e] = Cardinality(InStage(e, "count"))
  BY DEF Weighs, InCount, InStage
<1>4. \A t \in SUBSET S : t # {} => f[Pick(t)] = Cardinality(InStage(Pick(t), "count"))
  BY <1>3 DEF Pick
<1>5. CountTally(j) = sums[S]
  BY DEF CountTally, SumOver, MapThenSumSet, MapThenFoldSet, Pick
<1> HIDE DEF f
<1>6. G = F(G)
  BY <1>2, <1>4 DEF SumsUp
<1>7. sums = F(sums)
  BY <1>6
<1>8. SumsUp(sums, f, S)
  BY <1>4, <1>7 DEF SumsUp
<1> HIDE DEF sums
<1>9. sums[S] = SumOf(f, S)
  BY <1>1, <1>2, <1>8, SumsAgree DEF SumOf
<1>10. SumOf(f, Slots \ S) = 0
  <2>1. \A e \in Slots \ S : f[e] \in Int /\ 0 <= f[e] /\ f[e] <= 0
    BY DEF Weighs, f
  <2> DEFINE T == Slots \ S
  <2>2. IsFiniteSet(T) /\ \A e \in T : f[e] \in Int /\ 0 <= f[e] /\ f[e] <= 0
    BY <1>1, <2>1
  <2> HIDE DEF T, S
  <2>3. 0 * Cardinality(T) <= SumOf(f, T) /\ SumOf(f, T) <= 0 * Cardinality(T)
    BY <2>2, SumBetween
  <2>4. Cardinality(T) \in Nat /\ SumOf(f, T) \in Int
    BY <2>2, SumInt, FS_CardinalityType
  <2>5. SumOf(f, T) = 0
    BY <2>3, <2>4
  <2> QED BY <2>5 DEF T
<1>11. \A e \in Slots : f[e] \in Int
  BY WeighsNat DEF f
<1> HIDE DEF S
<1>12. SumOf(f, Slots) = SumOf(f, S) + SumOf(f, Slots \ S) /\ SumOf(f, S) \in Int
  <2>1. \A e \in S : f[e] \in Int
    BY <1>1, <1>11
  <2> QED BY <1>1, <1>11, <2>1, SlotsFinite, SumSplit, SumInt
<1>13. SumOf(f, S) = Carried(exec, j)
  BY <1>10, <1>12 DEF Carried, f
<1> QED BY <1>5, <1>9, <1>13

LEMMA AttemptTallies == ASSUME NEW j PROVE AttemptTally(j) = Attempted(item[j])
<1> DEFINE f == [s \in Students |-> item[j][s].attempts]
           F(g) == [t \in SUBSET Students |-> IF t = {} THEN 0
                                              ELSE item[j][Pick(t)].attempts + g[t \ {Pick(t)}]]
           sums == CHOOSE g : g = F(g)
           G == PartialSums(f, Students)
<1>1. SumsUp(G, f, Students)
  BY SlotsFinite, SumsExist
<1>2. \A t \in SUBSET Students : t # {} => f[Pick(t)] = item[j][Pick(t)].attempts
  BY DEF Pick
<1>3. AttemptTally(j) = sums[Students]
  BY DEF AttemptTally, SumOver, MapThenSumSet, MapThenFoldSet, Pick
<1> HIDE DEF f
<1>4. G = F(G)
  BY <1>1, <1>2 DEF SumsUp
<1>5. sums = F(sums)
  BY <1>4
<1>6. SumsUp(sums, f, Students)
  BY <1>2, <1>5 DEF SumsUp
<1> HIDE DEF sums
<1>7. sums[Students] = SumOf(f, Students)
  BY <1>1, <1>6, SlotsFinite, SumsAgree DEF SumOf
<1> QED BY <1>3, <1>7 DEF Attempted, f

(* In every environment, through lost writes, crashes, redeliveries and     *)
(* double executions, no job shows more progress than its items were        *)
(* attempted, the students counted next included.                           *)
THEOREM ProgressIsBacked == Spec => []ProgressBackedByItems
<1>1. Init => TypeOK /\ OutcomeKnown
  BY IdleTyped, SyncJobsAssumption
     DEF Init, TypeOK, OutcomeKnown, JobRow, ItemRow, Message, NoRow, NoItem, Idle, Environment
<1>2. TypeOK /\ OutcomeKnown /\ Progress /\ [Next]_vars
        => TypeOK' /\ OutcomeKnown' /\ Progress'
  <2> SUFFICES ASSUME TypeOK, OutcomeKnown, Progress, [Next]_vars
               PROVE  TypeOK' /\ OutcomeKnown' /\ Progress'
    OBVIOUS
  <2>1. TypeOK' /\ OutcomeKnown'
    BY NextTyped, NextKnown
  <2>2. \A j \in Jobs : NotYet(j)' /\ Backed(j)'
    BY <2>1, NextNotYet, NextBacked DEF Progress
  <2> QED BY <2>1, <2>2 DEF Progress
<1>3. TypeOK /\ Progress => ProgressBackedByItems
  <2> SUFFICES ASSUME TypeOK, Progress, NEW j \in Jobs
               PROVE  job[j].processed
                        + SumOver({e \in Slots : exec[e].job = j},
                                  LAMBDA e : Cardinality(InStage(e, "count")))
                      <= SumOver(Students, LAMBDA s : item[j][s].attempts)
    BY DEF ProgressBackedByItems
  <2>1. job[j].processed + CountTally(j) <= AttemptTally(j)
    BY CountTallies, AttemptTallies DEF Progress, Backed
  <2> QED BY <2>1 DEF CountTally, AttemptTally
<1> QED BY <1>1, <1>2, <1>3, InitProgress, PTL DEF Spec
=============================================================================
