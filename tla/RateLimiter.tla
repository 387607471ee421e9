----------------------------- MODULE RateLimiter -----------------------------
(***************************************************************************)
(* The token bucket every provider call passes (RateLimiter), and the      *)
(* retries around it (retryWithBackoff, LeetCodeProvider.request).         *)
(*                                                                         *)
(* One unit of time is the time in which the bucket gains one unit; a      *)
(* token is Cost units, so the rate is one request per Cost ticks.  The    *)
(* bucket is refilled lazily: tokens is what it held when refill last ran, *)
(* elapsed the time since then.                                            *)
(***************************************************************************)
EXTENDS Integers, Sequences, FiniteSets, ProviderErrors

CONSTANTS
    Requests,       \* callers of request(), each used again and again
    Concurrency,    \* options.concurrency
    Burst,          \* capacity of the bucket, in tokens
    Cost,           \* units per token
    MaxRetries,     \* config.provider.maxRetries
    MaxBackoff,     \* bound of a retry's delay, in ticks
    Window          \* how long grants is remembered, in ticks (model only)

ASSUME RateLimiterAssumption ==
    /\ Concurrency \in Nat /\ MaxRetries \in Nat /\ MaxBackoff \in Nat
    /\ Window \in Nat
    /\ Burst \in Nat \ {0}
    /\ Cost \in Nat \ {0}

VARIABLES
    tokens,     \* units in the bucket when it was last refilled
    elapsed,    \* Date.now() - lastRefill, up to what fills the bucket
    active,     \* the limiter's counter of granted and unreleased slots
    queue,      \* the waiters, first in first out
    timer,      \* ticks until the wake-up, Off when none is set
    destroyed,
    call,       \* each caller: where it is, its attempt, its remaining sleep
    grants      \* ages of the grants of the last Window ticks, oldest first

vars == <<tokens, elapsed, active, queue, timer, destroyed, call, grants>>

-----------------------------------------------------------------------------
Off == -1
Capacity == Burst * Cost
Least(a, b) == IF a < b THEN a ELSE b
Most(a, b) == IF a > b THEN a ELSE b
Idle == [pc |-> "idle", attempt |-> 0, sleep |-> 0]
InFlight == {r \in Requests : call[r].pc = "running"}

Init ==
    /\ tokens = Capacity
    /\ elapsed = 0
    /\ active = 0
    /\ queue = <<>>
    /\ timer = Off
    /\ destroyed = FALSE
    /\ call = [r \in Requests |-> Idle]
    /\ grants = <<>>

-----------------------------------------------------------------------------
Refilled == Least(Capacity, tokens + elapsed)

(* Broken variant: the loop asks for a positive balance, not for a token. *)
AdmittedOnCredit(q, slots) ==
    Least(Len(q), Least(Most(0, slots), (Refilled + Cost - 1) \div Cost))

(* How many waiters drain's loop admits: until the queue, the slots or the *)
(* tokens run out.                                                         *)
Admitted(q, slots) == Least(Len(q), Least(Most(0, slots), Refilled \div Cost))

(* Somebody waits and a slot is free: sleep until the next token is due.   *)
Armed(t, left, slots, units) ==
    IF left > 0 /\ slots > 0 /\ t = Off THEN Most(1, Cost - units) ELSE t

(* drain(), with the queue q, act slots in use and the timer t it finds;   *)
(* c is the callers' state, in which the admitted ones start to run.       *)
Drain(q, act, t, c) ==
    LET n == Admitted(q, Concurrency - act)
        units == Refilled - n * Cost
        lucky == {q[i] : i \in 1 .. n}
    IN /\ tokens' = units
       /\ elapsed' = 0
       /\ active' = act + n
       /\ queue' = SubSeq(q, n + 1, Len(q))
       /\ timer' = Armed(t, Len(q) - n, Concurrency - (act + n), units)
       /\ call' = [r \in Requests |->
                     IF r \in lucky THEN [c[r] EXCEPT !.pc = "running"] ELSE c[r]]
       /\ grants' = grants \o [i \in 1 .. n |-> 0]

(* Broken variant: newcomers are served first. *)
AcquireFront(r, c) == Drain(<<r>> \o queue, active, timer, c)

(* acquire(): a caller queues up, and takes its turn at once if it may. *)
Acquire(r, c) == Drain(Append(queue, r), active, timer, c)

(* retryWithBackoff after a failed attempt: give up, or sleep for a random *)
(* time (or the time the provider asked for) and try again.                *)
Backoff(r, d) == [call EXCEPT ![r].pc = "sleeping", ![r].sleep = d]
Settled(r) == [call EXCEPT ![r] = Idle]

(* Whether an answer is a failure worth another attempt. *)
Transient(response) == ErrorOf(response) # NoError /\ IsRetryable(ErrorOf(response))
Verdicts == {Transient(response) : response \in Responses}

(* One attempt: schedule() on a live limiter waits for its turn, on a      *)
(* destroyed one it rejects at once, which counts as a retryable failure.  *)
Attempt(r, c) ==
    IF ~ destroyed
    THEN Acquire(r, c)
    ELSE /\ \/ /\ c[r].attempt < MaxRetries
               /\ \E d \in 0 .. MaxBackoff :
                     call' = [c EXCEPT ![r].pc = "sleeping", ![r].sleep = d]
            \/ /\ c[r].attempt = MaxRetries
               /\ call' = [c EXCEPT ![r] = Idle]
         /\ UNCHANGED <<tokens, elapsed, active, queue, timer, grants>>

Request(r) ==
    /\ call[r].pc = "idle"
    /\ Attempt(r, [call EXCEPT ![r].pc = "queued", ![r].attempt = 0])
    /\ UNCHANGED destroyed

(* The sleep between two attempts is over. *)
Retry(r) ==
    /\ call[r].pc = "sleeping"
    /\ call[r].sleep = 0
    /\ Attempt(r, [call EXCEPT ![r].pc = "queued", ![r].attempt = @ + 1])
    /\ UNCHANGED destroyed

(* Broken variant: the slot is given back only when no retry follows. *)
ReturnWithoutFinally(r) ==
    /\ call[r].pc = "running"
    /\ \E transient \in Verdicts :
          IF transient /\ call[r].attempt < MaxRetries
          THEN \E d \in 0 .. MaxBackoff : Drain(queue, active, timer, Backoff(r, d))
          ELSE Drain(queue, active - 1, timer, Settled(r))
    /\ UNCHANGED destroyed

(* The exchange ends, in an answer or an abort: release() in the finally   *)
(* lets the next waiters in, then the caller retries or settles.           *)
Return(r) ==
    /\ call[r].pc = "running"
    /\ \E transient \in Verdicts :
          IF transient /\ call[r].attempt < MaxRetries
          THEN \E d \in 0 .. MaxBackoff : Drain(queue, active - 1, timer, Backoff(r, d))
          ELSE Drain(queue, active - 1, timer, Settled(r))
    /\ UNCHANGED destroyed

(* Broken variant: the handle is cleared after the drain, which then finds *)
(* it set and arms no successor.                                           *)
FireThenClear ==
    /\ timer = 0
    /\ LET n == Admitted(queue, Concurrency - active)
       IN /\ tokens' = Refilled - n * Cost
          /\ elapsed' = 0
          /\ active' = active + n
          /\ queue' = SubSeq(queue, n + 1, Len(queue))
          /\ timer' = Off
          /\ call' = [r \in Requests |->
                        IF r \in {queue[i] : i \in 1 .. n}
                        THEN [call[r] EXCEPT !.pc = "running"] ELSE call[r]]
          /\ grants' = grants \o [i \in 1 .. n |-> 0]
    /\ UNCHANGED destroyed

(* The wake-up fires, when due or later. *)
Fire ==
    /\ timer = 0
    /\ Drain(queue, active, Off, call)
    /\ UNCHANGED destroyed

(* stats() of the queue-health endpoint refills as well. *)
Stats ==
    /\ tokens' = Refilled
    /\ elapsed' = 0
    /\ UNCHANGED <<active, queue, timer, destroyed, call, grants>>

(* Broken variant: waiters are left to their promises. *)
DestroyTimerOnly ==
    /\ ~ destroyed
    /\ destroyed' = TRUE
    /\ timer' = Off
    /\ UNCHANGED <<tokens, elapsed, active, queue, call, grants>>

(* destroy(): every waiter is rejected; its caller retries like after any  *)
(* other failure of unknown origin.                                        *)
Destroy ==
    /\ ~ destroyed
    /\ destroyed' = TRUE
    /\ timer' = Off
    /\ queue' = <<>>
    /\ \E d \in [Requests -> 0 .. MaxBackoff] :
          call' = [r \in Requests |->
                     IF call[r].pc # "queued" THEN call[r]
                     ELSE IF call[r].attempt < MaxRetries
                          THEN [call[r] EXCEPT !.pc = "sleeping", !.sleep = d[r]]
                          ELSE Idle]
    /\ UNCHANGED <<tokens, elapsed, active, grants>>

(* Time passes; the event loop may be late for what is due. *)
Tick ==
    /\ elapsed' = Least(Capacity, elapsed + 1)
    /\ timer' = IF timer = Off THEN Off ELSE Most(0, timer - 1)
    /\ call' = [r \in Requests |-> [call[r] EXCEPT !.sleep = Most(0, @ - 1)]]
    /\ grants' = LET old == Cardinality({i \in 1 .. Len(grants) : grants[i] = Window})
                 IN [i \in 1 .. Len(grants) - old |-> grants[i + old] + 1]
    /\ UNCHANGED <<tokens, active, queue, destroyed>>

Next ==
    \/ \E r \in Requests : Request(r) \/ Retry(r) \/ Return(r)
    \/ Fire \/ Stats \/ Destroy \/ Tick

Spec == Init /\ [][Next]_vars

(* Time passes, due timers fire, and a request ends because its abort      *)
(* timer ends it; nobody is obliged to send one.                           *)
Fairness ==
    /\ WF_vars(Tick) /\ WF_vars(Fire)
    /\ \A r \in Requests : WF_vars(Retry(r) \/ Return(r))

FairSpec == Spec /\ Fairness

-----------------------------------------------------------------------------
(* Typing.                                                                 *)
TypeOK ==
    /\ tokens \in 0 .. Capacity
    /\ elapsed \in 0 .. Capacity
    /\ active \in Nat
    /\ queue \in Seq(Requests)
    /\ timer \in {Off} \cup (0 .. Cost)
    /\ destroyed \in BOOLEAN
    /\ call \in [Requests -> [pc : {"idle", "queued", "running", "sleeping"},
                              attempt : 0 .. MaxRetries, sleep : 0 .. MaxBackoff]]
    /\ grants \in Seq(0 .. Window)

(* The limiter's counter is the number of requests on the wire, and it     *)
(* stays within options.concurrency, however failures, retries and the     *)
(* shutdown interleave: a slot is given back exactly once.                 *)
SlotsAccounted ==
    /\ active = Cardinality(InFlight)
    /\ active <= Concurrency

(* "Rate bounds the long-run request rate": in no interval, whenever it    *)
(* begins, do more requests leave than the burst and the rate allow, lazy  *)
(* refills, late timers and health-endpoint reads included.                *)
RateBounded ==
    \A i, j \in 1 .. Len(grants) :
        i <= j => (j - i + 1) * Cost <= Capacity + (grants[i] - grants[j])

(* No waiter is stranded: while somebody waits, a wake-up is set or a slot *)
(* is in use whose release will serve the queue; and exactly the callers   *)
(* that wait are in the queue, once each.                                  *)
WaitersHaveWakeup ==
    /\ queue # <<>> => timer # Off \/ active >= Concurrency
    /\ {queue[i] : i \in 1 .. Len(queue)} = {r \in Requests : call[r].pc = "queued"}
    /\ Cardinality({queue[i] : i \in 1 .. Len(queue)}) = Len(queue)

(* "Waiters are served strictly first-in-first-out": a step lets in some   *)
(* of those who waited longest, and a newcomer only behind all of them.    *)
Started == {r \in Requests : call[r].pc # "running" /\ call'[r].pc = "running"}
LongestFirst ==
    \E n \in 0 .. Len(queue) :
       LET longest == {queue[i] : i \in 1 .. n}
           rest == SubSeq(queue, n + 1, Len(queue))
       IN \/ queue' = rest /\ Started \subseteq longest
          \/ \E r \in Requests : queue' = Append(rest, r) /\ Started = longest
          \/ queue' = <<>> /\ rest = <<>>
          \/ queue' = <<>> /\ Started = {}
ServedInOrder == [][LongestFirst]_vars

(* Every request ends, in an answer or an error, whoever else keeps asking *)
(* and whether or not the limiter is shut down meanwhile.                  *)
EveryRequestEnds ==
    Concurrency > 0 => \A r \in Requests : call[r].pc # "idle" ~> call[r].pc = "idle"
=============================================================================
