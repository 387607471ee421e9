------------------------ MODULE ProviderCalls_proofs ------------------------
(* Proofs about the three components that call a provider.  RateLimiter,    *)
(* for any number of callers, any burst, rate and concurrency: slots are    *)
(* accounted for, waiters are not stranded and are served in order, and no  *)
(* interval sees more grants than the bucket allows.  EmailReports, for any *)
(* number of reports and overlapping requests: the approval gate, the       *)
(* meaning of SENT, and, when replies are not lost and a report is approved *)
(* once, one mail per report.  StudentSync, for any accounts, overlapping   *)
(* syncs, limit, bounds and faults: the cursor skips no submission, and     *)
(* none that was mirrored is lost between the syncs and their jobs.         *)
EXTENDS RateLimiter, EmailReportState, StudentSyncState, FiniteSetTheorems,
        SequenceTheorems, TLAPS

-----------------------------------------------------------------------------
(* The inductive invariant.                                                *)
TimerType == {Off} \cup (0 .. Cost)
CallType == [Requests -> [pc : {"idle", "queued", "running", "sleeping"},
                          attempt : 0 .. MaxRetries, sleep : 0 .. MaxBackoff]]

Running(c) == {r \in Requests : c[r].pc = "running"}
Waiting(c) == {r \in Requests : c[r].pc = "queued"}
InjectiveSeq(q) == \A i, j \in 1 .. Len(q) : q[i] = q[j] => i = j

(* The queue q, the counter act and the callers c agree. *)
Accounted(q, act, c) ==
    /\ InjectiveSeq(q)
    /\ {q[i] : i \in 1 .. Len(q)} = Waiting(c)
    /\ IsFiniteSet(Running(c))
    /\ act = Cardinality(Running(c))
    /\ act <= Concurrency

Awake == queue # <<>> => timer # Off \/ active >= Concurrency

(* Every grant of the window was paid for from the bucket: what has been   *)
(* spent since and what is left never exceed a full bucket and the refill. *)
Oldest1st(g) == \A i, j \in 1 .. Len(g) : i <= j => g[i] >= g[j]
Bounded(g) == \A i, j \in 1 .. Len(g) :
                 i <= j => (j - i + 1) * Cost <= Capacity + (g[i] - g[j])
Paid(g, units) == \A i \in 1 .. Len(g) :
                 (Len(g) - i + 1) * Cost + units <= Capacity + g[i]
Budget == Oldest1st(grants) /\ Bounded(grants) /\ Paid(grants, Refilled)

(* Who sleeps before a retry has one left. *)
RetriesLeft(c) == \A r \in Requests : c[r].pc = "sleeping" => c[r].attempt < MaxRetries

IInv == TypeOK /\ Accounted(queue, active, call) /\ Awake /\ Budget /\ RetriesLeft(call)

-----------------------------------------------------------------------------
(* Arithmetic of the bucket.                                               *)
LEMMA CapacityType == Capacity \in Nat \ {0} /\ Capacity >= Cost
  BY RateLimiterAssumption DEF Capacity

(* Whole tokens never cost more than the units they are paid from. *)
LEMMA WholeTokens ==
  ASSUME NEW u \in Nat, NEW n \in Nat, n <= u \div Cost
  PROVE  n * Cost <= u /\ n * Cost \in Nat
<1>1. (u \div Cost) \in Nat /\ (u \div Cost) * Cost <= u
  BY RateLimiterAssumption
<1>2. n * Cost <= (u \div Cost) * Cost
  BY <1>1, RateLimiterAssumption
<1> QED BY <1>1, <1>2, RateLimiterAssumption

LEMMA RefilledType ==
  ASSUME TypeOK
  PROVE  Refilled \in 0 .. Capacity
  BY CapacityType DEF TypeOK, Refilled, Least

-----------------------------------------------------------------------------
(* What drain() does.                                                      *)
LEMMA AdmittedBounds ==
  ASSUME TypeOK, NEW q \in Seq(Requests), NEW slots \in Int
  PROVE  /\ Admitted(q, slots) \in 0 .. Len(q)
         /\ Admitted(q, slots) <= Most(0, slots)
         /\ Admitted(q, slots) * Cost <= Refilled
         /\ Admitted(q, slots) * Cost \in Nat
<1> DEFINE n == Admitted(q, slots)
<1>1. Refilled \in Nat /\ Len(q) \in Nat
  BY RefilledType, CapacityType
<1>2. (Refilled \div Cost) \in Nat
  BY <1>1, RateLimiterAssumption
<1>3. n \in 0 .. Len(q) /\ n <= Most(0, slots) /\ n <= Refilled \div Cost
  BY <1>1, <1>2 DEF Admitted, Least, Most
<1> HIDE DEF n
<1>4. n \in Nat
  BY <1>1, <1>3
<1>5. n * Cost <= Refilled /\ n * Cost \in Nat
  BY <1>1, <1>3, <1>4, WholeTokens
<1> QED BY <1>3, <1>5 DEF n

(* A prefix of a queue without repetitions holds as many callers as it is  *)
(* long.                                                                   *)
LEMMA PrefixCount ==
  ASSUME NEW q \in Seq(Requests), InjectiveSeq(q), NEW n \in 0 .. Len(q)
  PROVE  /\ IsFiniteSet({q[i] : i \in 1 .. n})
         /\ Cardinality({q[i] : i \in 1 .. n}) = n
<1> DEFINE L == {q[i] : i \in 1 .. n}
           f == [i \in 1 .. n |-> q[i]]
<1>1. f \in Bijection(1 .. n, L)
  BY DEF InjectiveSeq, Bijection, Injection, Surjection, IsInjective
<1>2. ExistsBijection(1 .. n, L)
  BY <1>1 DEF ExistsBijection
<1>3. IsFiniteSet(1 .. n) /\ Cardinality(1 .. n) = n
  BY FS_Interval
<1> QED BY <1>2, <1>3, FS_Bijection

(* The new calls: the admitted ones run, the others are as in c. *)
LEMMA DrainCalls ==
  ASSUME TypeOK, NEW q \in Seq(Requests), NEW act \in Nat, NEW t \in TimerType,
         NEW c \in CallType, Accounted(q, act, c), Drain(q, act, t, c)
  PROVE  LET n == Admitted(q, Concurrency - act)
             lucky == {q[i] : i \in 1 .. n}
         IN /\ call' \in CallType
            /\ Running(call') = Running(c) \cup lucky
            /\ Running(c) \cap lucky = {}
            /\ Waiting(call') = Waiting(c) \ lucky
            /\ lucky \subseteq Waiting(c)
<1> DEFINE n == Admitted(q, Concurrency - act)
           lucky == {q[i] : i \in 1 .. n}
<1>0. Concurrency - act \in Int
  BY RateLimiterAssumption
<1>1. n \in 0 .. Len(q)
  BY <1>0, AdmittedBounds
<1>2. call' = [r \in Requests |->
                 IF r \in lucky THEN [c[r] EXCEPT !.pc = "running"] ELSE c[r]]
  BY DEF Drain
<1> HIDE DEF n
<1>3. lucky \subseteq Waiting(c)
  BY <1>1 DEF Accounted
<1> HIDE DEF lucky
<1>4. call' \in CallType
  BY <1>2 DEF CallType
<1>5. \A r \in Requests : call'[r].pc = IF r \in lucky THEN "running" ELSE c[r].pc
  BY <1>2 DEF CallType
<1>6. /\ Running(call') = Running(c) \cup lucky
      /\ Waiting(call') = Waiting(c) \ lucky
      /\ Running(c) \cap lucky = {}
  BY <1>3, <1>5 DEF Running, Waiting
<1> QED BY <1>3, <1>4, <1>6 DEF n, lucky

(* The rest of the queue: the waiters behind the admitted ones. *)
LEMMA DrainQueue ==
  ASSUME NEW q \in Seq(Requests), InjectiveSeq(q), NEW n \in 0 .. Len(q)
  PROVE  LET rest == SubSeq(q, n + 1, Len(q))
             lucky == {q[i] : i \in 1 .. n}
         IN /\ rest \in Seq(Requests)
            /\ Len(rest) = Len(q) - n
            /\ \A i \in 1 .. Len(rest) : rest[i] = q[n + i]
            /\ InjectiveSeq(rest)
            /\ {rest[i] : i \in 1 .. Len(rest)} = {q[i] : i \in 1 .. Len(q)} \ lucky
<1> DEFINE rest == SubSeq(q, n + 1, Len(q))
           lucky == {q[i] : i \in 1 .. n}
<1>0. Len(q) \in Nat
  OBVIOUS
<1>1. /\ rest \in Seq(Requests)
      /\ Len(rest) = Len(q) - n
      /\ \A i \in 1 .. Len(rest) : rest[i] = q[n + i]
  <2>1. \A i \in n + 1 .. Len(q) : q[i] \in Requests
    BY <1>0
  <2>2. /\ rest \in Seq(Requests)
        /\ Len(rest) = IF n + 1 <= Len(q) THEN Len(q) - (n + 1) + 1 ELSE 0
        /\ \A i \in 1 .. Len(q) - (n + 1) + 1 : rest[i] = q[n + 1 + i - 1]
    BY <1>0, <2>1, SubSeqProperties
  <2> HIDE DEF rest
  <2>3. n \in Nat /\ n <= Len(q)
    BY <1>0
  <2>4. Len(rest) = Len(q) - n
    BY <1>0, <2>2, <2>3
  <2>5. \A i \in 1 .. Len(rest) : i \in 1 .. Len(q) - (n + 1) + 1 /\ n + 1 + i - 1 = n + i
    BY <1>0, <2>3, <2>4
  <2> QED BY <2>2, <2>4, <2>5
<1> HIDE DEF rest
<1>2. InjectiveSeq(rest)
  <2> SUFFICES ASSUME NEW i \in 1 .. Len(rest), NEW j \in 1 .. Len(rest), rest[i] = rest[j]
               PROVE  i = j
    BY DEF InjectiveSeq
  <2>1. n + i \in 1 .. Len(q) /\ n + j \in 1 .. Len(q) /\ q[n + i] = q[n + j]
    BY <1>0, <1>1
  <2> QED BY <2>1, <1>0 DEF InjectiveSeq
<1>3. {rest[i] : i \in 1 .. Len(rest)} = {q[i] : i \in 1 .. Len(q)} \ lucky
  <2>1. ASSUME NEW i \in 1 .. Len(rest)
        PROVE  rest[i] \in {q[k] : k \in 1 .. Len(q)} \ lucky
    <3>1. n + i \in 1 .. Len(q) /\ rest[i] = q[n + i]
      BY <1>0, <1>1
    <3>2. \A k \in 1 .. n : k \in 1 .. Len(q) /\ k # n + i
      BY <1>0
    <3> QED BY <3>1, <3>2 DEF InjectiveSeq
  <2>2. ASSUME NEW k \in 1 .. Len(q), q[k] \notin lucky
        PROVE  q[k] \in {rest[i] : i \in 1 .. Len(rest)}
    <3>1. k - n \in 1 .. Len(rest) /\ n + (k - n) = k
      BY <1>0, <1>1, <2>2
    <3> QED BY <3>1, <1>1
  <2> QED BY <2>1, <2>2
<1> QED BY <1>1, <1>2, <1>3 DEF rest

(* drain() keeps queue, counter and callers in agreement ... *)
LEMMA DrainAccounts ==
  ASSUME TypeOK, NEW q \in Seq(Requests), NEW act \in Nat, NEW t \in TimerType,
         NEW c \in CallType, Accounted(q, act, c), Drain(q, act, t, c)
  PROVE  Accounted(queue', active', call')
<1> DEFINE n == Admitted(q, Concurrency - act)
           lucky == {q[i] : i \in 1 .. n}
<1>0. Concurrency - act \in Int /\ InjectiveSeq(q) /\ act = Cardinality(Running(c))
  BY RateLimiterAssumption DEF Accounted
<1>1. n \in 0 .. Len(q) /\ n <= Most(0, Concurrency - act)
  BY <1>0, AdmittedBounds
<1>2. queue' = SubSeq(q, n + 1, Len(q)) /\ active' = act + n
  BY DEF Drain
<1>3. /\ Running(call') = Running(c) \cup lucky
      /\ Running(c) \cap lucky = {}
      /\ Waiting(call') = Waiting(c) \ lucky
  BY DrainCalls
<1> HIDE DEF n
<1>4. InjectiveSeq(queue') /\ {queue'[i] : i \in 1 .. Len(queue')} = Waiting(call')
  <2>1. /\ InjectiveSeq(queue')
        /\ {queue'[i] : i \in 1 .. Len(queue')} = {q[i] : i \in 1 .. Len(q)} \ lucky
    BY ZenonT(40), <1>0, <1>1, <1>2, DrainQueue
  <2> HIDE DEF lucky
  <2> QED BY <1>3, <2>1 DEF Accounted
<1>5. IsFiniteSet(lucky) /\ Cardinality(lucky) = n
  BY <1>0, <1>1, PrefixCount
<1> HIDE DEF lucky
<1>6. IsFiniteSet(Running(c))
  BY DEF Accounted
<1>7. /\ IsFiniteSet(Running(call'))
      /\ Cardinality(Running(call')) = act + n
  <2>1. Cardinality(Running(c) \cap lucky) = 0
    BY <1>3, FS_EmptySet
  <2>2. /\ IsFiniteSet(Running(c) \cup lucky)
        /\ Cardinality(Running(c) \cup lucky)
             = Cardinality(Running(c)) + Cardinality(lucky) - Cardinality(Running(c) \cap lucky)
    BY <1>5, <1>6, FS_Union
  <2>3. n \in Nat
    BY <1>1
  <2> QED BY <1>0, <1>3, <1>5, <2>1, <2>2, <2>3
<1>8. active' <= Concurrency
  BY <1>1, <1>2, RateLimiterAssumption DEF Accounted, Most
<1> QED BY <1>2, <1>4, <1>7, <1>8 DEF Accounted

(* ... keeps every variable of its type ... *)
LEMMA DrainTypes ==
  ASSUME TypeOK, NEW q \in Seq(Requests), NEW act \in Nat, NEW t \in TimerType,
         NEW c \in CallType, Accounted(q, act, c), Drain(q, act, t, c), UNCHANGED destroyed
  PROVE  TypeOK'
<1> DEFINE n == Admitted(q, Concurrency - act)
           units == Refilled - n * Cost
<1>0. Concurrency - act \in Int /\ InjectiveSeq(q)
  BY RateLimiterAssumption DEF Accounted
<1>1. n \in 0 .. Len(q) /\ n * Cost <= Refilled /\ n * Cost \in Nat
  BY <1>0, AdmittedBounds
<1>2. units \in 0 .. Capacity
  BY <1>1, RefilledType, CapacityType
<1>3. /\ tokens' = units /\ elapsed' = 0 /\ active' = act + n
      /\ queue' = SubSeq(q, n + 1, Len(q))
      /\ timer' = Armed(t, Len(q) - n, Concurrency - (act + n), units)
      /\ grants' = grants \o [i \in 1 .. n |-> 0]
  BY DEF Drain
<1>4. call' \in CallType
  BY DrainCalls
<1> HIDE DEF n, units
<1>5. queue' \in Seq(Requests)
  BY <1>0, <1>1, <1>3, DrainQueue
<1>6. timer' \in TimerType
  BY <1>2, <1>3, RateLimiterAssumption DEF Armed, Most, TimerType, Off
<1>7. grants' \in Seq(0 .. Window)
  <2>1. [i \in 1 .. n |-> 0] \in Seq(0 .. Window)
    BY <1>1, RateLimiterAssumption
  <2> QED BY <2>1, <1>3, ConcatProperties DEF TypeOK
<1>8. tokens' \in 0 .. Capacity /\ elapsed' \in 0 .. Capacity /\ active' \in Nat
  BY <1>1, <1>2, <1>3, CapacityType
<1> QED BY <1>4, <1>5, <1>6, <1>7, <1>8 DEF TypeOK, TimerType, CallType

(* ... sets a wake-up for whoever is left behind with a slot free ... *)
LEMMA DrainAwakes ==
  ASSUME TypeOK, NEW q \in Seq(Requests), NEW act \in Nat, NEW t \in TimerType,
         NEW c \in CallType, Accounted(q, act, c), Drain(q, act, t, c)
  PROVE  Awake'
<1> DEFINE n == Admitted(q, Concurrency - act)
           units == Refilled - n * Cost
<1>0. Concurrency - act \in Int /\ InjectiveSeq(q)
  BY RateLimiterAssumption DEF Accounted
<1>1. n \in 0 .. Len(q) /\ n * Cost <= Refilled /\ n * Cost \in Nat
  BY <1>0, AdmittedBounds
<1>2. units \in Int
  BY <1>1, RefilledType, CapacityType
<1>3. /\ active' = act + n
      /\ queue' = SubSeq(q, n + 1, Len(q))
      /\ timer' = Armed(t, Len(q) - n, Concurrency - (act + n), units)
  BY DEF Drain
<1> HIDE DEF n, units
<1>4. queue' \in Seq(Requests) /\ Len(queue') = Len(q) - n
  BY <1>0, <1>1, <1>3, DrainQueue
<1>5. SUFFICES ASSUME queue' # <<>>, timer' = Off
               PROVE  active' >= Concurrency
  BY DEF Awake
<1>6. Len(q) - n > 0
  BY <1>4, <1>5, EmptySeq
<1>7. ~ (Concurrency - (act + n) > 0)
  BY <1>2, <1>3, <1>5, <1>6, RateLimiterAssumption DEF Armed, Most, Off
<1> QED BY <1>1, <1>3, <1>7, RateLimiterAssumption

(* Multiples of the price of a token. *)
LEMMA PriceDistributes ==
  ASSUME NEW a \in Int, NEW b \in Int
  PROVE  (a + b) * Cost = a * Cost + b * Cost /\ a * Cost \in Int /\ b * Cost \in Int
  BY RateLimiterAssumption

LEMMA PriceMonotonic ==
  ASSUME NEW a \in Int, NEW b \in Int, a <= b
  PROVE  a * Cost <= b * Cost /\ a * Cost \in Int /\ b * Cost \in Int
  BY RateLimiterAssumption

(* ... and pays for whom it lets in. *)
LEMMA DrainPays ==
  ASSUME TypeOK, Budget, NEW q \in Seq(Requests), NEW act \in Nat, NEW t \in TimerType,
         NEW c \in CallType, Drain(q, act, t, c)
  PROVE  Budget'
<1> DEFINE n == Admitted(q, Concurrency - act)
           L == Len(grants)
           spent == n * Cost
<1>0. Concurrency - act \in Int
  BY RateLimiterAssumption
<1>1. n \in 0 .. Len(q) /\ spent <= Refilled /\ spent \in Nat
  BY <1>0, AdmittedBounds
<1>2. n \in Nat /\ L \in Nat /\ Refilled \in 0 .. Capacity /\ Capacity \in Nat
  BY <1>1, RefilledType, CapacityType DEF TypeOK
<1>3. tokens' = Refilled - spent /\ elapsed' = 0 /\ grants' = grants \o [i \in 1 .. n |-> 0]
  BY DEF Drain
<1>4. Refilled' = Refilled - spent
  <2>1. Refilled' = Least(Capacity, tokens' + elapsed')
    BY DEF Refilled, Least, Capacity
  <2> QED BY <2>1, <1>1, <1>2, <1>3 DEF Least
<1>5. /\ Len(grants') = L + n
      /\ \A i \in 1 .. L + n : grants'[i] = IF i <= L THEN grants[i] ELSE 0
  <2>1. [i \in 1 .. n |-> 0] \in Seq(0 .. Window) /\ grants \in Seq(0 .. Window)
    BY <1>2, RateLimiterAssumption DEF TypeOK
  <2>2. Len([i \in 1 .. n |-> 0]) = n
    BY <1>2
  <2> QED BY <2>1, <2>2, <1>2, <1>3, ConcatProperties
<1>6. \A i \in 1 .. L : grants[i] \in Nat
  BY RateLimiterAssumption DEF TypeOK
<1>7. \A i \in 1 .. L : (L - i + 1) * Cost + Refilled <= Capacity + grants[i]
  BY DEF Budget, Paid
<1> HIDE DEF n, L, spent
<1>8. Oldest1st(grants')
  <2> SUFFICES ASSUME NEW i \in 1 .. L + n, NEW j \in 1 .. L + n, i <= j
               PROVE  grants'[i] >= grants'[j]
    BY <1>5 DEF Oldest1st
  <2>1. CASE j <= L
    <3>1. i \in 1 .. L /\ j \in 1 .. L
      BY <1>2, <2>1
    <3> QED BY <3>1, <1>5, <2>1, <1>2 DEF Budget, Oldest1st, L
  <2>2. CASE j > L
    BY <2>2, <1>2, <1>5, <1>6
  <2> QED BY <2>1, <2>2, <1>2
<1>9. Bounded(grants')
  <2> SUFFICES ASSUME NEW i \in 1 .. L + n, NEW j \in 1 .. L + n, i <= j
               PROVE  (j - i + 1) * Cost <= Capacity + (grants'[i] - grants'[j])
    BY <1>5 DEF Bounded
  <2>1. CASE j <= L
    <3>1. i \in 1 .. L /\ j \in 1 .. L
      BY <1>2, <2>1
    <3>2. grants'[i] = grants[i] /\ grants'[j] = grants[j]
      BY <3>1, <1>2, <1>5
    <3> QED BY <3>1, <3>2 DEF Budget, Bounded, L
  <2>2. CASE i <= L /\ j > L
    <3>1. i \in 1 .. L /\ j - L \in Int /\ L - i + 1 \in Int /\ j - L <= n
      BY <1>2, <2>2
    <3>2. j - i + 1 = (L - i + 1) + (j - L)
      BY <1>2
    <3>3. (j - i + 1) * Cost = (L - i + 1) * Cost + (j - L) * Cost
      BY <3>1, <3>2, PriceDistributes
    <3>4. (j - L) * Cost <= spent /\ (j - L) * Cost \in Int
      BY <3>1, <1>2, PriceMonotonic DEF spent
    <3>5. (L - i + 1) * Cost \in Int
      BY <3>1, PriceDistributes
    <3>6. (L - i + 1) * Cost + Refilled <= Capacity + grants[i]
      BY <3>1, <1>7
    <3>7. grants'[i] = grants[i] /\ grants'[j] = 0 /\ grants[i] \in Nat
      BY <3>1, <2>2, <1>2, <1>5, <1>6
    <3> QED BY SMTT(20), <3>3, <3>4, <3>5, <3>6, <3>7, <1>1, <1>2
  <2>3. CASE i > L
    <3>1. j - i + 1 \in Int /\ j - i + 1 <= n /\ grants'[i] = 0 /\ grants'[j] = 0
      BY <1>2, <1>5, <2>3
    <3>2. PICK k \in Int : k = j - i + 1
      BY <3>1
    <3>3. k * Cost <= spent /\ k * Cost \in Int
      <4>1. k <= n /\ n \in Int
        BY <3>1, <3>2, <1>2
      <4> QED BY <4>1, PriceMonotonic, Zenon DEF spent
    <3>4. k * Cost <= Capacity + (grants'[i] - grants'[j])
      BY <3>1, <3>3, <1>1, <1>2
    <3> QED BY <3>2, <3>4, Zenon
  <2> QED BY <2>1, <2>2, <2>3, <1>2
<1>10. Paid(grants', Refilled')
  <2>1. PICK M \in Nat : M = L + n
    BY <1>2
  <2>2. Len(grants') = M
    BY <1>5, <2>1
  <2> SUFFICES ASSUME NEW i \in 1 .. M
               PROVE  (M - i + 1) * Cost + (Refilled - spent) <= Capacity + grants'[i]
    BY <1>4, <2>2 DEF Paid
  <2>3. PICK k \in Int : k = M - i + 1
    BY <2>1
  <2> SUFFICES k * Cost + (Refilled - spent) <= Capacity + grants'[i]
    BY <2>3, Zenon
  <2>4. CASE i <= L
    <3>1. PICK m \in Int : m = L - i + 1
      BY <1>2, <2>1
    <3>2. i \in 1 .. L /\ k = m + n /\ n \in Int
      BY <3>1, <2>1, <2>3, <1>2, <2>4
    <3>3. k * Cost = m * Cost + spent /\ m * Cost \in Int
      BY <3>2, PriceDistributes, Zenon DEF spent
    <3>4. m * Cost + Refilled <= Capacity + grants[i]
      BY <3>1, <3>2, <1>7, Zenon
    <3>5. grants'[i] = grants[i] /\ grants[i] \in Nat
      BY <2>1, <2>4, <3>2, <1>5, <1>6
    <3> QED BY <3>3, <3>4, <3>5, <1>1, <1>2
  <2>5. CASE i > L
    <3>1. k <= n /\ n \in Int /\ grants'[i] = 0
      BY <1>2, <1>5, <2>1, <2>3, <2>5
    <3>2. k * Cost <= spent /\ k * Cost \in Int
      BY <3>1, PriceMonotonic, Zenon DEF spent
    <3> QED BY <3>1, <3>2, <1>1, <1>2
  <2> QED BY <2>1, <2>4, <2>5, <1>2
<1> QED BY <1>8, <1>9, <1>10 DEF Budget

LEMMA DrainRetries ==
  ASSUME NEW q, NEW act, NEW t, NEW c \in CallType, RetriesLeft(c), Drain(q, act, t, c)
  PROVE  RetriesLeft(call')
<1> DEFINE lucky == {q[i] : i \in 1 .. Admitted(q, Concurrency - act)}
<1>1. call' = [r \in Requests |->
                 IF r \in lucky THEN [c[r] EXCEPT !.pc = "running"] ELSE c[r]]
  BY DEF Drain
<1> HIDE DEF lucky
<1> QED BY <1>1 DEF RetriesLeft, CallType

(* So a step that ends in drain() keeps the invariant, if what it hands to  *)
(* drain() is in order.                                                    *)
LEMMA DrainKeeps ==
  ASSUME IInv, NEW q \in Seq(Requests), NEW act \in Nat, NEW t \in TimerType,
         NEW c \in CallType, Accounted(q, act, c), RetriesLeft(c), Drain(q, act, t, c),
         UNCHANGED destroyed
  PROVE  IInv'
<1>1. Accounted(queue', active', call')
  BY DrainAccounts DEF IInv
<1>2. RetriesLeft(call')
  BY DrainRetries
<1>3. Accounted(queue, active, call)' /\ RetriesLeft(call)'
  BY <1>1, <1>2 DEF Accounted, InjectiveSeq, Waiting, Running, RetriesLeft
<1> QED BY <1>3, DrainTypes, DrainAwakes, DrainPays DEF IInv

-----------------------------------------------------------------------------
(* What the steps hand to drain().                                         *)

(* A caller that changes into c[r], the others left alone. *)
Others(c, r) == \A s \in Requests \ {r} : c[s] = call[s]

(* acquire(): a caller that was neither waiting nor running queues up. *)
LEMMA QueuesUp ==
  ASSUME TypeOK, Accounted(queue, active, call), NEW r \in Requests,
         call[r].pc \notin {"queued", "running"},
         NEW c \in CallType, c[r].pc = "queued", Others(c, r)
  PROVE  Append(queue, r) \in Seq(Requests) /\ Accounted(Append(queue, r), active, c)
<1> DEFINE q == Append(queue, r)
<1>1. /\ queue \in Seq(Requests) /\ Len(queue) \in Nat
      /\ q \in Seq(Requests) /\ Len(q) = Len(queue) + 1
      /\ \A i \in 1 .. Len(queue) : q[i] = queue[i]
      /\ q[Len(queue) + 1] = r
  BY AppendProperties DEF TypeOK
<1> HIDE DEF q
<1>2. Running(c) = Running(call) /\ Waiting(c) = Waiting(call) \cup {r} /\ r \notin Waiting(call)
  BY DEF Running, Waiting, Others
<1>3. \A i \in 1 .. Len(queue) : queue[i] # r
  BY <1>2 DEF Accounted
<1>4. InjectiveSeq(q)
  <2> SUFFICES ASSUME NEW i \in 1 .. Len(q), NEW j \in 1 .. Len(q), q[i] = q[j]
               PROVE  i = j
    BY DEF InjectiveSeq
  <2>1. CASE i \in 1 .. Len(queue) /\ j \in 1 .. Len(queue)
    BY <2>1, <1>1 DEF Accounted, InjectiveSeq
  <2>2. CASE i \in 1 .. Len(queue) /\ j = Len(queue) + 1
    BY <2>2, <1>1, <1>3
  <2>3. CASE i = Len(queue) + 1 /\ j \in 1 .. Len(queue)
    BY <2>3, <1>1, <1>3
  <2> QED BY <2>1, <2>2, <2>3, <1>1
<1>5. {q[i] : i \in 1 .. Len(q)} = {queue[i] : i \in 1 .. Len(queue)} \cup {r}
  <2>1. 1 .. Len(q) = (1 .. Len(queue)) \cup {Len(queue) + 1}
    BY <1>1
  <2> QED BY <2>1, <1>1
<1> QED BY <1>1, <1>2, <1>4, <1>5 DEF Accounted, q

(* release(): a running caller leaves, and with it one slot. *)
LEMMA GivesBack ==
  ASSUME TypeOK, Accounted(queue, active, call), NEW r \in Requests, call[r].pc = "running",
         NEW c \in CallType, c[r].pc \notin {"queued", "running"}, Others(c, r)
  PROVE  active - 1 \in Nat /\ Accounted(queue, active - 1, c)
<1>1. /\ Running(c) = Running(call) \ {r} /\ r \in Running(call)
      /\ Waiting(c) = Waiting(call)
  BY DEF Running, Waiting, Others
<1>2. IsFiniteSet(Running(call)) /\ active = Cardinality(Running(call)) /\ active <= Concurrency
  BY DEF Accounted
<1>3. IsFiniteSet(Running(c)) /\ Cardinality(Running(c)) = active - 1
  BY <1>1, <1>2, FS_RemoveElement
<1>4. active - 1 \in Nat
  BY <1>3, FS_CardinalityType
<1>5. active - 1 <= Concurrency
  BY <1>2, RateLimiterAssumption DEF TypeOK
<1> QED BY <1>1, <1>3, <1>4, <1>5 DEF Accounted

(* A caller that neither waits nor runs before or after the step. *)
LEMMA StaysOut ==
  ASSUME TypeOK, Accounted(queue, active, call), NEW r \in Requests,
         call[r].pc \notin {"queued", "running"},
         NEW c \in CallType, c[r].pc \notin {"queued", "running"}, Others(c, r)
  PROVE  Accounted(queue, active, c)
<1>1. Running(c) = Running(call) /\ Waiting(c) = Waiting(call)
  BY DEF Running, Waiting, Others
<1> QED BY <1>1 DEF Accounted

(* The attempt of a caller that was idle or asleep, on a live limiter and   *)
(* on a destroyed one.                                                     *)
LEMMA AttemptKeeps ==
  ASSUME IInv, NEW r \in Requests, call[r].pc \notin {"queued", "running"},
         NEW c \in CallType, c[r].pc = "queued", Others(c, r),
         Attempt(r, c), UNCHANGED destroyed
  PROVE  IInv'
<1>0. TypeOK /\ Accounted(queue, active, call) /\ active \in Nat /\ timer \in TimerType
  BY DEF IInv, TypeOK, TimerType
<1>1. CASE ~ destroyed
  <2>1. Drain(Append(queue, r), active, timer, c)
    BY <1>1 DEF Attempt, Acquire
  <2>2. Append(queue, r) \in Seq(Requests) /\ Accounted(Append(queue, r), active, c)
    BY <1>0, QueuesUp
  <2>3. RetriesLeft(c)
    BY DEF IInv, RetriesLeft, Others
  <2> QED BY <1>0, <2>1, <2>2, <2>3, DrainKeeps
<1>2. CASE destroyed
  <2>1. /\ call' \in CallType /\ call'[r].pc \in {"sleeping", "idle"} /\ Others(call', r)
        /\ call'[r].pc = "sleeping" => call'[r].attempt < MaxRetries
    <3>1. CASE c[r].attempt < MaxRetries /\ \E d \in 0 .. MaxBackoff :
                 call' = [c EXCEPT ![r].pc = "sleeping", ![r].sleep = d]
      BY ZenonT(40), <3>1 DEF CallType, Others
    <3>2. CASE call' = [c EXCEPT ![r] = Idle]
      BY <3>2, RateLimiterAssumption DEF CallType, Others, Idle
    <3> QED BY <3>1, <3>2, <1>2 DEF Attempt
  <2>2. UNCHANGED <<tokens, elapsed, active, queue, timer, grants>>
    BY <1>2 DEF Attempt
  <2>3. Accounted(queue, active, call')
    BY <1>0, <2>1, StaysOut
  <2>4. TypeOK' /\ RetriesLeft(call') /\ Awake' /\ Budget'
    BY <2>1, <2>2 DEF IInv, TypeOK, CallType, RetriesLeft, Others, Awake, Budget,
         Oldest1st, Bounded, Paid, Refilled, Least
  <2>5. Accounted(queue, active, call)' /\ RetriesLeft(call)'
    BY <2>2, <2>3, <2>4 DEF Accounted, InjectiveSeq, Waiting, Running, RetriesLeft
  <2> QED BY <2>4, <2>5 DEF IInv
<1> QED BY <1>1, <1>2

LEMMA AsksForSlot ==
  ASSUME TypeOK, NEW r \in Requests, NEW a \in 0 .. MaxRetries, NEW c,
         c = [call EXCEPT ![r].pc = "queued", ![r].attempt = a]
  PROVE  c \in CallType /\ c[r].pc = "queued" /\ Others(c, r)
  BY DEF TypeOK, CallType, Others

LEMMA RequestKeeps ==
  ASSUME IInv, NEW r \in Requests, Request(r)
  PROVE  IInv'
<1> DEFINE c == [call EXCEPT ![r].pc = "queued", ![r].attempt = 0]
<1>1. call[r].pc = "idle" /\ Attempt(r, c) /\ UNCHANGED destroyed
  BY DEF Request
<1>2. c \in CallType /\ c[r].pc = "queued" /\ Others(c, r)
  <2>1. TypeOK /\ 0 \in 0 .. MaxRetries
    BY RateLimiterAssumption DEF IInv
  <2>2. c = [call EXCEPT ![r].pc = "queued", ![r].attempt = 0]
    OBVIOUS
  <2> HIDE DEF c
  <2> QED BY <2>1, <2>2, AsksForSlot
<1> HIDE DEF c
<1> QED BY <1>1, <1>2, AttemptKeeps

LEMMA RetryKeeps ==
  ASSUME IInv, NEW r \in Requests, Retry(r)
  PROVE  IInv'
<1>1. /\ call[r].pc = "sleeping" /\ UNCHANGED destroyed
      /\ Attempt(r, [call EXCEPT ![r].pc = "queued", ![r].attempt = @ + 1])
  BY DEF Retry
<1>2. PICK a \in 0 .. MaxRetries : a = call[r].attempt + 1
  BY SMTT(20), <1>1, RateLimiterAssumption DEF IInv, TypeOK, RetriesLeft
<1> DEFINE c == [call EXCEPT ![r].pc = "queued", ![r].attempt = a]
<1>3. Attempt(r, c)
  BY <1>1, <1>2
<1>4. c \in CallType /\ c[r].pc = "queued" /\ Others(c, r)
  <2>1. TypeOK
    BY DEF IInv
  <2>2. c = [call EXCEPT ![r].pc = "queued", ![r].attempt = a]
    OBVIOUS
  <2> HIDE DEF c
  <2> QED BY <2>1, <2>2, AsksForSlot
<1> HIDE DEF c
<1> QED BY <1>1, <1>3, <1>4, AttemptKeeps

LEMMA ReturnKeeps ==
  ASSUME IInv, NEW r \in Requests, Return(r)
  PROVE  IInv'
<1>0. /\ call[r].pc = "running" /\ UNCHANGED destroyed
      /\ TypeOK /\ Accounted(queue, active, call) /\ queue \in Seq(Requests)
      /\ active \in Nat /\ timer \in TimerType
  BY DEF Return, IInv, TypeOK, TimerType
<1>1. ASSUME NEW c \in CallType, c[r].pc \in {"sleeping", "idle"}, Others(c, r),
             c[r].pc = "sleeping" => c[r].attempt < MaxRetries,
             Drain(queue, active - 1, timer, c)
      PROVE  IInv'
  <2>1. active - 1 \in Nat /\ Accounted(queue, active - 1, c)
    BY <1>0, <1>1, GivesBack
  <2>2. RetriesLeft(c)
    BY <1>1 DEF IInv, RetriesLeft, Others
  <2> QED BY <1>0, <1>1, <2>1, <2>2, DrainKeeps
<1>2. ASSUME NEW d \in 0 .. MaxBackoff, call[r].attempt < MaxRetries,
             Drain(queue, active - 1, timer, Backoff(r, d))
      PROVE  IInv'
  <2> DEFINE c == Backoff(r, d)
  <2>1. /\ c \in CallType /\ c[r].pc = "sleeping" /\ Others(c, r)
        /\ c[r].attempt = call[r].attempt
    BY <1>0 DEF TypeOK, CallType, Others, Backoff
  <2> HIDE DEF c
  <2> QED BY <1>1, <1>2, <2>1 DEF c
<1>3. ASSUME Drain(queue, active - 1, timer, Settled(r))
      PROVE  IInv'
  <2> DEFINE c == Settled(r)
  <2>1. c \in CallType /\ c[r].pc = "idle" /\ Others(c, r)
    BY <1>0, RateLimiterAssumption DEF TypeOK, CallType, Others, Settled, Idle
  <2> HIDE DEF c
  <2> QED BY <1>1, <1>3, <2>1 DEF c
<1>4. \/ call[r].attempt < MaxRetries /\ \E d \in 0 .. MaxBackoff :
           Drain(queue, active - 1, timer, Backoff(r, d))
      \/ Drain(queue, active - 1, timer, Settled(r))
  BY DEF Return
<1> QED BY <1>2, <1>3, <1>4

LEMMA FireKeeps ==
  ASSUME IInv, Fire
  PROVE  IInv'
<1>1. Drain(queue, active, Off, call) /\ UNCHANGED destroyed
  BY DEF Fire
<1>2. /\ queue \in Seq(Requests) /\ active \in Nat /\ Off \in TimerType /\ call \in CallType
      /\ Accounted(queue, active, call) /\ RetriesLeft(call)
  BY DEF IInv, TypeOK, TimerType, CallType
<1> QED BY <1>1, <1>2, DrainKeeps

LEMMA StatsKeeps ==
  ASSUME IInv, Stats
  PROVE  IInv'
<1>1. Refilled \in 0 .. Capacity /\ Capacity \in Nat
  BY RefilledType, CapacityType DEF IInv
<1>2. Refilled' = Refilled
  BY <1>1 DEF Stats, Refilled, Least, Capacity
<1>3. UNCHANGED <<active, queue, timer, destroyed, call, grants>>
  BY DEF Stats
<1>4. TypeOK'
  BY <1>1, <1>3 DEF IInv, TypeOK, Stats, Capacity
<1>5. Budget'
  BY <1>2, <1>3 DEF IInv, Budget, Oldest1st, Bounded, Paid, Capacity
<1> QED BY <1>3, <1>4, <1>5 DEF IInv, Accounted, InjectiveSeq, Waiting, Running,
       RetriesLeft, Awake

(* What destroy() makes of the callers: nobody waits, and whoever ran still *)
(* runs.                                                                   *)
LEMMA DestroyCalls ==
  ASSUME TypeOK, RetriesLeft(call), Destroy
  PROVE  /\ call' \in CallType /\ RetriesLeft(call')
         /\ \A r \in Requests : call'[r].pc # "queued"
         /\ \A r \in Requests : call'[r].pc = "running" <=> call[r].pc = "running"
<1>1. PICK d \in [Requests -> 0 .. MaxBackoff] :
         call' = [r \in Requests |->
                    IF call[r].pc # "queued" THEN call[r]
                    ELSE IF call[r].attempt < MaxRetries
                         THEN [call[r] EXCEPT !.pc = "sleeping", !.sleep = d[r]]
                         ELSE Idle]
  BY DEF Destroy
<1> SUFFICES ASSUME NEW r \in Requests
             PROVE  /\ call'[r] \in [pc : {"idle", "queued", "running", "sleeping"},
                                    attempt : 0 .. MaxRetries, sleep : 0 .. MaxBackoff]
                    /\ call'[r].pc = "sleeping" => call'[r].attempt < MaxRetries
                    /\ call'[r].pc # "queued"
                    /\ call'[r].pc = "running" <=> call[r].pc = "running"
  BY <1>1 DEF CallType, RetriesLeft
<1>2. call[r] \in [pc : {"idle", "queued", "running", "sleeping"},
                   attempt : 0 .. MaxRetries, sleep : 0 .. MaxBackoff]
      /\ d[r] \in 0 .. MaxBackoff
  BY DEF TypeOK
<1>3. CASE call[r].pc # "queued"
  BY <1>2, <1>3, <1>1 DEF RetriesLeft
<1>4. CASE call[r].pc = "queued" /\ call[r].attempt < MaxRetries
  <2>1. call'[r] = [call[r] EXCEPT !.pc = "sleeping", !.sleep = d[r]]
    BY <1>4, <1>1
  <2> QED BY <1>2, <1>4, <2>1
<1>5. CASE call[r].pc = "queued" /\ ~ (call[r].attempt < MaxRetries)
  <2>1. call'[r] = Idle
    BY <1>5, <1>1
  <2> QED BY <1>5, <2>1, RateLimiterAssumption DEF Idle
<1> QED BY <1>3, <1>4, <1>5

LEMMA DestroyKeeps ==
  ASSUME IInv, Destroy
  PROVE  IInv'
<1>0. TypeOK /\ Accounted(queue, active, call) /\ RetriesLeft(call) /\ Budget
  BY DEF IInv
<1>1. queue' = <<>> /\ timer' = Off /\ destroyed' = TRUE
      /\ UNCHANGED <<tokens, elapsed, active, grants>>
  BY DEF Destroy
<1>3. /\ call' \in CallType /\ RetriesLeft(call')
      /\ \A r \in Requests : call'[r].pc # "queued"
      /\ \A r \in Requests : call'[r].pc = "running" <=> call[r].pc = "running"
  BY <1>0, DestroyCalls
<1>4. Running(call') = Running(call) /\ Waiting(call') = {}
  <2>1. Running(call') = Running(call)
    BY <1>3, Zenon DEF Running
  <2>2. Waiting(call') = {}
    <3>1. \A r \in Requests : call'[r].pc # "queued"
      BY <1>3
    <3> QED BY <3>1 DEF Waiting
  <2> QED BY <2>1, <2>2
<1>5. queue' \in Seq(Requests) /\ Len(queue') = 0
  BY <1>1, EmptySeq
<1>6. TypeOK'
  BY <1>0, <1>1, <1>3, <1>5 DEF TypeOK, CallType, Capacity
<1>7. Accounted(queue', active', call')
  BY <1>0, <1>1, <1>4, <1>5 DEF Accounted, InjectiveSeq
<1>8. Accounted(queue, active, call)' /\ RetriesLeft(call)'
  BY <1>3, <1>7 DEF Accounted, InjectiveSeq, Waiting, Running, RetriesLeft
<1>9. Awake' /\ Budget'
  BY <1>0, <1>1 DEF Awake, Budget, Oldest1st, Bounded, Paid, Refilled, Least, Capacity
<1> QED BY <1>6, <1>8, <1>9 DEF IInv

(* The grants about to leave the window are a prefix: those of age Window. *)
LEMMA OldestFirstPrefix ==
  ASSUME NEW g \in Seq(0 .. Window), Oldest1st(g)
  PROVE  LET S == {i \in 1 .. Len(g) : g[i] = Window}
         IN Cardinality(S) \in 0 .. Len(g) /\ S = 1 .. Cardinality(S)
<1> DEFINE S == {i \in 1 .. Len(g) : g[i] = Window}
           k == Cardinality(S)
<1>0. Len(g) \in Nat
  OBVIOUS
<1>1. \A i \in S, j \in 1 .. Len(g) : j <= i => j \in S
  BY RateLimiterAssumption DEF Oldest1st
<1>2. S \in SUBSET (1 .. Len(g))
  OBVIOUS
<1> HIDE DEF S
<1>3. IsFiniteSet(S) /\ k <= Len(g)
  <2>1. IsFiniteSet(1 .. Len(g)) /\ Cardinality(1 .. Len(g)) = Len(g)
    BY SMTT(20), <1>0, FS_Interval
  <2> QED BY <2>1, <1>2, FS_Subset
<1>4. k \in Nat
  BY <1>3, FS_CardinalityType
<1> HIDE DEF k
<1>5. S \subseteq 1 .. k
  <2> SUFFICES ASSUME NEW i \in S PROVE i <= k
    BY <1>0, <1>2, <1>4
  <2>1. i \in 1 .. Len(g) /\ 1 .. i \in SUBSET S
    BY <1>0, <1>1, <1>2
  <2>2. Cardinality(1 .. i) = i
    BY <2>1, <1>0, FS_Interval
  <2>3. Cardinality(1 .. i) <= Cardinality(S)
    BY <2>1, <1>3, FS_Subset
  <2> QED BY <2>2, <2>3 DEF k
<1>6. S = 1 .. k
  <2>1. IsFiniteSet(1 .. k) /\ Cardinality(1 .. k) = k
    BY SMTT(20), <1>4, FS_Interval
  <2> QED BY <2>1, <1>5, FS_Subset DEF k
<1> QED BY <1>0, <1>3, <1>4, <1>6 DEF S, k

(* A tick: the bucket gains at most what the grants age by. *)
LEMMA TickPays ==
  ASSUME TypeOK, Budget, Tick
  PROVE  Budget' /\ grants' \in Seq(0 .. Window)
<1> DEFINE S == {i \in 1 .. Len(grants) : grants[i] = Window}
           old == Cardinality(S)
           L == Len(grants)
<1>1. L \in Nat /\ grants \in Seq(0 .. Window) /\ Oldest1st(grants)
  BY DEF TypeOK, Budget
<1>2. old \in 0 .. L /\ S = 1 .. old
  BY <1>1, OldestFirstPrefix
<1>3. grants' = [i \in 1 .. L - old |-> grants[i + old] + 1]
  BY DEF Tick
<1>4. \A i \in 1 .. L - old : i + old \in 1 .. L /\ grants[i + old] \in 0 .. Window
                                 /\ grants[i + old] # Window
  <2> SUFFICES ASSUME NEW i \in 1 .. L - old
               PROVE  i + old \in 1 .. L /\ grants[i + old] \in 0 .. Window
                      /\ grants[i + old] # Window
    OBVIOUS
  <2> HIDE DEF S, old, L
  <2>1. PICK m \in 1 .. L : m = i + old /\ m \notin S
    BY <1>1, <1>2
  <2>2. grants[m] # Window
    BY <2>1, Zenon DEF S, L
  <2>3. grants[m] \in 0 .. Window
    <3>1. m \in 1 .. Len(grants)
      BY DEF L
    <3> QED BY <3>1, <1>1, ElementOfSeq
  <2> QED BY <2>1, <2>2, <2>3
<1> HIDE DEF S, old
<1>5. PICK M \in Nat : M = L - old
  BY <1>1, <1>2
<1>6. grants' \in Seq(0 .. Window) /\ Len(grants') = M
      /\ \A i \in 1 .. M : grants'[i] = grants[i + old] + 1
  <2>1. \A i \in 1 .. M : grants[i + old] + 1 \in 0 .. Window
    BY <1>1, <1>4, <1>5, RateLimiterAssumption
  <2>2. grants' = [i \in 1 .. M |-> grants[i + old] + 1]
    BY <1>3, <1>5
  <2> QED BY <2>1, <2>2
<1>7. /\ Refilled' \in Int /\ Refilled' <= Refilled + 1
      /\ Refilled \in Int /\ Capacity \in Nat
  <2>1. tokens \in 0 .. Capacity /\ elapsed \in 0 .. Capacity /\ Capacity \in Nat
    BY CapacityType DEF TypeOK
  <2>2. tokens' = tokens /\ elapsed' = Least(Capacity, elapsed + 1)
    BY DEF Tick
  <2>3. Refilled' = Least(Capacity, tokens' + elapsed')
    BY DEF Refilled, Least, Capacity
  <2> QED BY <2>1, <2>2, <2>3 DEF Refilled, Least
<1> HIDE DEF L
<1>8. Oldest1st(grants')
  <2> SUFFICES ASSUME NEW i \in 1 .. M, NEW j \in 1 .. M, i <= j
               PROVE  grants'[i] >= grants'[j]
    BY <1>6 DEF Oldest1st
  <2>1. PICK a \in 1 .. L, b \in 1 .. L : a = i + old /\ b = j + old
    BY <1>4, <1>5
  <2>2. a <= b /\ grants[a] \in Int /\ grants[b] \in Int
    BY <1>1, <1>2, <1>4, <1>5, <2>1
  <2>3. grants[a] >= grants[b]
    BY <1>1, <2>2 DEF Oldest1st, L
  <2> QED BY <2>1, <2>2, <2>3, <1>6
<1>9. Bounded(grants')
  <2> SUFFICES ASSUME NEW i \in 1 .. M, NEW j \in 1 .. M, i <= j
               PROVE  (j - i + 1) * Cost <= Capacity + (grants'[i] - grants'[j])
    BY <1>6 DEF Bounded
  <2>1. PICK a \in 1 .. L, b \in 1 .. L : a = i + old /\ b = j + old
    BY <1>4, <1>5
  <2>2. PICK k \in Int : k = j - i + 1
    OBVIOUS
  <2>3. a <= b /\ k = b - a + 1 /\ grants[a] \in Int /\ grants[b] \in Int
    BY <1>1, <1>2, <1>4, <1>5, <2>1, <2>2
  <2>4. k * Cost <= Capacity + (grants[a] - grants[b])
    BY <2>1, <2>3, Zenon DEF Budget, Bounded, L
  <2>5. grants'[i] = grants[a] + 1 /\ grants'[j] = grants[b] + 1
    BY <2>1, <1>6
  <2>6. grants'[i] - grants'[j] = grants[a] - grants[b]
    BY <2>3, <2>5
  <2> QED BY <2>2, <2>4, <2>6, Zenon
<1>10. Paid(grants', Refilled')
  <2> SUFFICES ASSUME NEW i \in 1 .. M
               PROVE  (M - i + 1) * Cost + Refilled' <= Capacity + grants'[i]
    BY <1>6 DEF Paid
  <2>1. PICK a \in 1 .. L : a = i + old
    BY <1>4, <1>5
  <2>2. PICK k \in Int : k = M - i + 1
    OBVIOUS
  <2>3. k = L - a + 1 /\ grants[a] \in Int
    BY <1>1, <1>2, <1>4, <1>5, <2>1, <2>2
  <2>4. k * Cost + Refilled <= Capacity + grants[a] /\ k * Cost \in Int
    <3>1. k * Cost + Refilled <= Capacity + grants[a]
      BY <2>1, <2>3, Zenon DEF Budget, Paid, L
    <3> QED BY <3>1, RateLimiterAssumption
  <2>5. grants'[i] = grants[a] + 1
    BY <2>1, <1>6
  <2>6. k * Cost + Refilled' <= Capacity + grants'[i]
    BY <2>3, <2>4, <2>5, <1>7
  <2> QED BY <2>2, <2>6, Zenon
<1> QED BY <1>6, <1>8, <1>9, <1>10 DEF Budget

LEMMA TickKeeps ==
  ASSUME IInv, Tick
  PROVE  IInv'
<1>0. TypeOK /\ Accounted(queue, active, call) /\ RetriesLeft(call) /\ Budget /\ Awake
  BY DEF IInv
<1>1. UNCHANGED <<tokens, active, queue, destroyed>>
      /\ timer' = (IF timer = Off THEN Off ELSE Most(0, timer - 1))
      /\ elapsed' = Least(Capacity, elapsed + 1)
  BY DEF Tick
<1>2. \A r \in Requests : call'[r].pc = call[r].pc /\ call'[r].attempt = call[r].attempt
  BY <1>0 DEF Tick, TypeOK
<1>3. call' \in CallType
  <2>1. call' = [r \in Requests |-> [call[r] EXCEPT !.sleep = Most(0, call[r].sleep - 1)]]
    BY DEF Tick
  <2>2. \A r \in Requests : Most(0, call[r].sleep - 1) \in 0 .. MaxBackoff
    BY <1>0, RateLimiterAssumption DEF TypeOK, Most
  <2> QED BY <2>1, <2>2, <1>0 DEF TypeOK, CallType
<1>4. Running(call') = Running(call) /\ Waiting(call') = Waiting(call)
  BY <1>2 DEF Running, Waiting
<1>5. Accounted(queue, active, call)' /\ RetriesLeft(call)'
  <2>1. Accounted(queue', active', call') /\ RetriesLeft(call')
    BY <1>0, <1>1, <1>2, <1>4 DEF Accounted, InjectiveSeq, RetriesLeft
  <2> QED BY <2>1 DEF Accounted, InjectiveSeq, Waiting, Running, RetriesLeft
<1>6. timer' \in TimerType /\ (timer' = Off <=> timer = Off)
  BY <1>0, <1>1, RateLimiterAssumption DEF TypeOK, TimerType, Most, Off
<1>7. elapsed' \in 0 .. Capacity
  BY <1>0, <1>1, CapacityType DEF TypeOK, Least
<1>8. TypeOK'
  BY <1>0, <1>1, <1>3, <1>6, <1>7, TickPays DEF TypeOK, TimerType, CallType, Capacity
<1>9. Awake'
  BY <1>0, <1>1, <1>6 DEF Awake
<1> QED BY <1>0, <1>5, <1>8, <1>9, TickPays DEF IInv

-----------------------------------------------------------------------------
(* The invariant holds in every reachable state. *)
LEMMA InitIInv == Init => IInv
<1> SUFFICES ASSUME Init PROVE IInv
  OBVIOUS
<1>1. /\ tokens = Capacity /\ elapsed = 0 /\ active = 0 /\ queue = <<>> /\ timer = Off
      /\ destroyed = FALSE /\ grants = <<>> /\ Len(queue) = 0 /\ Len(grants) = 0
      /\ call = [r \in Requests |-> Idle]
  BY DEF Init
<1>2. TypeOK
  <2>1. queue \in Seq(Requests) /\ grants \in Seq(0 .. Window)
    BY <1>1, EmptySeq
  <2>2. call \in [Requests -> [pc : {"idle", "queued", "running", "sleeping"},
                              attempt : 0 .. MaxRetries, sleep : 0 .. MaxBackoff]]
    BY <1>1, RateLimiterAssumption DEF Idle
  <2>3. tokens \in 0 .. Capacity /\ elapsed \in 0 .. Capacity /\ active \in Nat
        /\ timer \in {Off} \cup (0 .. Cost) /\ destroyed \in BOOLEAN
    <3>1. Capacity \in 0 .. Capacity /\ 0 \in 0 .. Capacity
      BY CapacityType
    <3> QED BY <1>1, <3>1
  <2> QED BY <2>1, <2>2, <2>3 DEF TypeOK
<1>3. Running(call) = {} /\ Waiting(call) = {} /\ RetriesLeft(call)
  BY <1>1 DEF Running, Waiting, Idle, RetriesLeft
<1>4. Accounted(queue, active, call)
  BY <1>1, <1>3, FS_EmptySet, RateLimiterAssumption DEF Accounted, InjectiveSeq
<1>5. Awake /\ Budget
  BY <1>1 DEF Awake, Budget, Oldest1st, Bounded, Paid
<1> QED BY <1>2, <1>3, <1>4, <1>5 DEF IInv

LEMMA NextIInv == IInv /\ [Next]_vars => IInv'
<1> SUFFICES ASSUME IInv, [Next]_vars PROVE IInv'
  OBVIOUS
<1>1. CASE UNCHANGED vars
  BY <1>1 DEF vars, IInv, TypeOK, Accounted, InjectiveSeq, Waiting, Running, RetriesLeft,
     Awake, Budget, Oldest1st, Bounded, Paid, Refilled, Least, Capacity
<1>2. CASE \E r \in Requests : Request(r) \/ Retry(r) \/ Return(r)
  BY <1>2, RequestKeeps, RetryKeeps, ReturnKeeps
<1> QED BY <1>1, <1>2, FireKeeps, StatsKeeps, DestroyKeeps, TickKeeps DEF Next

LEMMA Invariance == Spec => []IInv
  BY InitIInv, NextIInv, PTL DEF Spec

(* Every variable keeps its type; in particular no caller retries more than *)
(* maxRetries times, and the bucket neither overflows nor goes negative.    *)
THEOREM Typing == Spec => []TypeOK
<1>1. IInv => TypeOK
  BY DEF IInv
<1> QED BY <1>1, Invariance, PTL

(* The counter of slots is the number of requests on the wire, within       *)
(* options.concurrency: each slot is released exactly once.                 *)
THEOREM SlotsAreAccounted == Spec => []SlotsAccounted
<1>1. IInv => SlotsAccounted
  BY DEF IInv, Accounted, SlotsAccounted, InFlight, Running
<1> QED BY <1>1, Invariance, PTL

(* Over any interval the requests let out are within the burst plus what   *)
(* the rate allows, for every rate, burst and length of the window.        *)
THEOREM RateIsBounded == Spec => []RateBounded
<1>1. IInv => RateBounded
  BY Zenon DEF IInv, Budget, Bounded, RateBounded
<1> QED BY <1>1, Invariance, PTL

(* No waiter is stranded: with a free slot a wake-up is set, and the queue  *)
(* holds exactly the waiting callers, each once.                            *)
THEOREM WaitersAreWoken == Spec => []WaitersHaveWakeup
<1>1. ASSUME IInv PROVE WaitersHaveWakeup
  <2>1. queue \in Seq(Requests) /\ Len(queue) \in 0 .. Len(queue)
    BY <1>1 DEF IInv, TypeOK
  <2>2. Accounted(queue, active, call) /\ Awake
    BY <1>1 DEF IInv
  <2>3. Cardinality({queue[i] : i \in 1 .. Len(queue)}) = Len(queue)
    BY <2>1, <2>2, PrefixCount DEF Accounted
  <2> QED BY <2>2, <2>3 DEF WaitersHaveWakeup, Accounted, Awake, Waiting
<1> QED BY <1>1, Invariance, PTL

-----------------------------------------------------------------------------
(* The order of service.                                                   *)
LEMMA NobodyServed ==
  ASSUME TypeOK, queue' = queue, Started = {}
  PROVE  LongestFirst
<1>1. 0 \in 0 .. Len(queue) /\ queue = SubSeq(queue, 0 + 1, Len(queue))
  BY SubSeqFull DEF TypeOK
<1> QED BY <1>1 DEF LongestFirst

(* drain() with the queue as it stands. *)
LEMMA DrainServes ==
  ASSUME IInv, NEW act \in Nat, NEW t \in TimerType,
         NEW c \in CallType, Accounted(queue, act, c), Drain(queue, act, t, c),
         Running(c) \subseteq Running(call)
  PROVE  LongestFirst
<1> DEFINE n == Admitted(queue, Concurrency - act)
           lucky == {queue[i] : i \in 1 .. n}
<1>1. TypeOK /\ queue \in Seq(Requests) /\ Concurrency - act \in Int
  BY RateLimiterAssumption DEF IInv, TypeOK
<1>2. n \in 0 .. Len(queue)
  BY <1>1, AdmittedBounds
<1>3. queue' = SubSeq(queue, n + 1, Len(queue))
  BY DEF Drain
<1>4. Running(call') = Running(c) \cup lucky
  BY <1>1, DrainCalls
<1> HIDE DEF n
<1>5. Started \subseteq lucky
  <2> HIDE DEF lucky
  <2> QED BY <1>4 DEF Started, Running
<1> QED BY <1>2, <1>3, <1>5 DEF LongestFirst

(* drain() after a caller has queued up. *)
LEMMA AcquireServes ==
  ASSUME IInv, NEW r \in Requests, call[r].pc \notin {"queued", "running"},
         NEW c \in CallType, c[r].pc = "queued", Others(c, r), Acquire(r, c)
  PROVE  LongestFirst
<1> DEFINE q == Append(queue, r)
           n == Admitted(q, Concurrency - active)
           lucky == {q[i] : i \in 1 .. n}
           L == Len(queue)
<1>1. /\ TypeOK /\ Accounted(queue, active, call) /\ queue \in Seq(Requests)
      /\ Concurrency - active \in Int /\ L \in Nat /\ active \in Nat /\ timer \in TimerType
  BY RateLimiterAssumption DEF IInv, TypeOK, TimerType
<1>2. /\ q \in Seq(Requests) /\ Len(q) = L + 1 /\ q[L + 1] = r
      /\ \A i \in 1 .. L : q[i] = queue[i]
  BY <1>1, AppendProperties
<1>3. Accounted(q, active, c)
  BY <1>1, QueuesUp
<1>4. Drain(q, active, timer, c)
  BY DEF Acquire
<1> HIDE DEF q
<1>5. n \in 0 .. L + 1 /\ queue' = SubSeq(q, n + 1, L + 1)
  BY <1>1, <1>2, <1>4, AdmittedBounds DEF Drain
<1>6. Running(call') = Running(c) \cup lucky /\ Running(c) \cap lucky = {}
      /\ lucky \subseteq Waiting(c)
  BY <1>1, <1>2, <1>3, <1>4, DrainCalls
<1>7. Running(c) = Running(call)
  BY DEF Running, Others
<1>8. Started = lucky
  <2> HIDE DEF lucky
  <2> QED BY <1>6, <1>7 DEF Started, Running, Waiting
<1> HIDE DEF n
<1>9. CASE n \in 0 .. L
  <2> DEFINE rest == SubSeq(queue, n + 1, L)
  <2>1. lucky = {queue[i] : i \in 1 .. n}
    BY <1>1, <1>2, <1>9
  <2>2. /\ rest \in Seq(Requests) /\ Len(rest) = L - n
        /\ \A i \in 1 .. L - n : rest[i] = queue[n + i]
    BY <1>1, <1>9, DrainQueue DEF Accounted
  <2>3. /\ queue' \in Seq(Requests) /\ Len(queue') = L + 1 - n
        /\ \A i \in 1 .. L + 1 - n : queue'[i] = q[n + i]
    BY <1>2, <1>3, <1>5, DrainQueue DEF Accounted
  <2> HIDE DEF rest, L
  <2>4. /\ Append(rest, r) \in Seq(Requests) /\ Len(Append(rest, r)) = L - n + 1
        /\ \A i \in 1 .. L - n : Append(rest, r)[i] = rest[i]
        /\ Append(rest, r)[L - n + 1] = r
    BY <2>2, AppendProperties
  <2>5. \A i \in 1 .. L + 1 - n : queue'[i] = Append(rest, r)[i]
    <3> SUFFICES ASSUME NEW i \in 1 .. L + 1 - n PROVE queue'[i] = Append(rest, r)[i]
      OBVIOUS
    <3>1. CASE i \in 1 .. L - n
      <4>1. n + i \in 1 .. L
        BY <3>1, <1>1, <1>9
      <4> QED BY SMTT(20), <3>1, <4>1, <1>2, <2>2, <2>3, <2>4
    <3>2. CASE i = L - n + 1
      <4>1. n + i = L + 1
        BY <3>2, <1>1, <1>9
      <4>2. queue'[i] = q[n + i]
        BY <2>3
      <4>3. q[n + i] = r
        BY <4>1, <1>2
      <4>4. Append(rest, r)[i] = r
        BY <3>2, <2>4
      <4> QED BY <4>2, <4>3, <4>4
    <3>3. i \in 1 .. L - n \/ i = L - n + 1
      <4>1. n \in Int /\ L \in Int
        BY <1>1, <1>9
      <4> QED BY <4>1
    <3> QED BY <3>1, <3>2, <3>3
  <2>6. Len(queue') = Len(Append(rest, r))
    BY <2>3, <2>4, <1>1, <1>9
  <2>7. queue' = Append(rest, r)
    BY <2>3, <2>4, <2>5, <2>6, SeqEqual
  <2> QED BY <2>1, <2>7, <1>8, <1>9, Zenon DEF LongestFirst, rest, L
<1>10. CASE n = L + 1
  <2>1. queue' = <<>>
    BY <1>1, <1>5, <1>10, SubSeqEmpty
  <2>2. SubSeq(queue, L + 1, L) = <<>>
    BY <1>1, SubSeqEmpty
  <2>3. L \in 0 .. L
    BY <1>1
  <2> QED BY <2>1, <2>2, <2>3, Zenon DEF LongestFirst
<1> QED BY <1>1, <1>5, <1>9, <1>10

LEMMA AttemptServes ==
  ASSUME IInv, NEW r \in Requests, call[r].pc \notin {"queued", "running"},
         NEW c \in CallType, c[r].pc = "queued", Others(c, r), Attempt(r, c)
  PROVE  LongestFirst
<1>1. CASE ~ destroyed
  BY <1>1, AcquireServes DEF Attempt
<1>2. CASE destroyed
  <2>1. queue' = queue
    BY <1>2 DEF Attempt
  <2>2. \A s \in Requests : call'[s].pc = "running" => call[s].pc = "running"
    <3>1. CASE \E d \in 0 .. MaxBackoff :
                 call' = [c EXCEPT ![r].pc = "sleeping", ![r].sleep = d]
      BY <3>1 DEF CallType, Others
    <3>2. CASE call' = [c EXCEPT ![r] = Idle]
      BY <3>2 DEF CallType, Others, Idle
    <3> QED BY <3>1, <3>2, <1>2 DEF Attempt
  <2>3. Started = {}
    BY <2>2 DEF Started
  <2> QED BY <2>1, <2>3, NobodyServed DEF IInv
<1> QED BY <1>1, <1>2

LEMMA RequestServes ==
  ASSUME IInv, NEW r \in Requests, Request(r) \/ Retry(r)
  PROVE  LongestFirst
<1>1. PICK a \in 0 .. MaxRetries :
         /\ Attempt(r, [call EXCEPT ![r].pc = "queued", ![r].attempt = a])
         /\ call[r].pc \notin {"queued", "running"}
  <2>1. CASE Request(r)
    BY <2>1, RateLimiterAssumption DEF Request
  <2>2. CASE Retry(r)
    <3>1. /\ call[r].pc = "sleeping"
          /\ Attempt(r, [call EXCEPT ![r].pc = "queued", ![r].attempt = @ + 1])
      BY <2>2 DEF Retry
    <3>2. PICK a \in 0 .. MaxRetries : a = call[r].attempt + 1
      BY SMTT(20), <3>1, RateLimiterAssumption DEF IInv, TypeOK, RetriesLeft
    <3> QED BY <3>1, <3>2
  <2> QED BY <2>1, <2>2
<1>2. PICK c : c = [call EXCEPT ![r].pc = "queued", ![r].attempt = a]
  OBVIOUS
<1>3. c \in CallType /\ c[r].pc = "queued" /\ Others(c, r)
  BY <1>2, AsksForSlot DEF IInv
<1> QED BY <1>1, <1>2, <1>3, AttemptServes

LEMMA ReturnServes ==
  ASSUME IInv, NEW r \in Requests, Return(r)
  PROVE  LongestFirst
<1>0. /\ call[r].pc = "running" /\ TypeOK /\ Accounted(queue, active, call)
      /\ active \in Nat /\ timer \in TimerType
  BY DEF Return, IInv, TypeOK, TimerType
<1>1. ASSUME NEW c \in CallType, c[r].pc \in {"sleeping", "idle"}, Others(c, r),
             Drain(queue, active - 1, timer, c)
      PROVE  LongestFirst
  <2>1. active - 1 \in Nat /\ Accounted(queue, active - 1, c)
    BY <1>0, <1>1, GivesBack
  <2>2. Running(c) \subseteq Running(call)
    BY <1>1 DEF Running, Others
  <2> QED BY <1>0, <1>1, <2>1, <2>2, DrainServes
<1>2. ASSUME NEW d \in 0 .. MaxBackoff, Drain(queue, active - 1, timer, Backoff(r, d))
      PROVE  LongestFirst
  <2> DEFINE c == Backoff(r, d)
  <2>1. c \in CallType /\ c[r].pc = "sleeping" /\ Others(c, r)
    BY <1>0 DEF TypeOK, CallType, Others, Backoff
  <2> HIDE DEF c
  <2> QED BY <1>1, <1>2, <2>1 DEF c
<1>3. ASSUME Drain(queue, active - 1, timer, Settled(r))
      PROVE  LongestFirst
  <2> DEFINE c == Settled(r)
  <2>1. c \in CallType /\ c[r].pc = "idle" /\ Others(c, r)
    BY <1>0, RateLimiterAssumption DEF TypeOK, CallType, Others, Settled, Idle
  <2> HIDE DEF c
  <2> QED BY <1>1, <1>3, <2>1 DEF c
<1>4. \/ \E d \in 0 .. MaxBackoff : Drain(queue, active - 1, timer, Backoff(r, d))
      \/ Drain(queue, active - 1, timer, Settled(r))
  BY DEF Return
<1> QED BY <1>2, <1>3, <1>4

LEMMA FireServes ==
  ASSUME IInv, Fire
  PROVE  LongestFirst
<1>1. Drain(queue, active, Off, call)
  BY DEF Fire
<1>2. /\ active \in Nat /\ Off \in TimerType /\ call \in CallType
      /\ Accounted(queue, active, call)
  BY DEF IInv, TypeOK, TimerType, CallType
<1> QED BY <1>1, <1>2, DrainServes

LEMMA DestroyServes ==
  ASSUME IInv, Destroy
  PROVE  LongestFirst
<1>1. queue' = <<>>
  BY DEF Destroy
<1>2. Started = {}
  <2>1. \A r \in Requests : call'[r].pc = "running" <=> call[r].pc = "running"
    BY DestroyCalls DEF IInv
  <2> QED BY <2>1 DEF Started
<1>3. 0 \in 0 .. Len(queue)
  BY DEF IInv, TypeOK
<1> QED BY <1>1, <1>2, <1>3 DEF LongestFirst

LEMMA StatsOrTickServes ==
  ASSUME IInv, Stats \/ Tick
  PROVE  LongestFirst
<1>1. queue' = queue /\ \A r \in Requests : call'[r].pc = call[r].pc
  BY DEF Stats, Tick, IInv, TypeOK
<1>2. Started = {}
  BY <1>1 DEF Started
<1> QED BY <1>1, <1>2, NobodyServed DEF IInv

(* Waiters are served first in, first out: no step lets a caller in before *)
(* one that has waited longer, and a newcomer goes to the back.             *)
THEOREM ServiceIsInOrder == Spec => ServedInOrder
<1>1. IInv /\ [Next]_vars => [LongestFirst]_vars
  BY RequestServes, ReturnServes, FireServes, DestroyServes, StatsOrTickServes DEF Next
<1> QED BY <1>1, Invariance, PTL DEF Spec, ServedInOrder

-----------------------------------------------------------------------------
(* The reports, a component of their own: their steps are those of an       *)
(* instance over the constants and variables of EmailReportState.           *)
Email == INSTANCE EmailReports

-----------------------------------------------------------------------------
(* What the three ways to write a request do to it, and that the others    *)
(* are left alone.                                                          *)
LEMMA GotoCall ==
  ASSUME request \in [Callers -> Email!Requests], NEW c \in Callers, NEW pc \in Email!Pcs, Email!Goto(c, pc)
  PROVE  /\ request' \in [Callers -> Email!Requests]
         /\ request'[c].pc = pc
         /\ request'[c].rep = request[c].rep /\ request'[c].content = request[c].content
         /\ \A d \in Callers \ {c} : request'[d] = request[d]
  BY DEF Email!Goto, Email!Requests

LEMMA ReturnCall ==
  ASSUME request \in [Callers -> Email!Requests], NEW c \in Callers, Email!Return(c)
  PROVE  /\ request' \in [Callers -> Email!Requests]
         /\ request'[c].pc = "done"
         /\ \A d \in Callers \ {c} : request'[d] = request[d]
  BY DEF Email!Return, Email!Done, Email!Requests, Email!Pcs

LEMMA ArriveCall ==
  ASSUME request \in [Callers -> Email!Requests], NEW c \in Callers, NEW pc \in Email!Pcs,
         NEW r \in Reports, NEW v \in Contents \cup {None}, NEW force \in BOOLEAN,
         request' = [request EXCEPT ![c] = Email!Request(pc, r, v, force)]
  PROVE  /\ request' \in [Callers -> Email!Requests]
         /\ request'[c].pc = pc /\ request'[c].rep = r /\ request'[c].content = v
         /\ \A d \in Callers \ {c} : request'[d] = request[d]
  BY DEF Email!Request, Email!Requests

LEMMA MailTyped ==
  ASSUME Email!TypeOK, NEW c \in Callers, request[c].pc = "deliver"
  PROVE  Email!MailOf(request[c]) \in Email!Mails
  BY DEF Email!TypeOK, Email!MailOf, Email!Mails, Email!Requests

(* Typing for every instance: the rows, the requests under way and the     *)
(* mails, whatever faults there are.                                        *)
THEOREM EmailTyping == Email!Spec => []Email!TypeOK
<1>1. Email!Init => Email!TypeOK
  BY EmailReportsAssumption DEF Email!Init, Email!TypeOK, Email!Statuses, Email!Done,
       Email!Requests, Email!Pcs
<1>2. Email!TypeOK /\ [Email!Next]_Email!vars => Email!TypeOK'
  <2> SUFFICES ASSUME Email!TypeOK, [Email!Next]_Email!vars PROVE Email!TypeOK'
    OBVIOUS
  <2>0. UNCHANGED faults
    BY DEF Email!Next, Email!vars
  <2> USE <2>0
  <2>1. ASSUME NEW r \in Reports, NEW v \in Contents, Email!GenerateDraft(r, v) PROVE Email!TypeOK'
    BY <2>1, EmailReportsAssumption DEF Email!GenerateDraft, Email!Create, Email!TypeOK,
         Email!Statuses
  <2>2. ASSUME NEW c \in Callers, NEW r \in Reports, NEW v \in Contents, Email!NightlyReport(c, r, v)
        PROVE  Email!TypeOK'
    <3>1. Email!Create(r, v) /\ request' = [request EXCEPT ![c] = Email!Request("submit", r, None, FALSE)]
      BY <2>2 DEF Email!NightlyReport
    <3>2. /\ request' \in [Callers -> Email!Requests]
          /\ request'[c].pc = "submit" /\ request'[c].rep = r
          /\ \A d \in Callers \ {c} : request'[d] = request[d]
      BY <3>1, ArriveCall DEF Email!TypeOK, Email!Pcs
    <3> QED BY <3>1, <3>2, EmailReportsAssumption DEF Email!Create, Email!TypeOK, Email!Statuses
  <2>3. ASSUME NEW c \in Callers, NEW r \in Reports,
               \/ Email!Approve(c, r)
               \/ \E force \in BOOLEAN : Email!Send(c, r, force)
               \/ \E v \in Contents : Email!Edit(c, r, v)
        PROVE  Email!TypeOK'
    <3>1. /\ status[r] # "ABSENT"
          /\ UNCHANGED <<status, content, approved, mail>>
      BY <2>3 DEF Email!Approve, Email!Send, Email!Edit, Email!Sendable
    <3>2. PICK pc \in {"approve", "prior", "edit"}, v \in Contents \cup {None}, force \in BOOLEAN :
             /\ request' = [request EXCEPT ![c] = Email!Request(pc, r, v, force)]
             /\ pc \in {"edit", "prior"} => v # None
      BY <2>3, <3>1, EmailReportsAssumption
           DEF Email!Approve, Email!Send, Email!Edit, Email!TypeOK
    <3>3. /\ request' \in [Callers -> Email!Requests]
          /\ request'[c].pc = pc /\ request'[c].rep = r /\ request'[c].content = v
          /\ \A d \in Callers \ {c} : request'[d] = request[d]
      <4>1. request \in [Callers -> Email!Requests] /\ pc \in Email!Pcs
        BY DEF Email!TypeOK, Email!Pcs
      <4> QED BY <4>1, <3>2, ArriveCall
    <3> QED BY <3>1, <3>2, <3>3 DEF Email!TypeOK
  <2>4. ASSUME NEW c \in Callers, Email!CallStep(c) \/ Email!Crash(c) PROVE Email!TypeOK'
    <3>1. request[c].pc # "done" /\ request[c].rep \in Reports /\ status[request[c].rep] # "ABSENT"
      BY <2>4
         DEF Email!CallStep, Email!Crash, Email!ReadForSubmit, Email!MarkPending,
             Email!SaveEdit, Email!MarkApproved, Email!CheckPrior, Email!Claim, Email!Deliver,
             Email!MarkSent, Email!RecordFailure, Email!TypeOK
    <3>2. \/ Email!Return(c)
          \/ \E pc \in Email!Pcs : Email!Goto(c, pc) /\ (pc \in {"claim", "deliver"} => request[c].content # None)
                                         /\ pc \notin {"done", "edit", "prior"}
      BY <2>4
         DEF Email!CallStep, Email!Crash, Email!ReadForSubmit, Email!MarkPending,
             Email!SaveEdit, Email!MarkApproved, Email!CheckPrior, Email!Claim, Email!Deliver,
             Email!MarkSent, Email!RecordFailure, Email!TypeOK, Email!Pcs
    <3>3. /\ request' \in [Callers -> Email!Requests]
          /\ \A d \in Callers \ {c} : request'[d] = request[d]
          /\ request'[c].pc # "done" =>
               /\ request'[c].rep = request[c].rep
               /\ request'[c].pc \in {"edit", "prior", "claim", "deliver"} => request'[c].content # None
      BY <3>2, GotoCall, ReturnCall DEF Email!TypeOK
    <3>4. /\ status' \in [Reports -> Email!Statuses]
          /\ \A r \in Reports : status'[r] = "ABSENT" <=> status[r] = "ABSENT"
      BY <2>4, <3>1
         DEF Email!CallStep, Email!Crash, Email!ReadForSubmit, Email!MarkPending,
             Email!SaveEdit, Email!MarkApproved, Email!CheckPrior, Email!Claim, Email!Deliver,
             Email!MarkSent, Email!RecordFailure, Email!TypeOK, Email!SetStatus,
             Email!Statuses
    <3>5. /\ content' \in [Reports -> Contents \cup {None}]
          /\ \A r \in Reports : content[r] # None => content'[r] # None
      <4>1. CASE Email!SaveEdit(c)
        BY <4>1, <3>1 DEF Email!SaveEdit, Email!TypeOK, Email!Requests
      <4>2. CASE UNCHANGED content
        BY <4>2 DEF Email!TypeOK
      <4> QED BY <2>4, <4>1, <4>2
                 DEF Email!CallStep, Email!Crash, Email!ReadForSubmit, Email!MarkPending,
                     Email!MarkApproved, Email!CheckPrior, Email!Claim, Email!Deliver,
                     Email!MarkSent, Email!RecordFailure
    <3>6. approved' \in [Reports -> Contents \cup {None}]
      <4>1. CASE Email!MarkApproved(c)
        <5>1. content[request[c].rep] \in Contents \cup {None}
          BY <3>1 DEF Email!TypeOK
        <5> QED BY <4>1, <5>1 DEF Email!MarkApproved, Email!TypeOK
      <4>2. CASE UNCHANGED approved
        BY <4>2 DEF Email!TypeOK
      <4> QED BY <2>4, <4>1, <4>2
                 DEF Email!CallStep, Email!Crash, Email!ReadForSubmit, Email!MarkPending,
                     Email!SaveEdit, Email!CheckPrior, Email!Claim, Email!Deliver,
                     Email!MarkSent, Email!RecordFailure
    <3>7. mail' \in [Reports -> Seq(Email!Mails)]
      <4>1. CASE Email!Deliver(c)
        <5>1. Email!MailOf(request[c]) \in Email!Mails
          BY <4>1, MailTyped DEF Email!Deliver
        <5>2. Append(mail[request[c].rep], Email!MailOf(request[c])) \in Seq(Email!Mails)
          BY <5>1, <3>1 DEF Email!TypeOK
        <5>3. \/ UNCHANGED mail
              \/ mail' = [mail EXCEPT ![request[c].rep] =
                              Append(mail[request[c].rep], Email!MailOf(request[c]))]
          BY <4>1 DEF Email!Deliver
        <5> QED BY <5>2, <5>3 DEF Email!TypeOK
      <4>2. CASE UNCHANGED mail
        BY <4>2 DEF Email!TypeOK
      <4> QED BY <2>4, <4>1, <4>2
                 DEF Email!CallStep, Email!Crash, Email!ReadForSubmit, Email!MarkPending,
                     Email!SaveEdit, Email!MarkApproved, Email!CheckPrior, Email!Claim,
                     Email!MarkSent, Email!RecordFailure
    <3>8. \A r \in Reports : status'[r] # "ABSENT" => content'[r] # None
      BY <3>4, <3>5 DEF Email!TypeOK
    <3>9. ASSUME NEW d \in Callers, request'[d].pc # "done"
          PROVE  /\ request'[d].rep \in Reports /\ status'[request'[d].rep] # "ABSENT"
                 /\ request'[d].pc \in {"edit", "prior", "claim", "deliver"} => request'[d].content # None
      <4>1. CASE d = c
        BY <4>1, <3>1, <3>3, <3>4, <3>9
      <4>2. CASE d # c
        <5>1. request'[d] = request[d]
          BY <4>2, <3>3
        <5> QED BY <5>1, <3>4, <3>9 DEF Email!TypeOK
      <4> QED BY <4>1, <4>2
    <3> QED BY <3>3, <3>4, <3>5, <3>6, <3>7, <3>8, <3>9 DEF Email!TypeOK
  <2>5. CASE UNCHANGED Email!vars
    BY <2>5 DEF Email!vars, Email!TypeOK
  <2> QED BY <2>1, <2>2, <2>3, <2>4, <2>5 DEF Email!Next, Email!Arrival
<1> QED BY <1>1, <1>2, PTL DEF Email!Spec

-----------------------------------------------------------------------------
(* The gate.  Only an approval leads to the statuses a send starts from,   *)
(* and a request keeps the right to send that it read.                      *)
Passed == {"prior", "claim", "deliver", "record", "fail"}

GateInv ==
    /\ \A r \in Reports : status[r] \in Email!Sendable \cup {"SENDING", "SENT"} => approved[r] # None
    /\ \A r \in Reports : mail[r] # <<>> => approved[r] # None
    /\ \A r \in Reports : status[r] = "SENT" => mail[r] # <<>>
    /\ \A c \in Callers : request[c].pc \in Passed => approved[request[c].rep] # None
    /\ \A c \in Callers : request[c].pc = "record" => mail[request[c].rep] # <<>>

LEMMA NotEmptied ==
  ASSUME Email!TypeOK, NEW c \in Callers, Email!Deliver(c)
  PROVE  /\ \A r \in Reports : mail'[r] # mail[r] => r = request[c].rep
         /\ \A r \in Reports : mail[r] # <<>> => mail'[r] # <<>>
         /\ request'[c].pc = "record" => mail'[request[c].rep] # <<>>
<1> DEFINE r == request[c].rep
           m == Append(mail[r], Email!MailOf(request[c]))
<1>1. r \in Reports /\ request[c].pc = "deliver"
  BY DEF Email!TypeOK, Email!Deliver
<1>2. m # <<>>
  <2>1. mail[r] \in Seq(Email!Mails) /\ Email!MailOf(request[c]) \in Email!Mails
    BY <1>1, MailTyped DEF Email!TypeOK
  <2> QED BY <2>1
<1>3. \/ mail' = [mail EXCEPT ![r] = m]
      \/ UNCHANGED mail /\ Email!Goto(c, "fail")
  BY DEF Email!Deliver
<1>4. Email!Goto(c, "fail") => request'[c].pc = "fail"
  BY GotoCall DEF Email!TypeOK, Email!Pcs
<1> HIDE DEF m
<1> QED BY <1>1, <1>2, <1>3, <1>4 DEF Email!TypeOK

LEMMA GateStep == Email!TypeOK /\ GateInv /\ [Email!Next]_Email!vars => GateInv'
<1> SUFFICES ASSUME Email!TypeOK, GateInv, [Email!Next]_Email!vars PROVE GateInv'
  OBVIOUS
<1>0. request \in [Callers -> Email!Requests]
  BY DEF Email!TypeOK
<1>1. ASSUME NEW r \in Reports, NEW v \in Contents, Email!Create(r, v),
             \A c \in Callers : request'[c].pc \in Passed => request'[c] = request[c]
      PROVE  GateInv'
  <2>1. \A q \in Reports : status'[q] = status[q] \/ status'[q] = "DRAFT"
    BY <1>1 DEF Email!Create, Email!TypeOK
  <2>2. UNCHANGED <<approved, mail>>
    BY <1>1 DEF Email!Create
  <2> QED BY <1>1, <2>1, <2>2 DEF GateInv, Email!Sendable, Passed
<1>2. ASSUME NEW r \in Reports, NEW v \in Contents, Email!GenerateDraft(r, v) PROVE GateInv'
  BY <1>1, <1>2 DEF Email!GenerateDraft
<1>3. ASSUME NEW c \in Callers, NEW r \in Reports, NEW v \in Contents, Email!NightlyReport(c, r, v)
      PROVE  GateInv'
  <2>1. request'[c].pc = "submit" /\ \A d \in Callers \ {c} : request'[d] = request[d]
    BY <1>0, <1>3, ArriveCall DEF Email!NightlyReport, Email!Pcs
  <2> QED BY <1>1, <1>3, <2>1 DEF Email!NightlyReport, Passed
<1>4. ASSUME NEW c \in Callers, NEW r \in Reports,
             \/ Email!Approve(c, r)
             \/ \E force \in BOOLEAN : Email!Send(c, r, force)
             \/ \E v \in Contents : Email!Edit(c, r, v)
      PROVE  GateInv'
  <2>1. UNCHANGED <<status, content, approved, mail>>
    BY <1>4 DEF Email!Approve, Email!Send, Email!Edit
  <2>2. PICK pc \in {"approve", "prior", "edit"}, v \in Contents \cup {None}, force \in BOOLEAN :
           /\ request' = [request EXCEPT ![c] = Email!Request(pc, r, v, force)]
           /\ pc = "prior" => status[r] \in Email!Sendable
    BY <1>4 DEF Email!Approve, Email!Send, Email!Edit, Email!TypeOK
  <2>3. /\ request'[c].pc = pc /\ request'[c].rep = r
        /\ \A d \in Callers \ {c} : request'[d] = request[d]
    <3>1. pc \in Email!Pcs
      BY DEF Email!Pcs
    <3> QED BY ZenonT(40), <1>0, <3>1, <2>2, ArriveCall
  <2> QED BY <2>1, <2>2, <2>3 DEF GateInv, Passed
<1>5. ASSUME NEW c \in Callers, Email!CallStep(c) \/ Email!Crash(c) PROVE GateInv'
  <2> DEFINE r == request[c].rep
  <2>1. r \in Reports
    BY <1>5
       DEF Email!CallStep, Email!Crash, Email!ReadForSubmit, Email!MarkPending,
           Email!SaveEdit, Email!MarkApproved, Email!CheckPrior, Email!Claim, Email!Deliver,
           Email!MarkSent, Email!RecordFailure, Email!TypeOK
  <2>2. \A d \in Callers \ {c} : request'[d] = request[d]
    BY <1>0, <1>5, GotoCall, ReturnCall
       DEF Email!CallStep, Email!Crash, Email!ReadForSubmit, Email!MarkPending,
           Email!SaveEdit, Email!MarkApproved, Email!CheckPrior, Email!Claim, Email!Deliver,
           Email!MarkSent, Email!RecordFailure, Email!Pcs
  <2>3. \A q \in Reports : approved[q] # None => approved'[q] # None
    <3>1. CASE Email!MarkApproved(c)
      <4>1. content[r] # None
        BY <3>1 DEF Email!MarkApproved, Email!TypeOK
      <4> QED BY <3>1, <4>1 DEF Email!MarkApproved, Email!TypeOK
    <3> QED BY <1>5, <3>1
               DEF Email!CallStep, Email!Crash, Email!ReadForSubmit, Email!MarkPending,
                   Email!SaveEdit, Email!CheckPrior, Email!Claim, Email!Deliver,
                   Email!MarkSent, Email!RecordFailure
  <2>4. /\ \A q \in Reports : mail[q] # <<>> => mail'[q] # <<>>
        /\ \A q \in Reports : mail'[q] # <<>> => approved'[q] # None
        /\ request'[c].pc = "record" => mail'[r] # <<>>
    <3>1. CASE Email!Deliver(c)
      <4>1. approved[r] # None
        BY <3>1 DEF Email!Deliver, GateInv, Passed
      <4> QED BY <3>1, <4>1, <2>3, NotEmptied DEF GateInv
    <3>2. CASE UNCHANGED mail /\ request'[c].pc # "record"
      BY <3>2, <2>3 DEF GateInv
    <3>3. Email!Deliver(c) \/ (UNCHANGED mail /\ request'[c].pc # "record")
      BY <1>0, <1>5, GotoCall, ReturnCall
           DEF Email!CallStep, Email!Crash, Email!ReadForSubmit, Email!MarkPending,
           Email!SaveEdit, Email!MarkApproved, Email!CheckPrior, Email!Claim, Email!MarkSent,
           Email!RecordFailure, Email!Pcs
    <3> QED BY <3>1, <3>2, <3>3
  <2>5. request'[c].pc \in Passed => request[c].pc \in Passed /\ request'[c].rep = r
    BY <1>0, <1>5, GotoCall, ReturnCall
       DEF Email!CallStep, Email!Crash, Email!ReadForSubmit, Email!MarkPending,
           Email!SaveEdit, Email!MarkApproved, Email!CheckPrior, Email!Claim, Email!Deliver,
           Email!MarkSent, Email!RecordFailure, Email!Pcs, Passed
  <2>6. \A q \in Reports :
           status'[q] \in Email!Sendable \cup {"SENDING", "SENT"} => approved'[q] # None
    <3>1. CASE Email!MarkApproved(c)
      <4>1. content[r] # None
        BY <3>1 DEF Email!MarkApproved, Email!TypeOK
      <4> QED BY <3>1, <2>3, <4>1 DEF Email!MarkApproved, Email!TypeOK, Email!SetStatus, GateInv
    <3>2. CASE request[c].pc \in Passed
      <4>1. \A q \in Reports : status'[q] # status[q] => q = r
        BY <1>5, <2>1, <3>2 DEF Email!CallStep, Email!Crash, Email!ReadForSubmit,
             Email!MarkPending, Email!SaveEdit, Email!MarkApproved,
             Email!CheckPrior, Email!Claim, Email!Deliver, Email!MarkSent,
             Email!RecordFailure, Email!SetStatus, Email!TypeOK
      <4> QED BY <3>2, <4>1, <2>3 DEF GateInv
    <3>3. CASE ~Email!MarkApproved(c) /\ request[c].pc \notin Passed
      <4>1. \A q \in Reports : status'[q] = status[q] \/ status'[q] = "PENDING_APPROVAL"
        BY <1>5, <2>1, <3>3
           DEF Email!CallStep, Email!Crash, Email!ReadForSubmit, Email!MarkPending,
               Email!SaveEdit, Email!CheckPrior, Email!Claim, Email!Deliver, Email!MarkSent,
               Email!RecordFailure, Email!SetStatus, Email!TypeOK, Passed
      <4> QED BY <4>1, <2>3 DEF GateInv, Email!Sendable
    <3> QED BY <3>1, <3>2, <3>3
  <2>7. \A q \in Reports : status'[q] = "SENT" => mail'[q] # <<>>
    <3>1. \A q \in Reports : status'[q] = "SENT" =>
             status[q] = "SENT" \/ (q = r /\ request[c].pc = "record")
      BY <1>5, <2>1
         DEF Email!CallStep, Email!Crash, Email!ReadForSubmit, Email!MarkPending,
             Email!SaveEdit, Email!MarkApproved, Email!CheckPrior, Email!Claim, Email!Deliver,
             Email!MarkSent, Email!RecordFailure, Email!SetStatus, Email!TypeOK
    <3> QED BY <3>1, <2>4 DEF GateInv
  <2>8. ASSUME NEW d \in Callers
        PROVE  /\ request'[d].pc \in Passed => approved'[request'[d].rep] # None
               /\ request'[d].pc = "record" => mail'[request'[d].rep] # <<>>
    <3>1. CASE d = c
      BY <3>1, <2>1, <2>3, <2>4, <2>5 DEF GateInv, Passed
    <3>2. CASE d # c
      <4>1. request'[d] = request[d]
        BY <3>2, <2>2
      <4>2. request[d].pc \in Passed => request[d].rep \in Reports
        BY DEF Email!TypeOK, Passed
      <4> QED BY <4>1, <4>2, <2>3, <2>4 DEF GateInv, Passed
    <3> QED BY <3>1, <3>2
  <2> QED BY <2>4, <2>6, <2>7, <2>8 DEF GateInv
<1>6. CASE UNCHANGED Email!vars
  BY <1>6 DEF Email!vars, GateInv
<1> QED BY <1>2, <1>3, <1>4, <1>5, <1>6 DEF Email!Next, Email!Arrival

LEMMA Gate == Email!Spec => []GateInv
<1>1. Email!Init => GateInv
  BY DEF Email!Init, GateInv, Email!Sendable, Email!Done, Passed
<1> QED BY <1>1, EmailTyping, GateStep, PTL DEF Email!Spec

(* The approval gate: no mail without an approval, for any number of       *)
(* requests and with every fault ("refuses to run against anything but an  *)
(* APPROVED row").                                                          *)
THEOREM ApprovalGate == Email!Spec => []MailedOnlyIfApproved
<1>1. GateInv => MailedOnlyIfApproved
  BY DEF GateInv, MailedOnlyIfApproved
<1> QED BY <1>1, Gate, PTL

(* A report shown as SENT was accepted by the provider ("the provider      *)
(* decides SENT"), for any number of requests and with every fault.         *)
THEOREM SentIsTrue == Email!Spec => []SentWasMailed
<1>1. GateInv => SentWasMailed
  BY DEF GateInv, SentWasMailed
<1> QED BY <1>1, Gate, PTL

-----------------------------------------------------------------------------
(* One mail.  The claim is exclusive because a claimed report can become   *)
(* sendable again only by an approval, of which there is one, or by the    *)
(* failure of its own send, which mailed nothing.                           *)
Held == {"deliver", "record", "fail"}

OnceInv ==
    /\ \A r \in Reports : Len(mail[r]) <= 1
    /\ \A r \in Reports : mail[r] # <<>> => status[r] \notin Email!Sendable
    /\ \A c \in Callers : request[c].pc \in Held => status[request[c].rep] \notin Email!Sendable
    /\ \A c \in Callers : request[c].pc \in {"deliver", "fail"} => mail[request[c].rep] = <<>>
    /\ \A c \in Callers : request[c].pc = "approve" => approved[request[c].rep] = None
    /\ \A c, d \in Callers : c # d /\ request[c].pc \in Held /\ request[d].pc \in Held
                              => request[c].rep # request[d].rep
    /\ \A c, d \in Callers : c # d /\ request[c].pc = "approve" /\ request[d].pc = "approve"
                              => request[c].rep # request[d].rep

(* A step that touches nothing but requests that hold no claim. *)
LEMMA OnceKept ==
  ASSUME OnceInv, Email!TypeOK, NEW c \in Callers,
         UNCHANGED <<approved, mail>>,
         \A q \in Reports : status'[q] \in Email!Sendable => status[q] \in Email!Sendable,
         \A d \in Callers \ {c} : request'[d] = request[d],
         request'[c].pc \in Held => request[c].pc = request'[c].pc /\ request'[c].rep = request[c].rep,
         request'[c].pc = "approve" =>
            /\ approved[request'[c].rep] = None
            /\ \A d \in Callers \ {c} : request[d].pc = "approve" => request[d].rep # request'[c].rep
  PROVE  OnceInv'
<1>1. \A d \in Callers : request[d].pc \in Held => request[d].rep \in Reports
  BY DEF Email!TypeOK, Held
<1>2. \A d \in Callers : request'[d].pc \in Held =>
         request'[d].pc = request[d].pc /\ request'[d].rep = request[d].rep
  OBVIOUS
<1>3. \A d \in Callers : request'[d].pc \in Held => status'[request'[d].rep] \notin Email!Sendable
  BY <1>1, <1>2 DEF OnceInv
<1>4. \A d \in Callers : request'[d].pc \in {"deliver", "fail"} => mail'[request'[d].rep] = <<>>
  BY <1>2 DEF OnceInv, Held
<1>5. \A d \in Callers : request'[d].pc = "approve" => approved'[request'[d].rep] = None
  BY DEF OnceInv
<1>6. \A d, e \in Callers : d # e /\ request'[d].pc \in Held /\ request'[e].pc \in Held
                            => request'[d].rep # request'[e].rep
  BY <1>2 DEF OnceInv
<1>7. \A d, e \in Callers : d # e /\ request'[d].pc = "approve" /\ request'[e].pc = "approve"
                            => request'[d].rep # request'[e].rep
  BY DEF OnceInv
<1> QED BY <1>3, <1>4, <1>5, <1>6, <1>7 DEF OnceInv

LEMMA OnceStep ==
  ASSUME faults \subseteq {"crash"}
  PROVE  Email!TypeOK /\ GateInv /\ OnceInv /\ [Email!Next]_Email!vars => OnceInv'
<1> SUFFICES ASSUME Email!TypeOK, GateInv, OnceInv, [Email!Next]_Email!vars PROVE OnceInv'
  OBVIOUS
<1>0. request \in [Callers -> Email!Requests]
  BY DEF Email!TypeOK
<1>1. ASSUME NEW r \in Reports, NEW v \in Contents, Email!GenerateDraft(r, v) PROVE OnceInv'
  <2>1. \A q \in Reports : status'[q] \in Email!Sendable => status[q] \in Email!Sendable
    BY <1>1 DEF Email!GenerateDraft, Email!Create, Email!TypeOK, Email!Sendable
  <2>2. UNCHANGED <<approved, mail, request>>
    BY <1>1 DEF Email!GenerateDraft, Email!Create
  <2>3. \A d \in Callers : request[d].pc \in Held => request[d].rep \in Reports
    BY DEF Email!TypeOK, Held
  <2> QED BY <2>1, <2>2, <2>3 DEF OnceInv
<1>2. ASSUME NEW c \in Callers, NEW r \in Reports, NEW v \in Contents, Email!NightlyReport(c, r, v)
      PROVE  OnceInv'
  <2>1. request'[c].pc = "submit" /\ \A d \in Callers \ {c} : request'[d] = request[d]
    BY <1>0, <1>2, ArriveCall DEF Email!NightlyReport, Email!Pcs
  <2>2. /\ \A q \in Reports : status'[q] \in Email!Sendable => status[q] \in Email!Sendable
        /\ UNCHANGED <<approved, mail>>
    BY <1>2 DEF Email!NightlyReport, Email!Create, Email!TypeOK, Email!Sendable
  <2> QED BY <2>1, <2>2, OnceKept DEF Held
<1>3. ASSUME NEW c \in Callers, NEW r \in Reports,
             \/ Email!Approve(c, r)
             \/ \E force \in BOOLEAN : Email!Send(c, r, force)
             \/ \E v \in Contents : Email!Edit(c, r, v)
      PROVE  OnceInv'
  <2>1. UNCHANGED <<status, content, approved, mail>>
    BY <1>3 DEF Email!Approve, Email!Send, Email!Edit
  <2>2. PICK pc \in {"approve", "prior", "edit"}, v \in Contents \cup {None}, force \in BOOLEAN :
           /\ request' = [request EXCEPT ![c] = Email!Request(pc, r, v, force)]
           /\ pc = "approve" =>
                /\ approved[r] = None
                /\ \A d \in Callers : ~(request[d].pc = "approve" /\ request[d].rep = r)
    BY <1>3 DEF Email!Approve, Email!Send, Email!Edit, Email!TypeOK
  <2>3. /\ request'[c].pc = pc /\ request'[c].rep = r
        /\ \A d \in Callers \ {c} : request'[d] = request[d]
    <3>1. pc \in Email!Pcs
      BY DEF Email!Pcs
    <3> QED BY <1>0, <3>1, <2>2, ArriveCall
  <2> QED BY <2>1, <2>2, <2>3, OnceKept DEF Held
<1>4. ASSUME NEW c \in Callers, Email!CallStep(c) \/ Email!Crash(c) PROVE OnceInv'
  <2> DEFINE r == request[c].rep
  <2>1. r \in Reports /\ request[c].pc # "done"
    BY <1>4
       DEF Email!CallStep, Email!Crash, Email!ReadForSubmit, Email!MarkPending,
           Email!SaveEdit, Email!MarkApproved, Email!CheckPrior, Email!Claim, Email!Deliver,
           Email!MarkSent, Email!RecordFailure, Email!TypeOK
  <2>2. \A d \in Callers \ {c} : request'[d] = request[d]
    BY <1>0, <1>4, GotoCall, ReturnCall
       DEF Email!CallStep, Email!Crash, Email!ReadForSubmit, Email!MarkPending,
           Email!SaveEdit, Email!MarkApproved, Email!CheckPrior, Email!Claim, Email!Deliver,
           Email!MarkSent, Email!RecordFailure, Email!Pcs
  <2>3. \A d \in Callers : request[d].pc \in Held => request[d].rep \in Reports
    BY DEF Email!TypeOK, Held
  <2>4. CASE \/ Email!ReadForSubmit(c) \/ Email!MarkPending(c) \/ Email!SaveEdit(c) \/ Email!CheckPrior(c)
             \/ Email!Crash(c) \/ Email!MarkSent(c)
    <3>1. request'[c].pc \notin Held \cup {"approve"}
      BY <1>0, <2>4, GotoCall, ReturnCall
           DEF Email!ReadForSubmit, Email!MarkPending, Email!SaveEdit,
           Email!CheckPrior, Email!Crash, Email!MarkSent, Email!Pcs, Held
    <3>2. \A q \in Reports : status'[q] \in Email!Sendable => status[q] \in Email!Sendable
      BY <2>1, <2>4
         DEF Email!ReadForSubmit, Email!MarkPending, Email!SaveEdit, Email!CheckPrior,
             Email!Crash, Email!MarkSent, Email!SetStatus, Email!Sendable, Email!TypeOK
    <3>3. UNCHANGED <<approved, mail>>
      BY <2>4 DEF Email!ReadForSubmit, Email!MarkPending, Email!SaveEdit, Email!CheckPrior,
           Email!Crash, Email!MarkSent
    <3> QED BY <2>2, <3>1, <3>2, <3>3, OnceKept
  <2>5. CASE Email!MarkApproved(c)
    <3>1. approved[r] = None /\ mail[r] = <<>>
      BY <2>1, <2>5 DEF Email!MarkApproved, OnceInv, GateInv
    <3>2. \A d \in Callers : request[d].pc \in Held => request[d].rep # r
      BY <3>1 DEF GateInv, Held, Passed
    <3>3. \A d \in Callers \ {c} : request[d].pc = "approve" => request[d].rep # r
      BY <2>5 DEF Email!MarkApproved, OnceInv
    <3>4. request'[c].pc = "done"
      BY <1>0, <2>5, ReturnCall DEF Email!MarkApproved
    <3>5. /\ \A q \in Reports \ {r} : status'[q] = status[q] /\ approved'[q] = approved[q]
          /\ UNCHANGED mail
      BY <2>5 DEF Email!MarkApproved, Email!SetStatus, Email!TypeOK
    <3>6. \A d \in Callers : request[d].pc = "approve" => request[d].rep \in Reports
      BY DEF Email!TypeOK
    <3> QED BY <2>2, <2>3, <3>1, <3>2, <3>3, <3>4, <3>5, <3>6 DEF OnceInv, Held
  <2>6. CASE Email!Claim(c)
    <3>1. CASE status[r] \in Email!Sendable
      <4>1. mail[r] = <<>> /\ \A d \in Callers : request[d].pc \in Held => request[d].rep # r
        BY <2>1, <3>1 DEF OnceInv
      <4>2. /\ \A q \in Reports : status'[q] \in Email!Sendable => status[q] \in Email!Sendable
            /\ status'[r] \notin Email!Sendable
            /\ UNCHANGED <<approved, mail>>
        BY <2>1, <2>6, <3>1 DEF Email!Claim, Email!SetStatus, Email!TypeOK, Email!Sendable
      <4>3. request'[c].pc = "deliver" /\ request'[c].rep = r
        BY <1>0, <2>6, <3>1, GotoCall DEF Email!Claim, Email!Pcs
      <4> QED BY <2>2, <2>3, <4>1, <4>2, <4>3 DEF OnceInv, Held
    <3>2. CASE status[r] \notin Email!Sendable
      <4>1. request'[c].pc = "done" /\ UNCHANGED <<status, approved, mail>>
        BY <1>0, <2>6, <3>2, ReturnCall DEF Email!Claim
      <4> QED BY <2>2, <4>1, OnceKept DEF Held
    <3> QED BY <3>1, <3>2
  <2>7. CASE Email!Deliver(c)
    <3>1. mail[r] = <<>> /\ status[r] \notin Email!Sendable
      BY <2>7 DEF Email!Deliver, OnceInv, Held
    <3>2. \A d \in Callers \ {c} : request[d].pc \in Held => request[d].rep # r
      BY <2>7 DEF Email!Deliver, OnceInv, Held
    <3>3. UNCHANGED <<status, approved>>
      BY <2>7 DEF Email!Deliver
    <3>4. /\ request'[c].rep = r /\ request'[c].pc \in {"record", "fail"}
          /\ request'[c].pc = "fail" => UNCHANGED mail
      BY <1>0, <2>7, GotoCall DEF Email!Deliver, Email!Pcs
    <3>5. Len(mail'[r]) <= 1 /\ \A q \in Reports \ {r} : mail'[q] = mail[q]
      <4> DEFINE m == Append(mail[r], Email!MailOf(request[c]))
      <4>1. Len(Append(<<>>, Email!MailOf(request[c]))) = 1
        BY <2>7, MailTyped, AppendProperties DEF Email!Deliver
      <4>2. \/ UNCHANGED mail
            \/ mail' = [mail EXCEPT ![r] = m]
        BY <2>7 DEF Email!Deliver
      <4>3. mail \in [Reports -> Seq(Email!Mails)] /\ Len(mail[r]) <= 1
        BY <2>1 DEF Email!TypeOK, OnceInv
      <4>4. Len(m) <= 1
        BY <3>1, <4>1
      <4> HIDE DEF m
      <4> QED BY <2>1, <4>2, <4>3, <4>4
    <3> QED BY <2>2, <2>3, <3>1, <3>2, <3>3, <3>4, <3>5 DEF OnceInv, Held
  <2>8. CASE Email!RecordFailure(c)
    <3>1. mail[r] = <<>>
      BY <2>8 DEF Email!RecordFailure, OnceInv
    <3>2. \A d \in Callers \ {c} : request[d].pc \in Held => request[d].rep # r
      BY <2>8 DEF Email!RecordFailure, OnceInv, Held
    <3>3. /\ \A q \in Reports \ {r} : status'[q] = status[q]
          /\ UNCHANGED <<approved, mail>>
      BY <2>8 DEF Email!RecordFailure, Email!SetStatus, Email!TypeOK
    <3>4. request'[c].pc = "done"
      BY <1>0, <2>8, ReturnCall DEF Email!RecordFailure
    <3> QED BY <2>2, <2>3, <3>1, <3>2, <3>3, <3>4 DEF OnceInv, Held
  <2> QED BY <1>4, <2>4, <2>5, <2>6, <2>7, <2>8 DEF Email!CallStep
<1>5. CASE UNCHANGED Email!vars
  BY <1>5 DEF Email!vars, OnceInv
<1> QED BY <1>1, <1>2, <1>3, <1>4, <1>5 DEF Email!Next, Email!Arrival

(* Where no reply of the provider and no write of the outcome is lost and  *)
(* a report is approved once, each report is mailed at most once, however  *)
(* many sends, retries and crashes there are ("Exactly one send per        *)
(* report"; the runs of the other environments show the second mail).      *)
THEOREM OneMail == Email!Spec => []OneMailPerReport
<1> DEFINE Once == faults \subseteq {"crash"} => OnceInv
<1>1. Email!Init => Once
  BY DEF Email!Init, OnceInv, Email!Sendable, Email!Done, Held
<1>2. Email!TypeOK /\ GateInv /\ Once /\ [Email!Next]_Email!vars => Once'
  <2>1. [Email!Next]_Email!vars => faults' = faults
    BY DEF Email!Next, Email!vars
  <2> QED BY <2>1, OnceStep
<1>3. Once => OneMailPerReport
  BY DEF OnceInv, OneMailPerReport, ExactlyOneSend
<1> HIDE DEF Once
<1> QED BY <1>1, <1>2, <1>3, EmailTyping, Gate, PTL DEF Email!Spec

-----------------------------------------------------------------------------
(* The sync of a student, a component of its own: its steps are those of an *)
(* instance over the constants and variables of StudentSyncState.           *)
Sync == INSTANCE StudentSync

-----------------------------------------------------------------------------
(* Of the submissions f[h] of an account, the i-th is no longer to be had. *)
Gone(f, h, i) ==
    \/ i <= Len(f[h]) - RecentLimit
    \/ \E j \in 1 .. Len(f[h]) : j < i /\ f[h][j] = f[h][i]

(* The time t is one at which h submitted, and nothing up to t is missing  *)
(* from the submissions S but what is gone.                                *)
UpTo(f, h, t, S) ==
    /\ t = Sync!Never \/ \E i \in 1 .. Len(f[h]) : f[h][i] = t
    /\ \A i \in 1 .. Len(f[h]) : f[h][i] <= t => <<h, i>> \in S \/ Gone(f, h, i)

(* The submissions of an account are in the order of their times, none of  *)
(* them later than now.                                                    *)
Ordered(f, h, now) ==
    /\ \A i, j \in 1 .. Len(f[h]) : i <= j => f[h][i] <= f[h][j]
    /\ \A i \in 1 .. Len(f[h]) : f[h][i] <= now

(* The newest time on a page of submissions, or the cursor it goes on from. *)
Newest(f, since, page) ==
    IF page = {} THEN since
    ELSE CHOOSE t \in {f[s[1]][s[2]] : s \in page} : \A s \in page : f[s[1]][s[2]] <= t

-----------------------------------------------------------------------------
(* The inductive invariant. *)
FeedOrdered == \A h \in Handles : Len(feed[h]) <= MaxMade /\ Ordered(feed, h, clock)

(* What a sync has in hand: it asks for an account, has its rows from it,  *)
(* and has written them before it moves the cursor.                        *)
Asking == {"fetch", "persist", "finish", "record", "derive"}
Holding == {"persist", "finish", "derive"}
SyncsSound ==
    /\ mirror \subseteq UNION {Sync!Made(h) : h \in Handles}
    /\ \A c \in Syncs :
        /\ sync[c].pc \in Asking => sync[c].handle \in Handles
        /\ sync[c].pc \in Holding => sync[c].page \subseteq Sync!Made(sync[c].handle)
        /\ sync[c].pc \notin Holding => sync[c].page = {}
        /\ sync[c].pc \in {"finish", "derive"} => sync[c].page \subseteq mirror

(* Unless edits meet syncs in flight, a sync is of the account linked now. *)
EditsInFlight == {"edit", "editInFlight"} \subseteq env
HandleStays ==
    ~ EditsInFlight => \A c \in Syncs : sync[c].pc \in Asking => sync[c].handle = handle
Steady == "import" \notin env /\ ~ EditsInFlight

(* What no step takes back: what was handed to a job, or is about to be.   *)
Reported == UNION {sync[c].page : c \in {d \in Syncs : sync[d].pc = "derive"}}
Handed == fresh \cup dropped
SyncSettled == Handed \cup Reported

CursorBehind == Steady /\ handle # NoHandle => UpTo(feed, handle, state.cursor, SyncSettled)
SyncsBehind ==
    Steady => \A c \in Syncs :
        /\ sync[c].pc = "fetch" => UpTo(feed, handle, sync[c].since, SyncSettled)
        /\ sync[c].pc \in {"persist", "finish"} =>
              UpTo(feed, handle, Newest(feed, sync[c].since, sync[c].page), SyncSettled \cup sync[c].page)

(* Where no database call fails and no job dies, what is mirrored is       *)
(* handed on by the sync that mirrored it.                                 *)
Pending == UNION {sync[c].page : c \in {d \in Syncs : sync[d].pc \in {"finish", "derive"}}}
MirrorPending == Failures \cap env = {} => mirror \subseteq Handed \cup Pending

(* Without a change of the account there is only the one. *)
OneAccount ==
    {"edit", "import"} \cap env = {} => handle # NoHandle /\ mirror \subseteq Sync!Made(handle)

SyncIInv ==
    /\ Sync!TypeOK /\ FeedOrdered /\ SyncsSound /\ HandleStays /\ CursorBehind /\ SyncsBehind
    /\ MirrorPending /\ OneAccount

-----------------------------------------------------------------------------
(* A finite set of naturals has a greatest element: of the sets of those   *)
(* above a member, a smallest belongs to the greatest.                     *)
LEMMA MaxOfNaturals ==
  ASSUME NEW S \in SUBSET Nat, IsFiniteSet(S), S # {}
  PROVE  \E n \in S : \A m \in S : m <= n
<1> DEFINE above(n) == {m \in S : m > n}
           T == {above(n) : n \in S}
<1>1. T \subseteq FiniteSubsetsOf(S) /\ T # {}
  <2>1. \A n \in S : above(n) \in SUBSET S /\ IsFiniteSet(above(n))
    BY FS_Subset
  <2> QED BY <2>1 DEF FiniteSubsetsOf
<1>2. PICK x \in T : \A y \in T : ~ (<<y, x>> \in StrictSubsetOrdering(S))
  BY <1>1, FS_StrictSubsetOrderingWellFounded, WFMin
<1>3. PICK n \in S : x = above(n)
  OBVIOUS
<1>4. \A m \in S : m <= n
  <2> SUFFICES ASSUME NEW m \in S, m > n PROVE FALSE
    OBVIOUS
  <2>1. above(m) \in T /\ above(m) \subseteq x /\ m \in x /\ m \notin above(m)
    <3>1. n \in Nat /\ m \in Nat /\ \A j \in S : j \in Nat
      OBVIOUS
    <3>2. \A j \in S : j > m => j > n
      BY <3>1
    <3>3. ~ (m > m)
      BY <3>1
    <3> QED BY <1>3, <3>2, <3>3
  <2>2. <<above(m), x>> \in StrictSubsetOrdering(S)
    BY <2>1, <1>3 DEF StrictSubsetOrdering
  <2> QED BY <1>2, <2>1, <2>2
<1> QED BY <1>4

(* A set that holds more is up to the same time. *)
LEMMA Widens ==
  ASSUME NEW f, NEW h, NEW t, NEW S, NEW R, UpTo(f, h, t, S), S \subseteq R
  PROVE  UpTo(f, h, t, R)
  BY DEF UpTo

(* Before the first submission nothing is missing. *)
LEMMA NothingBeforeTime ==
  ASSUME NEW f \in [Handles -> Seq(Nat)], NEW h \in Handles, NEW S
  PROVE  UpTo(f, h, Sync!Never, S)
  BY DEF UpTo, Sync!Never

(* A submission made now is later than any time looked at, or shares its   *)
(* second with an earlier one.                                             *)
LEMMA Growing ==
  ASSUME NEW f \in [Handles -> Seq(Nat)], NEW h \in Handles, NEW t \in Int, NEW S,
         NEW now \in Nat, Ordered(f, h, now), UpTo(f, h, t, S),
         NEW f2 \in [Handles -> Seq(Nat)], f2[h] = f[h] \/ f2[h] = Append(f[h], now)
  PROVE  Ordered(f2, h, now) /\ UpTo(f2, h, t, S)
<1>1. CASE f2[h] = f[h]
  BY <1>1 DEF Ordered, UpTo, Gone
<1>2. CASE f2[h] = Append(f[h], now)
  <2> DEFINE n == Len(f[h])
  <2>1. n \in Nat /\ Len(f2[h]) = n + 1 /\ f2[h][n + 1] = now
    BY <1>2
  <2>2. \A i \in 1 .. n : f2[h][i] = f[h][i] /\ f[h][i] \in Nat
    BY SMTT(20), <1>2
  <2>3. \A i \in 1 .. n + 1 : i \in 1 .. n \/ i = n + 1
    BY <2>1
  <2>4. \A i \in 1 .. n : i \in 1 .. n + 1
    BY <2>1
  <2> HIDE DEF n
  <2>5. \A i \in 1 .. n : f2[h][i] <= now
    BY <2>2 DEF Ordered, n
  <2>6. Ordered(f2, h, now)
    <3>1. \A i \in 1 .. n + 1 : f2[h][i] <= now
      BY <2>1, <2>3, <2>5
    <3>2. ASSUME NEW i \in 1 .. n + 1, NEW j \in 1 .. n + 1, i <= j
          PROVE  f2[h][i] <= f2[h][j]
      <4>1. CASE j = n + 1
        BY <4>1, <3>1, <2>1
      <4>2. CASE j \in 1 .. n
        <5>1. i \in 1 .. n
          BY <4>2, <3>2, <2>1
        <5> QED BY <5>1, <4>2, <3>2, <2>2 DEF Ordered, n
      <4> QED BY <4>1, <4>2, <2>3
    <3> QED BY <3>1, <3>2, <2>1 DEF Ordered
  <2>7. t = Sync!Never \/ \E i \in 1 .. n + 1 : f2[h][i] = t
    BY <2>2, <2>4 DEF UpTo, n
  <2>8. ASSUME NEW i \in 1 .. n + 1, f2[h][i] <= t
        PROVE  <<h, i>> \in S \/ Gone(f2, h, i)
    <3>1. CASE i \in 1 .. n
      <4>1. <<h, i>> \in S \/ Gone(f, h, i)
        BY <3>1, <2>2, <2>8 DEF UpTo, n
      <4>2. ASSUME i <= n - RecentLimit PROVE Gone(f2, h, i)
        <5>1. i <= n + 1 - RecentLimit
          BY <4>2, <2>1, StudentSyncAssumption
        <5>2. i <= Len(f2[h]) - RecentLimit
          BY <5>1, <2>1, StudentSyncAssumption
        <5> QED BY <5>2 DEF Gone
      <4>3. ASSUME NEW j \in 1 .. n, j < i, f[h][j] = f[h][i] PROVE Gone(f2, h, i)
        BY <4>3, <2>1, <2>2, <2>4, <3>1 DEF Gone
      <4> QED BY <4>1, <4>2, <4>3 DEF Gone, n
    <3>2. CASE i = n + 1
      <4>1. now <= t /\ t # Sync!Never
        BY <3>2, <2>1, <2>8 DEF Sync!Never
      <4>2. PICK j \in 1 .. n : f[h][j] = t
        BY <4>1 DEF UpTo, n
      <4>3. f[h][j] = now
        BY <4>1, <4>2, <2>2, <2>5
      <4>4. j < i /\ f2[h][j] = f2[h][i]
        BY <3>2, <4>3, <2>1, <2>2
      <4> QED BY <4>4, <2>1, <2>4 DEF Gone
    <3> QED BY <3>1, <3>2, <2>3
  <2> QED BY <2>1, <2>6, <2>7, <2>8 DEF UpTo
<1> QED BY <1>1, <1>2

(* The newest time is on the page, and at least any other.                 *)
LEMMA NewestOnPage ==
  ASSUME NEW f \in [Handles -> Seq(0 .. MaxClock)], NEW h \in Handles, NEW since,
         NEW page \in SUBSET {<<h, i>> : i \in 1 .. Len(f[h])}, page # {}
  PROVE  /\ \E s \in page : f[s[1]][s[2]] = Newest(f, since, page)
         /\ \A s \in page : f[s[1]][s[2]] <= Newest(f, since, page)
<1> DEFINE T == {f[s[1]][s[2]] : s \in page}
<1>1. T \subseteq 0 .. MaxClock /\ T # {}
  <2>1. f[h] \in Seq(0 .. MaxClock)
    OBVIOUS
  <2>2. \A i \in 1 .. Len(f[h]) : f[h][i] \in 0 .. MaxClock
    BY <2>1, ElementOfSeq
  <2>3. \A s \in page : \E i \in 1 .. Len(f[h]) : s[1] = h /\ s[2] = i
    OBVIOUS
  <2> QED BY <2>2, <2>3
<1>2. IsFiniteSet(0 .. MaxClock) /\ 0 .. MaxClock \subseteq Nat
  BY FS_Interval, StudentSyncAssumption
<1>3. IsFiniteSet(T) /\ T \in SUBSET Nat
  BY <1>1, <1>2, FS_Subset
<1>4. \E n \in T : \A m \in T : m <= n
  BY <1>1, <1>3, MaxOfNaturals
<1>5. \E n \in T : \A s \in page : f[s[1]][s[2]] <= n
  BY <1>4
<1>6. Newest(f, since, page) = CHOOSE t \in T : \A s \in page : f[s[1]][s[2]] <= t
  BY DEF Newest
<1>7. Newest(f, since, page) \in T /\ \A s \in page : f[s[1]][s[2]] <= Newest(f, since, page)
  <2> HIDE DEF T
  <2> QED BY <1>5, <1>6
<1> QED BY <1>7

(* It is a time. *)
LEMMA NewestTyped ==
  ASSUME NEW f \in [Handles -> Seq(0 .. MaxClock)], NEW h \in Handles, NEW since \in Sync!Never .. MaxClock,
         NEW page \in SUBSET {<<h, i>> : i \in 1 .. Len(f[h])}
  PROVE  Newest(f, since, page) \in Sync!Never .. MaxClock
<1>1. CASE page = {}
  BY <1>1 DEF Newest
<1>2. CASE page # {}
  <2>1. PICK s \in page : f[s[1]][s[2]] = Newest(f, since, page)
    BY <1>2, NewestOnPage
  <2>2. PICK i \in 1 .. Len(f[h]) : s = <<h, i>>
    BY <2>1
  <2>3. f[h][i] \in 0 .. MaxClock
    <3>1. f[h] \in Seq(0 .. MaxClock)
      OBVIOUS
    <3> QED BY <3>1, ElementOfSeq
  <2> QED BY <2>1, <2>2, <2>3, StudentSyncAssumption DEF Sync!Never
<1> QED BY <1>1, <1>2

(* After a page of what the window shows since the cursor, the newest time *)
(* on it is as far as nothing is missing.                                  *)
LEMMA Advancing ==
  ASSUME NEW f \in [Handles -> Seq(0 .. MaxClock)], NEW h \in Handles, NEW since \in Int, NEW S,
         UpTo(f, h, since, S),
         NEW page \in SUBSET {<<h, i>> : i \in 1 .. Len(f[h])},
         \A i \in 1 .. Len(f[h]) : i > Len(f[h]) - RecentLimit /\ f[h][i] > since => <<h, i>> \in page
  PROVE  UpTo(f, h, Newest(f, since, page), S \cup page)
<1>1. CASE page = {}
  BY <1>1 DEF Newest, UpTo
<1>2. CASE page # {}
  <2>1. PICK s \in page : f[s[1]][s[2]] = Newest(f, since, page)
    BY <1>2, NewestOnPage
  <2>2. \E i \in 1 .. Len(f[h]) : f[h][i] = Newest(f, since, page)
    <3>1. PICK i \in 1 .. Len(f[h]) : s = <<h, i>>
      BY <2>1
    <3> QED BY <2>1, <3>1
  <2>3. f[h] \in Seq(0 .. MaxClock)
    OBVIOUS
  <2>4. ASSUME NEW i \in 1 .. Len(f[h]), <<h, i>> \notin page
        PROVE  <<h, i>> \in S \/ Gone(f, h, i)
    <3>1. ~ (i > Len(f[h]) - RecentLimit) \/ ~ (f[h][i] > since)
      BY <2>4
    <3>2. i \in Int /\ Len(f[h]) - RecentLimit \in Int
      BY StudentSyncAssumption
    <3>3. f[h][i] \in Int
      <4>1. f[h][i] \in 0 .. MaxClock
        BY <2>3, ElementOfSeq
      <4> QED BY <4>1
    <3>4. i <= Len(f[h]) - RecentLimit \/ f[h][i] <= since
      <4> DEFINE w == Len(f[h]) - RecentLimit
                 v == f[h][i]
      <4>1. w \in Int /\ v \in Int /\ (~ (i > w) \/ ~ (v > since))
        BY <3>1, <3>2, <3>3
      <4> HIDE DEF w, v
      <4>2. i <= w \/ v <= since
        BY <4>1, <3>2
      <4> QED BY <4>2 DEF w, v
    <3> QED BY <3>4 DEF UpTo, Gone
  <2> QED BY <2>2, <2>4 DEF UpTo
<1> QED BY <1>1, <1>2

-----------------------------------------------------------------------------
(* The state in the terms of these facts.                                  *)
LEMMA StateTypes ==
  ASSUME Sync!TypeOK
  PROVE  /\ clock \in Nat /\ feed \in [Handles -> Seq(0 .. MaxClock)] /\ feed \in [Handles -> Seq(Nat)]
         /\ state.cursor \in Sync!Never .. MaxClock /\ sync \in [Syncs -> Sync!Activities]
         /\ Sync!Never \in Int
<1>1. 0 .. MaxClock \subseteq Nat /\ clock \in 0 .. MaxClock
  BY StudentSyncAssumption DEF Sync!TypeOK
<1>2. feed \in [Handles -> Seq(0 .. MaxClock)]
  BY DEF Sync!TypeOK
<1>3. \A h \in Handles : feed[h] \in Seq(Nat)
  <2>1. ASSUME NEW h \in Handles PROVE feed[h] \in Seq(Nat)
    <3>1. feed[h] \in Seq(0 .. MaxClock)
      BY <1>2
    <3>2. \A i \in 1 .. Len(feed[h]) : feed[h][i] \in Nat
      BY <3>1, <1>1, ElementOfSeq
    <3> QED BY <3>1, <3>2, IsASeq
  <2> QED BY <2>1
<1>4. feed \in [Handles -> Seq(Nat)]
  BY <1>2, <1>3
<1>5. sync \in [Syncs -> Sync!Activities] /\ state.cursor \in Sync!Never .. MaxClock
  BY DEF Sync!TypeOK, Sync!SyncStates
<1> QED BY <1>1, <1>2, <1>4, <1>5 DEF Sync!Never

LEMMA InTermsOfNewest ==
  ASSUME NEW c \in Syncs
  PROVE  Sync!NextCursor(c) = Newest(feed, sync[c].since, sync[c].page)
  BY DEF Sync!NextCursor, Newest, Sync!At

LEMMA GoneIsOutOfReach ==
  ASSUME Sync!TypeOK, NEW h \in Handles, NEW i \in 1 .. Len(feed[h]), Gone(feed, h, i)
  PROVE  Sync!OutOfReach(<<h, i>>)
<1>1. i \in Int /\ Len(feed[h]) - RecentLimit \in Int
  BY StateTypes, StudentSyncAssumption
<1>2. CASE i <= Len(feed[h]) - RecentLimit
  <2>1. ~ (i > Len(feed[h]) - RecentLimit)
    <3> DEFINE w == Len(feed[h]) - RecentLimit
    <3>1. w \in Int /\ i <= w
      BY <1>1, <1>2
    <3> HIDE DEF w
    <3>2. ~ (i > w)
      BY <3>1, <1>1
    <3> QED BY <3>2 DEF w
  <2> QED BY <2>1 DEF Sync!OutOfReach, Sync!Recent
<1>3. CASE \E j \in 1 .. Len(feed[h]) : j < i /\ feed[h][j] = feed[h][i]
  <2>1. PICK j \in 1 .. Len(feed[h]) : j < i /\ feed[h][j] = feed[h][i]
    BY <1>3
  <2>2. <<h, j>> \in Sync!Made(h)
    BY DEF Sync!Made
  <2> QED BY <2>1, <2>2 DEF Sync!OutOfReach, Sync!At
<1> QED BY <1>2, <1>3 DEF Gone

LEMMA SettledMirrored ==
  ASSUME Sync!TypeOK, SyncsSound
  PROVE  SyncSettled \subseteq mirror /\ Reported \subseteq mirror
  BY DEF Sync!TypeOK, SyncsSound, SyncSettled, Handed, Reported

(* CursorNeverSkips and DaysNotForgotten follow. *)
LEMMA InvariantImplies ==
  ASSUME SyncIInv
  PROVE  CursorNeverSkips /\ DaysNotForgotten
<1>1. SyncSettled \subseteq mirror /\ feed \in [Handles -> Seq(0 .. MaxClock)] /\ state.cursor \in Int
  BY SettledMirrored, StateTypes, StudentSyncAssumption DEF SyncIInv, Sync!Never
<1>2. \A h \in Handles : \A s \in Sync!Made(h) :
         s[1] = h /\ s[2] \in 1 .. Len(feed[h]) /\ s = <<h, s[2]>> /\ Sync!At(s) \in Int
  <2> SUFFICES ASSUME NEW h \in Handles, NEW i \in 1 .. Len(feed[h]) PROVE feed[h][i] \in Int
    BY DEF Sync!Made, Sync!At
  <2>1. feed[h][i] \in 0 .. MaxClock
    BY <1>1, ElementOfSeq
  <2> QED BY <2>1
<1>3. ASSUME Steady, handle # NoHandle, NEW s \in Sync!Made(handle), Sync!At(s) <= state.cursor
      PROVE  s \in SyncSettled \/ Sync!OutOfReach(s)
  <2>1. handle \in Handles /\ UpTo(feed, handle, state.cursor, SyncSettled)
    BY <1>3 DEF SyncIInv, Sync!TypeOK, CursorBehind
  <2>2. s = <<handle, s[2]>> /\ s[2] \in 1 .. Len(feed[handle])
    BY <1>2, <2>1
  <2>3. feed[handle][s[2]] <= state.cursor
    BY <1>3, <2>2 DEF Sync!At
  <2>4. s \in SyncSettled \/ Gone(feed, handle, s[2])
    BY <2>1, <2>2, <2>3 DEF UpTo
  <2> QED BY <2>1, <2>2, <2>4, GoneIsOutOfReach DEF SyncIInv
<1>4. CursorNeverSkips
  <2>1. CursorSkips = Sync!CursorSkips
    BY DEF CursorSkips, Made, At, OutOfReach, Recent, Sync!CursorSkips, Sync!Made, Sync!At,
           Sync!OutOfReach, Sync!Recent
  <2> QED BY <1>1, <1>3, <2>1 DEF CursorNeverSkips, Sync!CursorSkips, Steady, EditsInFlight
<1>5. DaysNotForgotten
  <2> SUFFICES ASSUME Failures \cap env = {} \/ {"edit", "import"} \cap env = {},
                      NEW s \in mirror \ Handed, \A c \in Syncs : s \notin sync[c].page,
                      ~ (Sync!At(s) > state.cursor)
               PROVE  Sync!OutOfReach(s)
    BY DEF DaysNotForgotten, Handed, Made, At, OutOfReach, Recent, Sync!Made, Sync!At,
           Sync!OutOfReach, Sync!Recent
  <2>1. {"edit", "import"} \cap env = {}
    BY DEF SyncIInv, MirrorPending, Pending
  <2>2. Steady /\ handle \in Handles \ {NoHandle} /\ s \in Sync!Made(handle)
    BY <2>1 DEF SyncIInv, Sync!TypeOK, OneAccount, Steady, EditsInFlight
  <2>3. Sync!At(s) <= state.cursor
    BY <1>1, <1>2, <2>2
  <2>4. s \notin SyncSettled
    BY DEF SyncSettled, Reported
  <2> QED BY <1>3, <2>2, <2>3, <2>4
<1> QED BY <1>4, <1>5

-----------------------------------------------------------------------------
(* One lemma for the steps of a sync: what becomes of it (x) is sound and  *)
(* as far as it says, so is the cursor, and what was settled stays so.     *)
SoundActivity(x) ==
    /\ x \in Sync!Activities
    /\ x.pc \in Asking => x.handle \in Handles /\ (~ EditsInFlight => x.handle = handle)
    /\ x.pc \in Holding => x.page \subseteq Sync!Made(x.handle)
    /\ x.pc \notin Holding => x.page = {}

LEMMA SyncMoves ==
  ASSUME SyncIInv, UNCHANGED <<env, clock, feed, handle, edits>>, NEW c \in Syncs, NEW x,
         sync' = [sync EXCEPT ![c] = x], SoundActivity(x),
         x.pc \in {"finish", "derive"} => x.page \subseteq mirror',
         mirror \subseteq mirror', mirror' \subseteq mirror \cup sync[c].page,
         fresh' \subseteq mirror', dropped' \subseteq mirror', state' \in Sync!SyncStates,
         SyncSettled \subseteq SyncSettled', MirrorPending',
         Steady => /\ handle # NoHandle => UpTo(feed, handle, state'.cursor, SyncSettled')
                   /\ x.pc = "fetch" => UpTo(feed, handle, x.since, SyncSettled')
                   /\ x.pc \in {"persist", "finish"} =>
                         UpTo(feed, handle, Newest(feed, x.since, x.page), SyncSettled' \cup x.page)
  PROVE  SyncIInv'
<1>1. sync \in [Syncs -> Sync!Activities] /\ x \in Sync!Activities /\ sync[c] \in Sync!Activities
  BY StateTypes DEF SyncIInv, SoundActivity
<1>2. sync'[c] = x /\ \A d \in Syncs \ {c} : sync'[d] = sync[d]
  BY <1>1
<1>3. Sync!TypeOK'
  <2>1. sync' \in [Syncs -> Sync!Activities]
    BY <1>1
  <2>2. sync[c].page \subseteq Sync!Submissions
    BY <1>1 DEF Sync!Activities
  <2> QED BY <2>1, <2>2 DEF SyncIInv, Sync!TypeOK
<1>4. FeedOrdered'
  BY DEF SyncIInv, FeedOrdered
<1>5. SyncsSound'
  <2>1. \A h : Sync!Made(h)' = Sync!Made(h)
    BY DEF Sync!Made
  <2>2. mirror' \subseteq UNION {Sync!Made(h)' : h \in Handles}
    <3>1. sync[c].page \subseteq UNION {Sync!Made(h) : h \in Handles}
      BY DEF SyncIInv, SyncsSound, Asking, Holding
    <3>2. mirror \subseteq UNION {Sync!Made(h) : h \in Handles}
      BY DEF SyncIInv, SyncsSound
    <3> QED BY <2>1, <3>1, <3>2
  <2>3. ASSUME NEW d \in Syncs
        PROVE  /\ sync'[d].pc \in Asking => sync'[d].handle \in Handles
               /\ sync'[d].pc \in Holding => sync'[d].page \subseteq Sync!Made(sync'[d].handle)
               /\ sync'[d].pc \notin Holding => sync'[d].page = {}
               /\ sync'[d].pc \in {"finish", "derive"} => sync'[d].page \subseteq mirror'
    <3>1. CASE d = c
      BY <3>1, <1>2 DEF SoundActivity
    <3>2. CASE d # c
      BY <3>2, <1>2 DEF SyncIInv, SyncsSound
    <3> QED BY <3>1, <3>2
  <2> QED BY <2>1, <2>2, <2>3 DEF SyncsSound, Sync!Made
<1>6. HandleStays' /\ (EditsInFlight' <=> EditsInFlight) /\ (Steady' <=> Steady)
  <2>1. (EditsInFlight' <=> EditsInFlight) /\ (Steady' <=> Steady)
    BY DEF EditsInFlight, Steady
  <2>2. ASSUME ~ EditsInFlight, NEW d \in Syncs, sync'[d].pc \in Asking
        PROVE  sync'[d].handle = handle
    BY <1>2, <2>2 DEF SyncIInv, HandleStays, SoundActivity
  <2> QED BY <2>1, <2>2 DEF HandleStays
<1>7. CursorBehind'
  BY <1>6 DEF CursorBehind
<1>8. SyncsBehind'
  <2> SUFFICES ASSUME Steady, NEW d \in Syncs
               PROVE  /\ sync'[d].pc = "fetch" => UpTo(feed, handle, sync'[d].since, SyncSettled')
                      /\ sync'[d].pc \in {"persist", "finish"} =>
                            UpTo(feed, handle, Newest(feed, sync'[d].since, sync'[d].page),
                                 SyncSettled' \cup sync'[d].page)
    BY <1>6 DEF SyncsBehind
  <2>1. CASE d = c
    BY <2>1, <1>2
  <2>2. CASE d # c
    <3>1. sync'[d] = sync[d]
      BY <2>2, <1>2
    <3>2. ASSUME sync[d].pc = "fetch" PROVE UpTo(feed, handle, sync[d].since, SyncSettled')
      BY <3>2, Widens DEF SyncIInv, SyncsBehind
    <3>3. ASSUME sync[d].pc \in {"persist", "finish"}
          PROVE  UpTo(feed, handle, Newest(feed, sync[d].since, sync[d].page), SyncSettled' \cup sync[d].page)
      <4>1. UpTo(feed, handle, Newest(feed, sync[d].since, sync[d].page), SyncSettled \cup sync[d].page)
        BY <3>3 DEF SyncIInv, SyncsBehind
      <4>2. SyncSettled \cup sync[d].page \subseteq SyncSettled' \cup sync[d].page
        OBVIOUS
      <4> QED BY <4>1, <4>2, Widens
    <3> QED BY <3>1, <3>2, <3>3
  <2> QED BY <2>1, <2>2
<1>9. OneAccount'
  <2> SUFFICES ASSUME {"edit", "import"} \cap env = {}
               PROVE  handle # NoHandle /\ mirror' \subseteq Sync!Made(handle)'
    BY DEF OneAccount
  <2>1. handle # NoHandle /\ mirror \subseteq Sync!Made(handle)
    BY DEF SyncIInv, OneAccount
  <2>2. sync[c].page \subseteq Sync!Made(handle)
    BY DEF SyncIInv, SyncsSound, HandleStays, EditsInFlight, Asking, Holding
  <2> QED BY <2>1, <2>2 DEF Sync!Made
<1> QED BY <1>3, <1>4, <1>5, <1>6, <1>7, <1>8, <1>9 DEF SyncIInv

(* What is settled stays so when the step of a sync only adds to mirror    *)
(* and figures, and a sync that ends after deriving has counted its page.  *)
LEMMA SettledKept ==
  ASSUME UNCHANGED env, NEW c \in Syncs, NEW x, sync \in [Syncs -> Sync!Activities],
         sync' = [sync EXCEPT ![c] = x], mirror \subseteq mirror', Handed \subseteq Handed',
         sync[c].pc = "derive" => sync[c].page \subseteq Handed'
  PROVE  /\ SyncSettled \subseteq SyncSettled'
         /\ x.pc = "derive" /\ x.page \subseteq mirror' => x.page \subseteq SyncSettled'
<1>1. sync'[c] = x /\ \A d \in Syncs \ {c} : sync'[d] = sync[d]
  OBVIOUS
<1>2. Reported \subseteq Handed' \cup Reported'
  <2> SUFFICES ASSUME NEW d \in Syncs, sync[d].pc = "derive", NEW s \in sync[d].page
               PROVE  s \in Handed' \cup Reported'
    BY DEF Reported
  <2>1. CASE d = c
    BY <2>1
  <2>2. CASE d # c
    BY <2>2, <1>1 DEF Reported
  <2> QED BY <2>1, <2>2
<1>3. x.pc = "derive" => x.page \subseteq Reported'
  BY <1>1 DEF Reported
<1> QED BY <1>2, <1>3 DEF SyncSettled

(* So is what waits to be handed on, if it had been mirrored at all.         *)
LEMMA PendingKept ==
  ASSUME SyncIInv, UNCHANGED env, NEW c \in Syncs, NEW x, sync' = [sync EXCEPT ![c] = x],
         Handed \subseteq Handed', mirror' \subseteq mirror \cup sync[c].page,
         Failures \cap env = {} =>
            \/ x.pc \in {"finish", "derive"} /\ x.page = sync[c].page
            \/ sync[c].pc \in {"finish", "derive"} /\ mirror' = mirror /\ sync[c].page \subseteq Handed'
            \/ sync[c].page = {}
  PROVE  MirrorPending'
<1>1. sync \in [Syncs -> Sync!Activities]
  BY StateTypes DEF SyncIInv
<1>2. sync'[c] = x /\ \A d \in Syncs \ {c} : sync'[d] = sync[d]
  BY <1>1
<1> SUFFICES ASSUME Failures \cap env = {}, NEW s \in mirror'
             PROVE  s \in Handed' \cup Pending'
  BY DEF MirrorPending
<1>3. s \in Handed' \/ s \in sync[c].page \/ \E d \in Syncs \ {c} : sync[d].pc \in {"finish", "derive"} /\ s \in sync[d].page
  <2>1. mirror \subseteq Handed \cup Pending
    BY DEF SyncIInv, MirrorPending
  <2> QED BY <2>1 DEF Pending
<1>4. ASSUME s \in sync[c].page PROVE s \in Handed' \cup Pending'
  <2>1. CASE x.pc \in {"finish", "derive"} /\ x.page = sync[c].page
    BY <2>1, <1>2, <1>4 DEF Pending
  <2>2. CASE sync[c].page \subseteq Handed'
    BY <2>2, <1>4
  <2> QED BY <2>1, <2>2, <1>4
<1>5. ASSUME NEW d \in Syncs \ {c}, sync[d].pc \in {"finish", "derive"}, s \in sync[d].page
      PROVE  s \in Pending'
  BY <1>2, <1>5 DEF Pending
<1> QED BY <1>3, <1>4, <1>5

(* A sync that ends or fails.                                              *)
LEMMA Ending ==
  ASSUME SyncIInv, NEW c \in Syncs, NEW error \in Sync!Errors
  PROVE  /\ SoundActivity(Sync!Idle) /\ Sync!Idle.pc = "idle"
         /\ sync[c].pc \in Asking =>
               SoundActivity([sync[c] EXCEPT !.pc = "record", !.error = error, !.page = {}])
         /\ Sync!Failed(c, error) = [sync EXCEPT ![c] = [sync[c] EXCEPT !.pc = "record", !.error = error, !.page = {}]]
<1>1. sync[c] \in Sync!Activities /\ sync \in [Syncs -> Sync!Activities]
  BY StateTypes DEF SyncIInv
<1>2. Sync!Never \in Sync!Never .. MaxClock
  BY StudentSyncAssumption DEF Sync!Never
<1>3. SoundActivity(Sync!Idle)
  BY <1>2 DEF SoundActivity, Sync!Activities, Sync!Idle, Asking, Holding
<1>4. ASSUME sync[c].pc \in Asking
      PROVE  SoundActivity([sync[c] EXCEPT !.pc = "record", !.error = error, !.page = {}])
  <2> DEFINE x == [sync[c] EXCEPT !.pc = "record", !.error = error, !.page = {}]
  <2>1. x.pc = "record" /\ x.page = {} /\ x.handle = sync[c].handle /\ x \in Sync!Activities
    BY <1>1 DEF Sync!Activities
  <2>2. x.handle \in Handles /\ (~ EditsInFlight => x.handle = handle)
    BY <2>1, <1>4 DEF SyncIInv, SyncsSound, HandleStays
  <2> HIDE DEF x
  <2>3. SoundActivity(x)
    BY <2>1, <2>2 DEF SoundActivity, Asking, Holding
  <2> QED BY <2>3 DEF x
<1> QED BY <1>1, <1>3, <1>4 DEF Sync!Failed, Sync!Idle

-----------------------------------------------------------------------------
(* The steps of a sync. *)
LEMMA BeginKeeps ==
  ASSUME SyncIInv, UNCHANGED env, NEW c \in Syncs, Sync!Begin(c)
  PROVE  SyncIInv'
<1> DEFINE x == [Sync!Idle EXCEPT !.pc = IF handle = NoHandle THEN "missing" ELSE "fetch",
                             !.handle = handle, !.since = state.cursor]
<1>1. sync \in [Syncs -> Sync!Activities] /\ state.cursor \in Sync!Never .. MaxClock /\ handle \in Handles \cup {NoHandle}
  BY StateTypes DEF SyncIInv, Sync!TypeOK
<1>2. x.pc = (IF handle = NoHandle THEN "missing" ELSE "fetch") /\ x.handle = handle
      /\ x.since = state.cursor /\ x.page = {} /\ x \in Sync!Activities
  BY <1>1 DEF Sync!Idle, Sync!Activities
<1>3. sync' = [sync EXCEPT ![c] = x] /\ sync[c].pc = "idle"
      /\ UNCHANGED <<clock, feed, handle, mirror, state, fresh, dropped, edits>>
  BY DEF Sync!Begin
<1> HIDE DEF x
<1>4. sync[c].page = {}
  BY <1>3 DEF SyncIInv, SyncsSound, Holding
<1>5. SoundActivity(x)
  BY <1>1, <1>2 DEF SoundActivity, Asking, Holding
<1>6. SyncSettled \subseteq SyncSettled'
  BY <1>1, <1>3, SettledKept DEF Handed
<1>7. MirrorPending'
  BY <1>3, <1>4, PendingKept DEF Handed
<1>8. ASSUME Steady, handle # NoHandle PROVE UpTo(feed, handle, state.cursor, SyncSettled')
  BY <1>6, <1>8, Widens DEF SyncIInv, CursorBehind
<1>9. state' \in Sync!SyncStates /\ fresh' \subseteq mirror' /\ dropped' \subseteq mirror'
  BY <1>3 DEF SyncIInv, Sync!TypeOK
<1> QED BY <1>2, <1>3, <1>5, <1>6, <1>7, <1>8, <1>9, SyncMoves

LEMMA MissingKeeps ==
  ASSUME SyncIInv, UNCHANGED env, NEW c \in Syncs, Sync!Missing(c)
  PROVE  SyncIInv'
<1>1. sync \in [Syncs -> Sync!Activities] /\ state \in Sync!SyncStates /\ fresh \subseteq mirror /\ dropped \subseteq mirror
  BY StateTypes DEF SyncIInv, Sync!TypeOK
<1>2. sync' = [sync EXCEPT ![c] = Sync!Idle] /\ sync[c].pc = "missing"
      /\ UNCHANGED <<clock, feed, handle, mirror, fresh, dropped, edits>>
      /\ state' \in Sync!SyncStates /\ state'.cursor = state.cursor
  BY <1>1 DEF Sync!Missing, Sync!SyncStates
<1>3. sync[c].page = {}
  BY <1>2 DEF SyncIInv, SyncsSound, Holding
<1>4. SoundActivity(Sync!Idle) /\ Sync!Idle.pc = "idle"
  BY Ending DEF Sync!Errors
<1>5. SyncSettled \subseteq SyncSettled'
  BY <1>1, <1>2, SettledKept DEF Handed
<1>6. MirrorPending'
  BY <1>2, <1>3, PendingKept DEF Handed
<1>7. ASSUME Steady, handle # NoHandle PROVE UpTo(feed, handle, state'.cursor, SyncSettled')
  BY <1>2, <1>5, <1>7, Widens DEF SyncIInv, CursorBehind
<1> QED BY <1>1, <1>2, <1>4, <1>5, <1>6, <1>7, SyncMoves

(* A failure leaves the cursor and the mirror alone. *)
LEMMA FailingKeeps ==
  ASSUME SyncIInv, UNCHANGED <<env, clock, feed, handle, mirror, state, fresh, dropped, edits>>, NEW c \in Syncs,
         NEW error \in Sync!Errors, sync[c].pc \in {"fetch", "persist", "finish"},
         sync' = Sync!Failed(c, error), sync[c].pc = "finish" => "db" \in env
  PROVE  SyncIInv'
<1> DEFINE x == [sync[c] EXCEPT !.pc = "record", !.error = error, !.page = {}]
<1>1. sync \in [Syncs -> Sync!Activities] /\ sync[c] \in Sync!Activities /\ state \in Sync!SyncStates /\ fresh \subseteq mirror /\ dropped \subseteq mirror
  BY StateTypes DEF SyncIInv, Sync!TypeOK
<1>2. sync' = [sync EXCEPT ![c] = x] /\ SoundActivity(x)
  BY Ending DEF Asking
<1>3. x.pc = "record"
  BY <1>1 DEF Sync!Activities
<1> HIDE DEF x
<1>4. SyncSettled \subseteq SyncSettled'
  BY <1>1, <1>2, SettledKept DEF Handed
<1>5. MirrorPending'
  <2> SUFFICES ASSUME Failures \cap env = {}, NEW s \in mirror
               PROVE  s \in Handed \/ s \in Pending'
    BY DEF MirrorPending, Handed
  <2>1. s \in Handed \/ \E d \in Syncs : sync[d].pc \in {"finish", "derive"} /\ s \in sync[d].page
    BY DEF SyncIInv, MirrorPending, Pending
  <2>2. sync[c].pc \notin {"finish", "derive"}
    BY DEF Failures
  <2>3. \A d \in Syncs \ {c} : sync'[d] = sync[d]
    BY <1>1, <1>2
  <2> QED BY <2>1, <2>2, <2>3 DEF Pending
<1>6. ASSUME Steady, handle # NoHandle PROVE UpTo(feed, handle, state.cursor, SyncSettled')
  BY <1>4, <1>6, Widens DEF SyncIInv, CursorBehind
<1> QED BY <1>1, <1>2, <1>3, <1>4, <1>5, <1>6, SyncMoves

LEMMA FetchKeeps ==
  ASSUME SyncIInv, UNCHANGED env, NEW c \in Syncs, Sync!Fetch(c)
  PROVE  SyncIInv'
<1> DEFINE h == sync[c].handle
           page == Sync!PageSince(h, sync[c].since)
           x == [sync[c] EXCEPT !.pc = "persist", !.page = page]
<1>1. sync \in [Syncs -> Sync!Activities] /\ sync[c] \in Sync!Activities /\ state \in Sync!SyncStates /\ fresh \subseteq mirror /\ dropped \subseteq mirror
      /\ feed \in [Handles -> Seq(0 .. MaxClock)]
  BY StateTypes DEF SyncIInv, Sync!TypeOK
<1>2. sync[c].pc = "fetch" /\ UNCHANGED <<clock, feed, handle, mirror, state, fresh, dropped, edits>>
  BY DEF Sync!Fetch
<1>3. h \in Handles /\ sync[c].page = {}
  BY <1>2 DEF SyncIInv, SyncsSound, Asking, Holding
<1>4. page \subseteq Sync!Made(h) /\ Sync!Made(h) = {<<h, i>> : i \in 1 .. Len(feed[h])}
      /\ \A i \in 1 .. Len(feed[h]) :
            i > Len(feed[h]) - RecentLimit /\ feed[h][i] > sync[c].since => <<h, i>> \in page
  BY DEF Sync!PageSince, Sync!Recent, Sync!Made, Sync!At
<1>5. Sync!Made(h) \subseteq Sync!Submissions
  <2>1. Len(feed[h]) <= MaxMade /\ Len(feed[h]) \in Nat
    BY <1>1, <1>3 DEF SyncIInv, FeedOrdered
  <2>2. \A i \in 1 .. Len(feed[h]) : i \in 1 .. MaxMade
    BY <2>1, StudentSyncAssumption
  <2> QED BY <2>2, <1>3, <1>4 DEF Sync!Submissions
<1>6. CASE sync' = [sync EXCEPT ![c].pc = "persist", ![c].page = page]
  <2>1. sync' = [sync EXCEPT ![c] = x]
    BY <1>1, <1>6
  <2>2. x.pc = "persist" /\ x.page = page /\ x.handle = h /\ x.since = sync[c].since
    BY <1>1 DEF Sync!Activities
  <2>3. x \in Sync!Activities
    <3>1. page \in SUBSET Sync!Submissions
      BY <1>4, <1>5
    <3> HIDE DEF page, h
    <3> QED BY <1>1, <3>1 DEF Sync!Activities
  <2> HIDE DEF x
  <2>4. SoundActivity(x)
    <3>1. ~ EditsInFlight => h = handle
      BY <1>2 DEF SyncIInv, HandleStays, Asking
    <3> QED BY <1>3, <1>4, <2>2, <2>3, <3>1 DEF SoundActivity, Asking, Holding
  <2>5. SyncSettled \subseteq SyncSettled'
    BY <1>1, <1>2, <2>1, SettledKept DEF Handed
  <2>6. MirrorPending'
    BY <1>2, <1>3, <2>1, PendingKept DEF Handed
  <2>7. ASSUME Steady, handle # NoHandle PROVE UpTo(feed, handle, state.cursor, SyncSettled')
    BY <2>5, <2>7, Widens DEF SyncIInv, CursorBehind
  <2>8. ASSUME Steady PROVE UpTo(feed, handle, Newest(feed, x.since, x.page), SyncSettled' \cup x.page)
    <3>1. h = handle
      BY <1>2, <2>8 DEF SyncIInv, HandleStays, Asking, Steady
    <3>2. UpTo(feed, h, sync[c].since, SyncSettled')
      BY <1>2, <2>5, <2>8, <3>1, Widens DEF SyncIInv, SyncsBehind
    <3>3. sync[c].since \in Int
      BY <1>1, StudentSyncAssumption DEF Sync!Activities, Sync!Never
    <3> HIDE DEF page, h
    <3>4. UpTo(feed, h, Newest(feed, sync[c].since, page), SyncSettled' \cup page)
      BY <1>1, <1>3, <1>4, <3>2, <3>3, Advancing
    <3> QED BY <2>2, <3>1, <3>4
  <2> QED BY <1>1, <1>2, <2>1, <2>2, <2>4, <2>5, <2>6, <2>7, <2>8, SyncMoves
<1>7. ASSUME NEW error \in Sync!Errors, sync' = Sync!Failed(c, error) PROVE SyncIInv'
  BY <1>2, <1>7, FailingKeeps
<1>8. "ProfilePrivate" \in Sync!Errors /\ \A response \in Failing : Sync!ErrorOf(response) \in Sync!Errors
  <2>1. \A response \in Failing : response \in Sync!Responses \ {"data"}
    BY StudentSyncAssumption DEF Responses, Sync!Responses
  <2>2. \A response \in Sync!Responses \ {"data"} : Sync!ErrorOf(response) \in Sync!Errors
    BY DEF Sync!Responses, Sync!ErrorOf, Sync!Errors
  <2> QED BY <2>1, <2>2 DEF Sync!Errors
<1> QED BY <1>6, <1>7, <1>8 DEF Sync!Fetch

LEMMA PersistKeeps ==
  ASSUME SyncIInv, UNCHANGED env, NEW c \in Syncs, Sync!Persist(c)
  PROVE  SyncIInv'
<1> DEFINE x == [sync[c] EXCEPT !.pc = "finish"]
<1>1. sync \in [Syncs -> Sync!Activities] /\ sync[c] \in Sync!Activities /\ state \in Sync!SyncStates /\ fresh \subseteq mirror /\ dropped \subseteq mirror
  BY StateTypes DEF SyncIInv, Sync!TypeOK
<1>2. sync[c].pc = "persist" /\ UNCHANGED <<clock, feed, handle, state, fresh, dropped, edits>>
  BY DEF Sync!Persist
<1>3. CASE mirror' = mirror \cup sync[c].page /\ sync' = [sync EXCEPT ![c].pc = "finish"]
  <2>1. sync' = [sync EXCEPT ![c] = x]
    BY <1>1, <1>3
  <2>2. /\ x.pc = "finish" /\ x.page = sync[c].page /\ x.handle = sync[c].handle
        /\ x.since = sync[c].since /\ x \in Sync!Activities
    BY <1>1 DEF Sync!Activities
  <2> HIDE DEF x
  <2>3. SoundActivity(x)
    BY <1>2, <2>2 DEF SoundActivity, Asking, Holding, SyncIInv, SyncsSound, HandleStays
  <2>4. SyncSettled \subseteq SyncSettled'
    BY <1>1, <1>2, <1>3, <2>1, SettledKept DEF Handed
  <2>5. MirrorPending'
    BY <1>2, <1>3, <2>1, <2>2, PendingKept DEF Handed
  <2>6. ASSUME Steady, handle # NoHandle PROVE UpTo(feed, handle, state.cursor, SyncSettled')
    BY <2>4, <2>6, Widens DEF SyncIInv, CursorBehind
  <2>7. ASSUME Steady PROVE UpTo(feed, handle, Newest(feed, x.since, x.page), SyncSettled' \cup x.page)
    <3>1. UpTo(feed, handle, Newest(feed, x.since, x.page), SyncSettled \cup x.page)
      BY <1>2, <2>2, <2>7 DEF SyncIInv, SyncsBehind
    <3>2. SyncSettled \cup x.page \subseteq SyncSettled' \cup x.page
      BY <2>4
    <3> QED BY <3>1, <3>2, Widens
  <2> QED BY <1>1, <1>2, <1>3, <2>1, <2>2, <2>3, <2>4, <2>5, <2>6, <2>7, SyncMoves
<1>4. CASE sync' = Sync!Failed(c, "Database") /\ UNCHANGED mirror
  BY <1>2, <1>4, FailingKeeps DEF Sync!Errors
<1> QED BY <1>3, <1>4 DEF Sync!Persist

LEMMA FinishKeeps ==
  ASSUME SyncIInv, UNCHANGED env, NEW c \in Syncs, Sync!Finish(c)
  PROVE  SyncIInv'
<1> DEFINE x == [sync[c] EXCEPT !.pc = "derive"]
           t == Newest(feed, sync[c].since, sync[c].page)
<1>1. sync \in [Syncs -> Sync!Activities] /\ sync[c] \in Sync!Activities /\ state \in Sync!SyncStates /\ fresh \subseteq mirror /\ dropped \subseteq mirror
      /\ feed \in [Handles -> Seq(0 .. MaxClock)]
  BY StateTypes DEF SyncIInv, Sync!TypeOK
<1>2. sync[c].pc = "finish" /\ UNCHANGED <<clock, feed, handle, mirror, fresh, dropped, edits>>
  BY DEF Sync!Finish
<1>3. CASE /\ state' = [state EXCEPT !.status = "OK", !.cursor = Sync!NextCursor(c)]
           /\ sync' = [sync EXCEPT ![c].pc = "derive"]
  <2>1. sync' = [sync EXCEPT ![c] = x]
    BY <1>1, <1>3
  <2>2. /\ x.pc = "derive" /\ x.page = sync[c].page /\ x.handle = sync[c].handle
        /\ x.since = sync[c].since /\ x \in Sync!Activities
    BY <1>1 DEF Sync!Activities
  <2>3. t \in Sync!Never .. MaxClock
    <3>1. sync[c].handle \in Handles /\ sync[c].page \subseteq Sync!Made(sync[c].handle)
      BY <1>2 DEF SyncIInv, SyncsSound, Asking, Holding
    <3>2. sync[c].page \in SUBSET {<<sync[c].handle, i>> : i \in 1 .. Len(feed[sync[c].handle])}
      BY <3>1 DEF Sync!Made
    <3>3. sync[c].since \in Sync!Never .. MaxClock
      BY <1>1 DEF Sync!Activities
    <3> QED BY <1>1, <3>1, <3>2, <3>3, NewestTyped
  <2>4. Sync!NextCursor(c) = t
    BY InTermsOfNewest
  <2> HIDE DEF x, t
  <2>5. state' \in Sync!SyncStates /\ state'.cursor = t
    BY <1>1, <1>3, <2>3, <2>4 DEF Sync!SyncStates
  <2>6. SoundActivity(x)
    BY <1>2, <2>2 DEF SoundActivity, Asking, Holding, SyncIInv, SyncsSound, HandleStays
  <2>7. sync[c].page \subseteq mirror
    BY <1>2 DEF SyncIInv, SyncsSound
  <2>8. SyncSettled \subseteq SyncSettled' /\ sync[c].page \subseteq SyncSettled'
    BY <1>1, <1>2, <2>1, <2>2, <2>7, SettledKept DEF Handed
  <2>9. MirrorPending'
    BY <1>2, <2>1, <2>2, PendingKept DEF Handed
  <2>10. ASSUME Steady PROVE UpTo(feed, handle, state'.cursor, SyncSettled')
    <3>1. UpTo(feed, handle, t, SyncSettled \cup sync[c].page)
      BY <1>2, <2>10 DEF SyncIInv, SyncsBehind, t
    <3>2. SyncSettled \cup sync[c].page \subseteq SyncSettled'
      BY <2>8
    <3> QED BY <2>5, <3>1, <3>2, Widens
  <2> QED BY <1>1, <1>2, <2>1, <2>2, <2>5, <2>6, <2>7, <2>8, <2>9, <2>10, SyncMoves
<1>4. CASE "db" \in env /\ sync' = Sync!Failed(c, "Database") /\ UNCHANGED state
  BY <1>2, <1>4, FailingKeeps DEF Sync!Errors
<1> QED BY <1>3, <1>4 DEF Sync!Finish

LEMMA RecordKeeps ==
  ASSUME SyncIInv, UNCHANGED env, NEW c \in Syncs, Sync!Record(c)
  PROVE  SyncIInv'
<1>1. sync \in [Syncs -> Sync!Activities] /\ state \in Sync!SyncStates /\ fresh \subseteq mirror /\ dropped \subseteq mirror
  BY StateTypes DEF SyncIInv, Sync!TypeOK
<1>2. \A e : Sync!ToSyncStatus(e) \in {"USER_NOT_FOUND", "PROFILE_PRIVATE", "RATE_LIMITED", "TIMEOUT", "PROVIDER_ERROR"}
  BY DEF Sync!ToSyncStatus
<1>3. sync' = [sync EXCEPT ![c] = Sync!Idle] /\ sync[c].pc = "record"
      /\ UNCHANGED <<clock, feed, handle, mirror, fresh, dropped, edits>>
      /\ state' \in Sync!SyncStates /\ state'.cursor = state.cursor
  BY <1>1, <1>2 DEF Sync!Record, Sync!SyncStates
<1>4. sync[c].page = {}
  BY <1>3 DEF SyncIInv, SyncsSound, Holding
<1>5. SoundActivity(Sync!Idle) /\ Sync!Idle.pc = "idle"
  BY Ending DEF Sync!Errors
<1>6. SyncSettled \subseteq SyncSettled'
  BY <1>1, <1>3, SettledKept DEF Handed
<1>7. MirrorPending'
  BY <1>3, <1>4, PendingKept DEF Handed
<1>8. ASSUME Steady, handle # NoHandle PROVE UpTo(feed, handle, state'.cursor, SyncSettled')
  BY <1>3, <1>6, <1>8, Widens DEF SyncIInv, CursorBehind
<1> QED BY <1>1, <1>3, <1>5, <1>6, <1>7, <1>8, SyncMoves

LEMMA DeriveKeeps ==
  ASSUME SyncIInv, UNCHANGED env, NEW c \in Syncs, Sync!Derive(c)
  PROVE  SyncIInv'
<1>1. sync \in [Syncs -> Sync!Activities] /\ state \in Sync!SyncStates /\ fresh \subseteq mirror /\ dropped \subseteq mirror
  BY StateTypes DEF SyncIInv, Sync!TypeOK
<1>2. sync' = [sync EXCEPT ![c] = Sync!Idle] /\ sync[c].pc = "derive"
      /\ UNCHANGED <<clock, feed, handle, mirror, state, edits>>
  BY DEF Sync!Derive
<1>3. PICK F \in SUBSET mirror : fresh' = fresh \cup F
  BY DEF Sync!Derive
<1>4. /\ dropped' = (dropped \cup sync[c].page) \ fresh'
      /\ sync[c].page \subseteq mirror
  BY <1>2 DEF Sync!Derive, SyncIInv, SyncsSound
<1>5. /\ fresh' \subseteq mirror /\ dropped' \subseteq mirror
      /\ Handed \subseteq Handed' /\ sync[c].page \subseteq Handed'
  BY <1>1, <1>3, <1>4 DEF Handed
<1>6. SoundActivity(Sync!Idle) /\ Sync!Idle.pc = "idle"
  BY Ending DEF Sync!Errors
<1>7. SyncSettled \subseteq SyncSettled'
  BY <1>1, <1>2, <1>5, SettledKept
<1>8. MirrorPending'
  BY <1>2, <1>5, PendingKept
<1>9. ASSUME Steady, handle # NoHandle PROVE UpTo(feed, handle, state.cursor, SyncSettled')
  BY <1>7, <1>9, Widens DEF SyncIInv, CursorBehind
<1> QED BY <1>1, <1>2, <1>5, <1>6, <1>7, <1>8, <1>9, SyncMoves

(* A process that dies takes with it what its sync had not handed on. *)
LEMMA CrashKeeps ==
  ASSUME SyncIInv, UNCHANGED env, NEW c \in Syncs, Sync!Crash(c)
  PROVE  SyncIInv'
<1>1. /\ sync \in [Syncs -> Sync!Activities] /\ state \in Sync!SyncStates
      /\ fresh \subseteq mirror /\ dropped \subseteq mirror
  BY StateTypes DEF SyncIInv, Sync!TypeOK
<1>2. sync' = [sync EXCEPT ![c] = Sync!Idle] /\ sync[c].pc # "derive" /\ "crash" \in env
      /\ UNCHANGED <<clock, feed, handle, mirror, state, fresh, dropped, edits>>
  BY DEF Sync!Crash
<1>3. SoundActivity(Sync!Idle) /\ Sync!Idle.pc = "idle"
  BY Ending DEF Sync!Errors
<1>4. SyncSettled \subseteq SyncSettled'
  BY <1>1, <1>2, SettledKept DEF Handed
<1>5. MirrorPending'
  BY <1>2 DEF MirrorPending, Failures
<1>6. ASSUME Steady, handle # NoHandle PROVE UpTo(feed, handle, state.cursor, SyncSettled')
  BY <1>4, <1>6, Widens DEF SyncIInv, CursorBehind
<1> QED BY <1>1, <1>2, <1>3, <1>4, <1>5, <1>6, SyncMoves

-----------------------------------------------------------------------------
(* The steps of the world outside. *)
LEMMA SubmitKeeps ==
  ASSUME SyncIInv, UNCHANGED env, NEW h \in Handles, Sync!Submit(h)
  PROVE  SyncIInv'
<1>1. /\ clock \in Nat /\ clock \in 0 .. MaxClock /\ feed \in [Handles -> Seq(0 .. MaxClock)]
      /\ feed \in [Handles -> Seq(Nat)] /\ Len(feed[h]) < MaxMade
      /\ feed' = [feed EXCEPT ![h] = Append(@, clock)]
      /\ UNCHANGED <<clock, handle, mirror, state, sync, fresh, dropped, edits>>
  BY StateTypes DEF SyncIInv, Sync!TypeOK, Sync!Submit
<1>2. feed'[h] = Append(feed[h], clock) /\ \A g \in Handles \ {h} : feed'[g] = feed[g]
  BY <1>1
<1>3. feed' \in [Handles -> Seq(0 .. MaxClock)] /\ feed' \in [Handles -> Seq(Nat)]
  <2>1. Append(feed[h], clock) \in Seq(0 .. MaxClock) /\ Append(feed[h], clock) \in Seq(Nat)
    <3>1. feed[h] \in Seq(0 .. MaxClock) /\ feed[h] \in Seq(Nat)
      BY <1>1
    <3> QED BY <1>1, <3>1, AppendProperties
  <2> QED BY <1>1, <2>1
<1>4. \A g \in Handles : feed'[g] = feed[g] \/ feed'[g] = Append(feed[g], clock)
  BY <1>2
<1>5. \A g \in Handles, t \in Int : \A S : UpTo(feed, g, t, S) => UpTo(feed', g, t, S)
  BY ZenonT(40), <1>1, <1>3, <1>4, Growing DEF SyncIInv, FeedOrdered
<1>6. ASSUME NEW g \in Handles PROVE Len(feed'[g]) <= MaxMade /\ Ordered(feed', g, clock)
  <2>1. UpTo(feed, g, Sync!Never, {}) /\ Sync!Never \in Int
    BY <1>1, NothingBeforeTime, StateTypes DEF SyncIInv
  <2>2. Ordered(feed', g, clock)
    BY ZenonT(40), <1>1, <1>3, <1>4, <2>1, Growing DEF SyncIInv, FeedOrdered
  <2>3. Len(feed'[g]) <= MaxMade
    <3>1. CASE g = h
      <4>1. Len(feed'[h]) = Len(feed[h]) + 1 /\ Len(feed[h]) \in Nat
        BY <1>1, <1>2
      <4> QED BY <3>1, <4>1, <1>1, StudentSyncAssumption
    <3>2. CASE g # h
      BY <3>2, <1>2 DEF SyncIInv, FeedOrdered
    <3> QED BY <3>1, <3>2
  <2> QED BY <2>2, <2>3
<1>7. \A g \in Handles : Sync!Made(g) \subseteq Sync!Made(g)'
  <2> SUFFICES ASSUME NEW g \in Handles, NEW i \in 1 .. Len(feed[g]) PROVE i \in 1 .. Len(feed'[g])
    BY DEF Sync!Made
  <2>1. Len(feed[g]) \in Nat /\ (Len(feed'[g]) = Len(feed[g]) \/ Len(feed'[g]) = Len(feed[g]) + 1)
    <3>1. feed[g] \in Seq(Nat)
      BY <1>1
    <3>2. Len(Append(feed[g], clock)) = Len(feed[g]) + 1
      BY <1>1, <3>1, AppendProperties
    <3> QED BY <3>1, <3>2, <1>4
  <2> QED BY <2>1
<1>8. /\ SyncSettled' = SyncSettled /\ Pending' = Pending /\ (Steady' <=> Steady)
      /\ (EditsInFlight' <=> EditsInFlight)
  BY <1>1 DEF SyncSettled, Handed, Reported, Pending, Steady, EditsInFlight
<1>9. Sync!TypeOK'
  BY <1>1, <1>3 DEF SyncIInv, Sync!TypeOK
<1>10. SyncsSound'
  <2>1. mirror \subseteq UNION {Sync!Made(g)' : g \in Handles}
    BY <1>7 DEF SyncIInv, SyncsSound
  <2>2. ASSUME NEW c \in Syncs, sync[c].pc \in Holding PROVE sync'[c].page \subseteq Sync!Made(sync[c].handle)'
    <3>1. sync[c].handle \in Handles /\ sync[c].page \subseteq Sync!Made(sync[c].handle)
      BY <2>2 DEF SyncIInv, SyncsSound, Asking, Holding
    <3>2. PICK g \in Handles : g = sync[c].handle
      BY <3>1
    <3>3. sync[c].page \subseteq Sync!Made(g)'
      BY <1>7, <3>1, <3>2
    <3> QED BY <1>1, <3>2, <3>3 DEF Sync!Made
  <2> QED BY <1>1, <2>1, <2>2 DEF SyncIInv, SyncsSound
<1>11. HandleStays' /\ MirrorPending'
  BY <1>1, <1>8 DEF SyncIInv, HandleStays, MirrorPending, Handed, Failures
<1>12. OneAccount'
  <2> SUFFICES ASSUME {"edit", "import"} \cap env = {}
               PROVE  handle # NoHandle /\ mirror \subseteq Sync!Made(handle)'
    BY <1>1 DEF OneAccount, Sync!Made
  <2>1. handle \in Handles /\ handle # NoHandle /\ mirror \subseteq Sync!Made(handle)
    BY DEF SyncIInv, Sync!TypeOK, OneAccount
  <2>2. PICK g \in Handles : g = handle
    BY <2>1
  <2>3. mirror \subseteq Sync!Made(g)'
    BY <1>7, <2>1, <2>2
  <2> QED BY <1>1, <2>1, <2>2, <2>3 DEF Sync!Made
<1>13. CursorBehind'
  <2> SUFFICES ASSUME Steady, handle # NoHandle PROVE UpTo(feed', handle, state.cursor, SyncSettled)
    BY <1>1, <1>8 DEF CursorBehind
  <2>1. handle \in Handles /\ state.cursor \in Int
    BY StateTypes, StudentSyncAssumption DEF SyncIInv, Sync!TypeOK, Sync!Never
  <2> QED BY <1>5, <2>1 DEF SyncIInv, CursorBehind
<1>14. SyncsBehind'
  <2> SUFFICES ASSUME Steady, NEW c \in Syncs
               PROVE  /\ sync[c].pc = "fetch" => UpTo(feed', handle, sync[c].since, SyncSettled)
                      /\ sync[c].pc \in {"persist", "finish"} =>
                            UpTo(feed', handle, Newest(feed', sync[c].since, sync[c].page),
                                 SyncSettled \cup sync[c].page)
    BY <1>1, <1>8 DEF SyncsBehind
  <2>1. sync[c] \in Sync!Activities /\ sync[c].since \in Sync!Never .. MaxClock /\ sync[c].since \in Int
    <3>1. sync[c] \in Sync!Activities
      BY StateTypes DEF SyncIInv
    <3>2. sync[c].since \in Sync!Never .. MaxClock
      BY <3>1 DEF Sync!Activities
    <3> QED BY <3>1, <3>2, StudentSyncAssumption DEF Sync!Never
  <2>2. sync[c].pc \in Asking => handle \in Handles /\ sync[c].handle = handle
    BY DEF SyncIInv, SyncsSound, HandleStays, Steady
  <2>3. ASSUME sync[c].pc = "fetch" PROVE UpTo(feed', handle, sync[c].since, SyncSettled)
    BY <1>5, <2>1, <2>2, <2>3 DEF SyncIInv, SyncsBehind, Asking
  <2>4. ASSUME sync[c].pc \in {"persist", "finish"}
        PROVE  UpTo(feed', handle, Newest(feed', sync[c].since, sync[c].page), SyncSettled \cup sync[c].page)
    <3> DEFINE page == sync[c].page
               t == Newest(feed, sync[c].since, page)
    <3>1. handle \in Handles /\ page \in SUBSET {<<handle, i>> : i \in 1 .. Len(feed[handle])}
      BY <2>2, <2>4 DEF SyncIInv, SyncsSound, Asking, Holding, Sync!Made
    <3>2. t \in Sync!Never .. MaxClock
      BY <1>1, <2>1, <3>1, NewestTyped
    <3>3. t \in Int
      BY <3>2, StudentSyncAssumption DEF Sync!Never
    <3>4. \A s \in page : feed'[s[1]][s[2]] = feed[s[1]][s[2]]
      <4> SUFFICES ASSUME NEW i \in 1 .. Len(feed[handle]) PROVE feed'[handle][i] = feed[handle][i]
        BY <3>1
      <4>1. feed[handle] \in Seq(Nat)
        BY <1>1, <3>1
      <4> QED BY <4>1, <1>1, <1>4, <3>1
    <3> HIDE DEF page
    <3>5. Newest(feed', sync[c].since, page) = t
      <4> DEFINE T(f) == {f[s[1]][s[2]] : s \in page}
                 P(f, x) == \A s \in page : f[s[1]][s[2]] <= x
      <4>1. T(feed') = T(feed)
        BY <3>4
      <4>2. \A x : P(feed', x) <=> P(feed, x)
        BY <3>4
      <4>3. \A f : Newest(f, sync[c].since, page) =
                   IF page = {} THEN sync[c].since ELSE CHOOSE x \in T(f) : P(f, x)
        BY DEF Newest
      <4> HIDE DEF P, T
      <4>4. (CHOOSE x \in T(feed') : P(feed', x)) = (CHOOSE x \in T(feed) : P(feed, x))
        BY <4>1, <4>2
      <4> QED BY <4>3, <4>4 DEF t
    <3> HIDE DEF t
    <3>6. UpTo(feed, handle, t, SyncSettled \cup page)
      BY <2>4 DEF SyncIInv, SyncsBehind, t, page
    <3>7. UpTo(feed', handle, t, SyncSettled \cup page)
      BY <1>5, <3>1, <3>3, <3>6
    <3> QED BY <3>5, <3>7 DEF page
  <2> QED BY <2>3, <2>4
<1>15. FeedOrdered'
  BY <1>1, <1>6 DEF FeedOrdered
<1> QED BY <1>9, <1>10, <1>11, <1>12, <1>13, <1>14, <1>15 DEF SyncIInv

LEMMA SyncTickKeeps ==
  ASSUME SyncIInv, UNCHANGED env, Sync!Tick
  PROVE  SyncIInv'
<1>1. clock \in 0 .. MaxClock /\ clock < MaxClock /\ clock' = clock + 1
      /\ UNCHANGED <<feed, handle, mirror, state, sync, fresh, dropped, edits>>
  BY DEF SyncIInv, Sync!TypeOK, Sync!Tick
<1>2. Sync!TypeOK'
  <2>1. clock' \in 0 .. MaxClock
    BY <1>1, StudentSyncAssumption
  <2> QED BY <1>1, <2>1 DEF SyncIInv, Sync!TypeOK
<1>3. FeedOrdered'
  <2> SUFFICES ASSUME NEW h \in Handles, NEW i \in 1 .. Len(feed[h]) PROVE feed[h][i] <= clock + 1
    BY <1>1 DEF SyncIInv, FeedOrdered, Ordered
  <2>1. feed[h] \in Seq(Nat) /\ clock \in Nat
    BY StateTypes DEF SyncIInv
  <2>2. feed[h][i] \in Nat
    BY <2>1
  <2>3. feed[h][i] <= clock
    BY DEF SyncIInv, FeedOrdered, Ordered
  <2> QED BY <2>1, <2>2, <2>3
<1>4. SyncsSound' /\ HandleStays' /\ OneAccount' /\ MirrorPending'
  BY <1>1 DEF SyncIInv, SyncsSound, HandleStays, EditsInFlight, OneAccount, MirrorPending,
       Handed, Pending, Sync!Made
<1>5. SyncSettled' = SyncSettled /\ (Steady' <=> Steady)
  BY <1>1 DEF SyncSettled, Handed, Reported, Steady, EditsInFlight
<1>6. CursorBehind' /\ SyncsBehind'
  BY <1>1, <1>5 DEF SyncIInv, CursorBehind, SyncsBehind
<1> QED BY <1>2, <1>3, <1>4, <1>6 DEF SyncIInv

(* A change of the account: where it must not meet a sync, none is under   *)
(* way, and the edit leaves no cursor.                                     *)
LEMMA EditKeeps ==
  ASSUME SyncIInv, UNCHANGED env, NEW h \in Handles, Sync!EditHandle(h) \/ Sync!ImportHandle(h)
  PROVE  SyncIInv'
<1>1. /\ handle' = h /\ edits' = 1 /\ UNCHANGED <<clock, feed, mirror, sync, fresh, dropped>>
      /\ {"edit", "import"} \cap env # {}
      /\ ~ EditsInFlight => \A c \in Syncs : sync[c].pc = "idle"
  BY DEF Sync!EditHandle, Sync!ImportHandle, EditsInFlight
<1>2. state' \in Sync!SyncStates /\ (Steady => state'.cursor = Sync!Never)
  <2>1. state \in Sync!SyncStates
    BY DEF SyncIInv, Sync!TypeOK
  <2>2. Sync!Never \in Sync!Never .. MaxClock
    BY StudentSyncAssumption DEF Sync!Never
  <2> QED BY <2>1, <2>2 DEF Sync!EditHandle, Sync!ImportHandle, Sync!SyncStates, Steady
<1>3. Sync!TypeOK'
  BY <1>1, <1>2 DEF SyncIInv, Sync!TypeOK
<1>4. FeedOrdered' /\ SyncsSound' /\ MirrorPending'
  BY <1>1 DEF SyncIInv, FeedOrdered, SyncsSound, MirrorPending, Handed, Pending, Sync!Made
<1>5. (EditsInFlight' <=> EditsInFlight) /\ (Steady' <=> Steady)
  BY DEF EditsInFlight, Steady
<1>6. HandleStays' /\ OneAccount'
  BY <1>1, <1>5 DEF HandleStays, OneAccount, Asking
<1>7. CursorBehind'
  <2>1. Steady => UpTo(feed, h, Sync!Never, SyncSettled')
    BY StateTypes, NothingBeforeTime DEF SyncIInv
  <2> QED BY <1>1, <1>2, <1>5, <2>1 DEF CursorBehind
<1>8. SyncsBehind'
  BY <1>1, <1>5 DEF SyncsBehind, Steady
<1> QED BY <1>3, <1>4, <1>6, <1>7, <1>8 DEF SyncIInv

-----------------------------------------------------------------------------
LEMMA SyncInitIInv == Sync!Init => SyncIInv
<1> SUFFICES ASSUME Sync!Init PROVE SyncIInv
  OBVIOUS
<1>1. Sync!Never \in Sync!Never .. MaxClock /\ 0 \in 0 .. MaxClock
  BY StudentSyncAssumption DEF Sync!Never
<1>2. Sync!Idle \in Sync!Activities /\ Sync!NewState \in Sync!SyncStates /\ Sync!Idle.pc = "idle" /\ Sync!Idle.page = {} /\ Sync!NewState.cursor = Sync!Never
  BY <1>1 DEF Sync!Idle, Sync!NewState, Sync!Activities, Sync!SyncStates
<1>3. feed \in [Handles -> Seq(0 .. MaxClock)] /\ feed \in [Handles -> Seq(Nat)]
      /\ \A h \in Handles : Len(feed[h]) = 0
  BY DEF Sync!Init
<1>4. sync \in [Syncs -> Sync!Activities] /\ \A c \in Syncs : sync[c] = Sync!Idle
  BY <1>2 DEF Sync!Init
<1>5. Sync!TypeOK
  BY <1>1, <1>2, <1>3, <1>4 DEF Sync!Init, Sync!TypeOK
<1>6. FeedOrdered
  BY <1>3, StudentSyncAssumption DEF FeedOrdered, Ordered
<1>7. SyncsSound /\ HandleStays /\ MirrorPending
  BY <1>2, <1>4 DEF Sync!Init, SyncsSound, HandleStays, MirrorPending, Asking, Holding
<1>8. OneAccount
  BY DEF Sync!Init, OneAccount
<1>9. CursorBehind
  <2>1. state.cursor = Sync!Never
    BY <1>2 DEF Sync!Init
  <2> QED BY <1>3, <1>5, <2>1, NothingBeforeTime DEF Sync!TypeOK, CursorBehind
<1>10. SyncsBehind
  BY <1>2, <1>4 DEF SyncsBehind
<1> QED BY <1>5, <1>6, <1>7, <1>8, <1>9, <1>10 DEF SyncIInv

LEMMA SyncNextIInv == SyncIInv /\ [Sync!Next]_Sync!vars => SyncIInv'
<1> SUFFICES ASSUME SyncIInv, [Sync!Next]_Sync!vars PROVE SyncIInv'
  OBVIOUS
<1>1. CASE UNCHANGED Sync!vars
  <2>1. SyncSettled' = SyncSettled /\ Pending' = Pending /\ (Steady' <=> Steady) /\ (EditsInFlight' <=> EditsInFlight)
        /\ \A h : Sync!Made(h)' = Sync!Made(h)
    BY <1>1 DEF Sync!vars, SyncSettled, Handed, Reported, Pending, Steady, EditsInFlight, Sync!Made
  <2>2. Sync!TypeOK' /\ FeedOrdered' /\ HandleStays' /\ MirrorPending'
    BY <1>1, <2>1 DEF Sync!vars, SyncIInv, Sync!TypeOK, FeedOrdered, HandleStays, MirrorPending,
         Handed, Failures
  <2>3. SyncsSound' /\ OneAccount'
    BY <1>1, <2>1 DEF Sync!vars, SyncIInv, SyncsSound, OneAccount, Sync!Made
  <2>4. CursorBehind' /\ SyncsBehind'
    BY <1>1, <2>1 DEF Sync!vars, SyncIInv, CursorBehind, SyncsBehind
  <2> QED BY <2>2, <2>3, <2>4 DEF SyncIInv
<1>2. CASE Sync!Next
  <2>1. UNCHANGED env
    BY <1>2 DEF Sync!Next
  <2> QED BY <1>2, <2>1, SubmitKeeps, SyncTickKeeps, EditKeeps, BeginKeeps, MissingKeeps,
             FetchKeeps, PersistKeeps, FinishKeeps, RecordKeeps, DeriveKeeps, CrashKeeps
             DEF Sync!Next, Sync!SyncStep
<1> QED BY <1>1, <1>2

LEMMA SyncInvariance == Sync!Spec => []SyncIInv
  BY SyncInitIInv, SyncNextIInv, PTL DEF Sync!Spec

-----------------------------------------------------------------------------
(* Every variable keeps its type, for any accounts, syncs and faults.      *)
THEOREM SyncTyping == Sync!Spec => []Sync!TypeOK
<1>1. SyncIInv => Sync!TypeOK
  BY DEF SyncIInv
<1> QED BY <1>1, SyncInvariance, PTL

(* The cursor never passes a submission of the linked account that the     *)
(* mirror lacks and the provider still shows, however syncs overlap and    *)
(* fail (persistSubmissions, updateSyncState).                             *)
THEOREM CursorSkipsNothing == Sync!Spec => []CursorNeverSkips
  BY InvariantImplies, SyncInvariance, PTL

(* A mirrored submission whose day was not recomputed is reported by a     *)
(* sync under way, offered to a later one, or was handed to a job that     *)
(* ended without recomputing the day; whatever calls of the syncs and the  *)
(* jobs fail (syncStudent, execute).                                       *)
THEOREM NoDayForgotten == Sync!Spec => []DaysNotForgotten
  BY InvariantImplies, SyncInvariance, PTL
=============================================================================
