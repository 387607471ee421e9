-------------------------------- MODULE Cache --------------------------------
(***************************************************************************)
(* The read-through cache before dashboards and leaderboards               *)
(* (CacheService): Redis shared by the processes, and in each process an   *)
(* in-memory tier for when Redis does not answer.  A cached value is the   *)
(* version of the data it was computed from; time is counted in ticks.     *)
(* CacheState has its variables and what it promises.                      *)
(***************************************************************************)
EXTENDS CacheState, Sequences, FiniteSets, FiniteSetsExt

vars == <<now, version, changedAt, redis, up, outages, healthy, memory, proc, served, floor>>
clock == <<now, version, changedAt>>
tiers == <<redis, healthy, memory>>

Idle == [pc |-> "idle"]
NoEntry == [value |-> 0, expires |-> 0]
At(p, pc) == proc[p].pc = pc
Goto(p, x) == proc' = [proc EXCEPT ![p] = x]

Init ==
    /\ now = 1 /\ version = 1 /\ changedAt = <<>>
    /\ redis = [k \in Keys |-> NoEntry] /\ up = TRUE /\ outages = 0
    /\ healthy = [p \in Procs |-> TRUE]
    /\ memory = [p \in Procs |-> {}]
    /\ proc = [p \in Procs |-> Idle]
    /\ served = [p \in Procs |-> [value |-> 1, at |-> 1]]
    /\ floor = 1

-----------------------------------------------------------------------------
Alive(e) == e.expires > now
Held(p, k) == {e \in memory[p] : e.key = k}
Cached(p, k) == {e \in Held(p, k) : Alive(e)}

Serve(p, v) == served' = [served EXCEPT ![p] = [value |-> v, at |-> now]]
Miss(p, k) == Goto(p, [pc |-> "fill", key |-> k]) /\ UNCHANGED served
Hit(p, v) == Goto(p, Idle) /\ Serve(p, v)

(* Broken variant: what is read lives on. *)
GetRenewing(p, k) ==
    /\ At(p, "idle")
    /\ IF healthy[p] /\ up /\ Alive(redis[k])
       THEN /\ Hit(p, redis[k].value)
            /\ redis' = [redis EXCEPT ![k].expires = now + Ttl]
            /\ UNCHANGED <<healthy, memory>>
       ELSE Miss(p, k) /\ UNCHANGED tiers
    /\ UNCHANGED <<clock, up, outages, floor>>

(* get, as remember begins: Redis while it is thought healthy; when it     *)
(* fails, and until it is ready again, the process's own memory.           *)
Get(p, k) ==
    /\ At(p, "idle")
    /\ IF healthy[p] /\ up
       THEN /\ IF Alive(redis[k]) THEN Hit(p, redis[k].value) ELSE Miss(p, k)
            /\ UNCHANGED tiers
       ELSE /\ \/ \E e \in Cached(p, k) : Hit(p, e.value) /\ UNCHANGED memory
               \/ /\ Cached(p, k) = {}
                  /\ Miss(p, k)
                  /\ memory' = [memory EXCEPT ![p] = @ \ Held(p, k)]
            /\ healthy' = [healthy EXCEPT ![p] = FALSE]
            /\ UNCHANGED redis
    /\ UNCHANGED <<clock, up, outages, floor>>

(* The factory computes the value from the data of this moment.            *)
Compute(p) ==
    /\ At(p, "fill")
    /\ Goto(p, [pc |-> "set", key |-> proc[p].key, value |-> version, since |-> now])
    /\ UNCHANGED <<clock, tiers, up, outages, served, floor>>

(* The memory tier drops its oldest entry when full, even for a key it     *)
(* holds; a key it still holds keeps its place, a new one comes last.      *)
Remembered(map, k, v) ==
    LET room == IF Cardinality(map) >= MaxEntries
                THEN {e \in map : \E older \in map : older.place < e.place} ELSE map
        held == {e \in room : e.key = k}
        places == {e.place : e \in IF held = {} THEN room ELSE held}
        last == IF places = {} THEN 0 ELSE Max(places)
    IN (room \ held) \cup
       {[key |-> k, value |-> v, expires |-> now + Ttl,
         place |-> IF held = {} THEN last + 1 ELSE last]}

(* set, and the value is returned: the lifetime begins here.               *)
Set(p) ==
    LET q == proc[p] IN
    /\ At(p, "set")
    /\ IF healthy[p] /\ up
       THEN /\ redis' = [redis EXCEPT ![q.key] = [value |-> q.value, expires |-> now + Ttl]]
            /\ UNCHANGED <<healthy, memory>>
       ELSE /\ memory' = [memory EXCEPT ![p] = Remembered(@, q.key, q.value)]
            /\ healthy' = [healthy EXCEPT ![p] = FALSE]
            /\ UNCHANGED redis
    /\ Goto(p, Idle)
    /\ Serve(p, q.value)
    /\ UNCHANGED <<clock, up, outages, floor>>

-----------------------------------------------------------------------------
(* A change of the data (a sync, a recompute, a move); its request then    *)
(* invalidates by prefix: the memory of its own process, then Redis.       *)
Change(p) ==
    /\ At(p, "idle")
    /\ version <= MaxVersions
    /\ version' = version + 1
    /\ changedAt' = Append(changedAt, now)
    /\ Goto(p, [pc |-> "forget"])
    /\ UNCHANGED <<now, tiers, up, outages, served, floor>>

ForgetMemory(p) ==
    /\ At(p, "forget")
    /\ memory' = [memory EXCEPT ![p] = {}]
    /\ Goto(p, [pc |-> "scan", version |-> version])
    /\ UNCHANGED <<clock, redis, up, outages, healthy, served, floor>>

(* Broken variant: only the process's own memory is cleared. *)
ScanNothing(p) ==
    /\ At(p, "scan")
    /\ floor' = proc[p].version
    /\ Goto(p, Idle)
    /\ UNCHANGED <<clock, redis, healthy, memory, up, outages, served>>

(* SCAN and DEL.  From then on the version of the data is at least known   *)
(* to every read, if no outage hid an entry and no fill is under way.      *)
Filling == \E q \in Procs : proc[q].pc \in {"fill", "set"}
Scan(p) ==
    /\ At(p, "scan")
    /\ IF healthy[p] /\ up
       THEN redis' = [k \in Keys |-> NoEntry] /\ UNCHANGED healthy
       ELSE UNCHANGED redis /\ healthy' = [healthy EXCEPT ![p] = FALSE]
    /\ floor' = IF outages = 0 /\ ~ Filling THEN proc[p].version ELSE floor
    /\ Goto(p, Idle)
    /\ UNCHANGED <<clock, memory, up, outages, served>>

-----------------------------------------------------------------------------
Sweep(p) ==
    /\ \E e \in memory[p] : ~ Alive(e)
    /\ memory' = [memory EXCEPT ![p] = {e \in @ : Alive(e)}]
    /\ UNCHANGED <<clock, redis, healthy, up, outages, proc, served, floor>>

Outage ==
    /\ up /\ outages < Outages
    /\ up' = FALSE /\ outages' = outages + 1
    /\ UNCHANGED <<clock, tiers, proc, served, floor>>

Recover ==
    /\ ~ up
    /\ up' = TRUE
    /\ UNCHANGED <<clock, tiers, outages, proc, served, floor>>

(* The client's error and ready events.                                    *)
Noticed(p) ==
    /\ healthy[p] # up
    /\ healthy' = [healthy EXCEPT ![p] = up]
    /\ UNCHANGED <<clock, redis, memory, up, outages, proc, served, floor>>

Tick ==
    /\ now < LastTick
    /\ \A p \in Procs : At(p, "set") => now < proc[p].since + MaxFill
    /\ now' = now + 1
    /\ UNCHANGED <<version, changedAt, tiers, up, outages, proc, served, floor>>

Next ==
    \/ \E p \in Procs :
          \/ \E k \in Keys : Get(p, k)
          \/ Compute(p) \/ Set(p) \/ Change(p) \/ ForgetMemory(p) \/ Scan(p) \/ Sweep(p) \/ Noticed(p)
    \/ Outage \/ Recover \/ Tick

Spec == Init /\ [][Next]_vars

-----------------------------------------------------------------------------
Activities ==
    [pc : {"idle", "forget"}] \cup [pc : {"fill"}, key : Keys]
      \cup [pc : {"set"}, key : Keys, value : Nat, since : Nat]
      \cup [pc : {"scan"}, version : Nat]

(* Typing. *)
TypeOK ==
    /\ {now, version, outages, floor} \subseteq Nat
    /\ changedAt \in Seq(Nat)
    /\ redis \in [Keys -> [value : Nat, expires : Nat]]
    /\ up \in BOOLEAN
    /\ healthy \in [Procs -> BOOLEAN]
    /\ memory \in [Procs -> SUBSET [key : Keys, value : Nat, expires : Nat, place : Nat]]
    /\ proc \in [Procs -> Activities]
    /\ served \in [Procs -> [value : Nat, at : Nat]]
=============================================================================
