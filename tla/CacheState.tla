----------------------------- MODULE CacheState ------------------------------
(***************************************************************************)
(* What Cache is about and what it promises: the two tiers, the version of *)
(* the data they show, and what was served from them.                      *)
(***************************************************************************)
EXTENDS Naturals

CONSTANTS
    Procs,
    Keys,           \* the keys that share the invalidated prefix
    Ttl,            \* ticks an entry lives
    MaxFill,        \* bound: ticks a factory runs
    MaxEntries,     \* MEMORY_CACHE_MAX_ENTRIES
    MaxVersions,    \* bound: changes of the data
    LastTick,       \* bound of time
    Outages         \* bound: times Redis goes away

ASSUME CacheAssumption ==
    /\ Ttl \in Nat \ {0} /\ MaxEntries \in Nat \ {0}
    /\ {MaxFill, MaxVersions, LastTick, Outages} \subseteq Nat

VARIABLES
    now,
    version,        \* of the data
    changedAt,      \* the tick at which each version but the last was superseded
    redis,          \* entries of Redis by key; none when empty
    up,             \* Redis answers
    outages,        \* outages so far
    healthy,        \* redisHealthy of each process
    memory,         \* the Map of each process: its entries, place is the order of insertion
    proc,           \* what each process is doing
    served,         \* what each process last returned
    floor           \* the version a completed invalidation guarantees

-----------------------------------------------------------------------------
(* Whatever Redis did meanwhile, and in whatever order fills and           *)
(* invalidations met, a figure is served at most one lifetime and one      *)
(* factory run after the data it shows was superseded: no tier hands a     *)
(* value on with a new lifetime.                                           *)
StalenessBounded ==
    \A p \in Procs :
        LET s == served[p]
        IN s.value < version /\ changedAt[s.value] < s.at => s.at <= changedAt[s.value] + MaxFill + Ttl

(* While Redis answers, an invalidation that met no fill is final: no      *)
(* process serves a version from before it again.                          *)
NothingOlder ==
    \A p \in Procs : outages = 0 /\ served'[p] # served[p] => served'[p].value >= floor
InvalidationIsFinal == [][NothingOlder]_served
=============================================================================
