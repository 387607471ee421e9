SPECIFICATION Spec
CONSTANTS
    s1 = s1
    s2 = s2
    s3 = s3
    a1 = a1
    a2 = a2
    a3 = a3
    q1 = q1
    q2 = q2
    p1 = p1
    p2 = p2
    c1 = c1
    b1 = b1
    b2 = b2
    None = None
    Problems = {q1}
    Lookback = 1
    StreakNeeds = 1
    Students = {s1}
    Assignments = {a1}
    Scopes <- BothScopes
    Home <- BatchHomes
    EnrolledFrom <- FromStart
    Procs = {p1}
    LastDay = 4
    Reach = 3
    MaxSyncDays = 4
    MaxEdits = 1
    MaxMirrored = 1
    Lag = 3
    Ahead = 0
    Leavers = {s1}
    Uses = {"update", "retarget", "remove"}
INVARIANTS EveryStreakReconciled
