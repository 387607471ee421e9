SPECIFICATION Spec
CONSTANTS
    s1 = s1
    s2 = s2
    s3 = s3
    a1 = a1
    a2 = a2
    a3 = a3
    q1 = q1
    q2 = q2
    p1 = p1
    p2 = p2
    c1 = c1
    b1 = b1
    b2 = b2
    None = None
    Problems = {q1}
    Lookback = 0
    StreakNeeds = 1
    Students = {s1}
    Assignments = {a1}
    Scopes <- BatchScopes
    Home <- BatchHomes
    EnrolledFrom <- FromStart
    Procs = {p1, p2}
    LastDay = 2
    Reach = 3
    MaxSyncDays = 2
    MaxEdits = 3
    MaxMirrored = 2
    Lag = 1
    Ahead = 0
    Leavers = {s1}
    Uses = {"update", "retarget", "remove", "archive", "restore", "fail", "nightly", "backfill"}
SYMMETRY ProcSymmetry
INVARIANTS CreditIsEvidenced EvaluatedInAudience
