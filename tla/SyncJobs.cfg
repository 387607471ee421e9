SPECIFICATION Spec
CONSTANTS
    Jobs = {j1}
    Students = {s1, s2}
    Workers = {w1, w2}
    Locals = {l1}
    MaxTries = 2
    Environments <- OneAtATime
    None = None
SYMMETRY SlotSymmetry
INVARIANTS ExclusiveExecution VerdictMatchesItems ProgressBackedByItems
PROPERTIES CompletedNotRerun ImplementsLifecycle
CHECK_DEADLOCK FALSE
