SPECIFICATION FairSpec
CONSTANTS
    Jobs = {j1}
    Students = {s1, s2}
    Workers = {w1}
    Locals = {l1}
    MaxTries = 2
    Environments <- InlineOrTwice
    None = None
INVARIANTS CountersExactAtEnd
PROPERTIES EveryJobEnds
CHECK_DEADLOCK FALSE
