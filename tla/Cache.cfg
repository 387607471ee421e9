SPECIFICATION Spec
CONSTANTS
    Procs = {p1, p2}
    Keys = {k1}
    Ttl = 2
    MaxFill = 1
    MaxEntries = 1
    MaxVersions = 2
    LastTick = 5
    Outages = 1
INVARIANTS StalenessBounded
PROPERTIES InvalidationIsFinal
SYMMETRY ProcSymmetry
CHECK_DEADLOCK FALSE
