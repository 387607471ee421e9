SPECIFICATION FairSpec
CONSTANTS
    Handles = {h1, h2}
    NoHandle = NoHandle
    Syncs = {c1, c2}
    RecentLimit = 2
    Failing = {"http429"}
    DayLength = 1
    Lookback = 1
    MaxMade = 3
    MaxClock = 2
    FaultSets <- OverlapOrEdit
INVARIANTS CursorNeverSkips DaysNotForgotten
PROPERTIES EventuallyCounted
CHECK_DEADLOCK FALSE
