SPECIFICATION FairSpec
CONSTANTS
    None = None
    q1 = q1
    Problems = {q1}
    Lookback = 0
    StreakNeeds = 1
    Students = {1, 2, 3}
    Today = 3
    Week = 2
    Month = 4
    CampusOn <- CampusMove
    SquadOf <- TwoSquads
    MinuteOf <- Minutes
    Procs = {1, 2}
    Reach = 1
    PerNight = 1
    FirstSolves <- EarlySolves
    MaxMirrored = 1
    MaxRemoved = 1
    MaxCrashes = 1
    MaxFlips = 1
    Environments <- Mixed
INVARIANTS BoardsCorrect
PROPERTIES RulesConverge
