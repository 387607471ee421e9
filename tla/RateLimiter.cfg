SPECIFICATION FairSpec
CONSTANTS
    Requests = {r1, r2, r3}
    Concurrency = 2
    Burst = 2
    Cost = 2
    MaxRetries = 1
    MaxBackoff = 1
    Window = 4
INVARIANTS SlotsAccounted RateBounded WaitersHaveWakeup
PROPERTIES ServedInOrder EveryRequestEnds
