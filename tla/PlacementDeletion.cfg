SPECIFICATION Spec
CONSTANTS
    Students = {"s1", "s2"}
    Campuses = {"A", "B"}
    Batches = {"a1", "a2", "b1"}
    CampusOf <- CampusOfBatch
    Requests = {r1, r2}
    MaxRequests = 3
    LastDay = 3
    Environments <- WithDeletion
PROPERTIES HistoryAppendOnly
CHECK_DEADLOCK FALSE
