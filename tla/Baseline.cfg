SPECIFICATION Spec
CONSTANTS
    Students = {1, 2, 3}
    Submissions <- Mirrored
    Drafts <- ProblemSets
    Points <- PointsOf
    Audiences <- Anyone
    Roster <- TwoCampuses
    Requests = {r1, r2}
    MaxRequests = 4
    Environments <- Separate
INVARIANTS ScoreMatchesResults ReviewKept GradedInTime BoardsAddUp
CHECK_DEADLOCK FALSE
