SPECIFICATION Spec
CONSTANTS
    None = None
    day = day
    Reports = {r1}
    Audience <- SameAudience
    Contents = {v1}
    Callers = {k1, k2, k3}
    MaxMails = 2
    Environments = {{"reapprove"}}
SYMMETRY Symmetric
INVARIANTS ExactlyOneSend
CHECK_DEADLOCK FALSE
