SPECIFICATION FairSpec
CONSTANTS
    None = None
    day = day
    Reports = {r1, r2}
    Audience <- SameAudience
    Contents = {v1}
    Callers = {k1, k2}
    MaxMails = 2
    Environments = {{"crash", "db", "reply", "reapprove"}, {"crash"}, {"reply", "reapprove"}}
INVARIANTS MailedOnlyIfApproved SentWasMailed OneMailPerReport
PROPERTIES ClaimsEnd
CHECK_DEADLOCK FALSE
