SPECIFICATION FairSpec
CONSTANTS
    Tabs = {t1, t2}
    Calls = {c1, c2}
    MaxTokens = 4
    Environments <- Usual
INVARIANTS ExchangedOnce SessionSurvives SessionsEnd
PROPERTIES EveryCallEnds
CHECK_DEADLOCK FALSE
