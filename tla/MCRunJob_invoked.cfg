\* invoked
SPECIFICATION FairSpec
CONSTANTS
    t1 = t1
    t2 = t2
    NoTrv = NoTrv
    Trvs = {t1, t2}
    Existing = {t1}
    Plans <- OnePlan
    MaxInvocations = 1
    MaxCrashes = 0
PROPERTY
    InvokedRunsEnd
CHECK_DEADLOCK FALSE
