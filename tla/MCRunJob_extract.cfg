\* extract
SPECIFICATION Spec
CONSTANTS
    t1 = t1
    t2 = t2
    NoTrv = NoTrv
    Trvs = {t1, t2}
    Existing = {t1}
    Plans <- ExtractPlans
    MaxInvocations = 1
    MaxCrashes = 0
INVARIANT
    ExtractNeedsOnlyMapping
CHECK_DEADLOCK FALSE
