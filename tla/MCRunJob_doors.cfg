\* two invocations of every plan of a door, one of which may die
SPECIFICATION FairSpec
CONSTANTS
    t1 = t1
    t2 = t2
    NoTrv = NoTrv
    Trvs = {t1, t2}
    Existing = {t1}
    Plans <- DoorPlans
    MaxInvocations = 2
    MaxCrashes = 1
INVARIANTS
    TypeOK
    PublishedOnlyPastGate
    CancelHonoured
    OutputsComplete
    SingleInvocationOutputs
PROPERTIES
    LifecycleSpec
    CompletedIsFinal
    ProgressNeverBackwards
    StartedRunsEnd
CHECK_DEADLOCK FALSE
