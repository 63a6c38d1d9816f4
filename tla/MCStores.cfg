SPECIFICATION Spec
CONSTANTS
    p1 = p1
    p2 = p2
    p3 = p3
    r1 = r1
    r2 = r2
    v1 = v1
    Nobody = Nobody
    Posts <- ThePosts
    NameOf <- OneName
    Chunks <- TheChunks
    Whole <- ComesWhole
    Runs <- TheRuns
    Pins <- PinnedAndLatest
    MaxStops = 1
    Titles <- TwoTitles
    IdsFor <- TheirIds
    System = "default"
    Formalizers <- OneRun
    Wants <- OneOfEach
    MaxBorn = 3
    MaxEnds = 1
    Versions <- OneVersion
    SessionRuns <- OneRun
    Requests <- Bundles
    MaxExports = 2
    MaxCrashes = 1
CHECK_DEADLOCK FALSE
INVARIANTS
    ContributionsTrue
    FailuresExplained
    TextsKept
    AnswersWhole
    FreshAnswersComplete
    BundlesFull
    InputsRecorded
