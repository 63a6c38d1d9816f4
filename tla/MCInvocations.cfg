\* two invocations of a run with audio or of one without
SPECIFICATION InvSpec
CONSTANTS
    web = web
    cli = cli
    NoOne = NoOne
    Invocations = {web, cli}
SYMMETRY Either
CHECK_DEADLOCK FALSE
INVARIANTS
    SuccessIsOwn
    OnlyAllowedPublished
    SavesExplained
PROPERTY
    ReceiptExcludes
