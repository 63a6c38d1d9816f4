SPECIFICATION Spec
CONSTANTS
    Recordings <- Recs
    Turns <- Heard
    StubText <- Stub
    Vocabulary <- Numbers
    Sources <- Transcripts
    Drafts <- Written
    Overlays <- Named
    Runs <- TwoRuns
    Blank <- OneBlank
    Bare <- OneBlank
    ChatCalls = {"c1"}
    Free = "free"
    MaxStops = 1
    Users <- Members
    Chats = {"group"}
    Names <- OneName
    Modes <- BothModes
    Counts <- AutoOrMore
    MaxUploads = 2
    MaxPresses = 5
    Residents = {"home", "work"}
    Lamps = {"thor", "sky"}
    Messages <- Sayings
    SessionTimeout = 30
    HeatTimeout = 10
    Pauses = {11, 31}
    MaxTime = 31
    MaxMessages = 3
    Segments <- Indexed
    Produced <- MadeBy
    NoVersion = "none"
    Questions <- Asked
    Everywhere = "*"
    Answers <- Replied
    FallbackCites = 2
    JumpHits = 3
    MaxChanges = 2
CHECK_DEADLOCK FALSE
INVARIANTS
    AlignmentFaithful
    PublishedGrounded
    FallbacksExplained
    ChatGrounded
    BeliefsExplained
    RunsAsConfirmed
PROPERTIES
    FormalizeEnds
    CommandsMeant
