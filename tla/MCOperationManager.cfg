\* Two operations, jobs of two handlers or reads, and one crash; the tools of a
\* session and their calls; and what operations return.
CONSTANTS
    c1 = c1
    h1 = h1
    h2 = h2
    External = {}
    Call = {c1}
    Slot = {1, 2}
    MaxTurn = 1
    FileSize = 1
    Handler = {h1, h2}
    MaxPending = 2
    MaxJobUpdates = 1
    Types = {"skill_use", "remote_job"}
    MaxCrash = 1
    Directories <- MCDirectories
    Calls <- MCCalls
    AnySkills <- MCSkills
    MaxIDs = 3
    DefaultLength = 3
    MaxLength = 4
    Limits = {1, 2}
    MaxBytes = 5
    OtherTexts <- MCOtherTexts
    Images <- MCImages
    ImageLimits <- MCImageLimits
SPECIFICATION MCSpec
INVARIANTS
    CallsAreAnswered
PROPERTIES
    ImplementsManager
CHECK_DEADLOCK FALSE
