SPECIFICATION Spec
CONSTANTS
    LastTurn = 2
    Stated = {"x"}
    Vote = 2
    MediumPaths = 1
    Settings <- MCSettings
    Requested = 0
    Answer = {"answer"}
    Path = {"shorter", "longer"}
    MaxKeys = 2
    MaxDrives = 3
    Judged = 3
    Concurrency = 2
    Asks = {"a", "b"}
    Outputs = {"x"}
    MaxItems = 4
    PruneAbove = 1
    KeepRecent = 1
    JudgedAtOnce = 1
    CacheLimit = 1
    Pasted <- MCPasted
    MaxStrokes = 2
    KeyRoom = 1
    Commands <- MCCommands
    Avail = 2
    MaxText = 4
    MaxPressed = 5
    Options <- MCOptions
    MaxAnswers = 4
    Programs <- MCPrograms
INVARIANTS
    JudgeIsHeard
    SwitchesAreSafe
    SessionsAreOrderly
    SwitchesSurvive
    TypingIsHeard
PROPERTIES
    CanceledChecksAreQuiet
    EverythingEnds
\* A turn may have returned, and the program may have quit.
CHECK_DEADLOCK FALSE
