\* One shell operation and a crash.
CONSTANTS
    c1 = c1
    h1 = h1
    h2 = h2
    External = {}
    Call = {c1}
    Slot = {1}
    MaxTurn = 1
    FileSize = 2
    Handler = {}
    MaxPending = 2
    MaxJobUpdates = 0
    Types = {"shell"}
    MaxCrash = 1
SPECIFICATION Spec
INVARIANT
    StartedOnce
CHECK_DEADLOCK FALSE
