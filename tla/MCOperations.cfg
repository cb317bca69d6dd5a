\* One operation of every type, two handlers and crashes, under fairness.
CONSTANTS
    c1 = c1
    h1 = h1
    h2 = h2
    External = {}
    Call = {c1}
    Slot = {1}
    MaxTurn = 1
    FileSize = 2
    Handler = {h1}
    MaxPending = 2
    MaxJobUpdates = 2
    Types = {"value", "skill_use", "view_image", "shell", "remote_job"}
    MaxCrash = 1
SPECIFICATION FairSpec
INVARIANTS
    OperationsGoOn
PROPERTIES
    StoredNeverGoesBack
    CancellationEnds
CHECK_DEADLOCK FALSE
