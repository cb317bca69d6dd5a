\* A session and one that may be forked from it, with files of a few records.
CONSTANTS
    i1 = i1
    c1 = c1
    s1 = s1
    s2 = s2
    External = {i1}
    Call = {c1}
    Slot = {1}
    MaxTurn = 2
    Session = {s1, s2}
    Root = {s1}
    Saved = {"ready", "completed"}
    MaxRecords = 5
    MaxTotal = 7
    Offered = {"chatgpt", "commandcode", "custom", "ollama"}
    Keys = {"k1"}
    Models = {"m1"}
    Servers = {"u1"}
    Places <- MCPlaces
    MaxEvents = 3
    MaxDetours = 1
SPECIFICATION DiskSpec
INVARIANTS
    SessionsReopen
    KeepsPromise
    SetupTakesEffect
    EnvironmentIsRestored
    KeysHaveOneReader
PROPERTIES
    IsDurable
CHECK_DEADLOCK FALSE
