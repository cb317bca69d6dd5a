\* Two parallel calls, one message submitted up to twice, stops, a heartbeat and
\* one resume, of the session or of a fork of it.
CONSTANTS
    i1 = i1
    i2 = i2
    c1 = c1
    c2 = c2
    External = {i1}
    Call = {c1, c2}
    Slot = {1}
    MaxTurn = 6
    Progress = {}
    Outcome = {"completed"}
    MaxSubmit = 2
    MaxHeartbeat = 1
    MaxRestart = 1
    ToolTurns = {1}
    ForkTurns = {1}
    Submittable <- MessagesAndStops
SPECIFICATION Spec
INVARIANTS
    TypeOK
    PendingMatchesHistory
    OneResultPerCall
    RequestsAreTrue
    UnfinishedAreDispatched
    IdleStopIsComplete
CHECK_DEADLOCK FALSE
