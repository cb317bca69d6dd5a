\* Two messages and a stop request that meet calls of two turns, without a
\* resume: interrupted requests, late responses and operations that are canceled.
CONSTANTS
    i1 = i1
    i2 = i2
    c1 = c1
    c2 = c2
    External = {i1, i2}
    Call = {c1}
    Slot = {1}
    MaxTurn = 6
    Progress = {}
    Outcome = {"completed", "canceled"}
    MaxSubmit = 3
    MaxHeartbeat = 0
    MaxRestart = 0
    ToolTurns = {1, 2}
    ForkTurns = {}
    Submittable <- MessagesAndStops
SPECIFICATION Spec
INVARIANTS
    HardStopIsComplete
PROPERTIES
    NoWorkAfterCancellation
    AppendsAreAccepted
CHECK_DEADLOCK FALSE
