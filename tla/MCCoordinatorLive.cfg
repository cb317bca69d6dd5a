\* Two parallel calls, a message, stops and one resume, of the session or of a fork of
\* it, under fairness.
CONSTANTS
    i1 = i1
    i2 = i2
    c1 = c1
    c2 = c2
    External = {i1}
    Call = {c1, c2}
    Slot = {1}
    MaxTurn = 6
    Progress = {}
    Outcome = {"completed"}
    MaxSubmit = 2
    MaxHeartbeat = 0
    MaxRestart = 1
    ToolTurns = {1}
    ForkTurns = {1}
    Submittable <- MessagesAndStops
SPECIFICATION FairSpec
PROPERTIES
    EverythingIsDelivered
    StopsEnd
CHECK_DEADLOCK FALSE
