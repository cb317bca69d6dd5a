\* Calls of two operations that report progress, a repeated message and two
\* resumes, each of the session or of a fork of it.
CONSTANTS
    i1 = i1
    i2 = i2
    c1 = c1
    c2 = c2
    External = {i1}
    Call = {c1}
    Slot = {1, 2}
    MaxTurn = 6
    Progress = {"awaiting"}
    Outcome = {"completed"}
    MaxSubmit = 2
    MaxHeartbeat = 0
    MaxRestart = 2
    ToolTurns = {1, 2}
    ForkTurns = {1}
    Submittable <- MessagesAndSettings
SPECIFICATION Spec
INVARIANTS
    ReplayRebuildsState
    InputsRecordedOnce
CHECK_DEADLOCK FALSE
