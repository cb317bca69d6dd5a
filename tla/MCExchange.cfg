SPECIFICATION Spec
CONSTANTS
    Payloads <- MCPayloads
    NoPayload <- MCNoPayload
    MaxPayloads = 3
    InitialBackoff = 2
    MaxBackoff = 30
    MaxDuration = 31
    AdapterAttempts = 2
    Indices = {0, 1}
    PolicyAttempts = 6
    Answers <- MCAnswers
    ToolOutputs <- MCToolOutputs
    Clients <- MCClients
    MaxRecords = 3
INVARIANTS
    AnswerIsKept
    ChannelIsQuiet
    CompletedIsWhole
PROPERTIES
    RespondReturns
CHECK_DEADLOCK FALSE
