SPECIFICATION Spec
CONSTANTS
    stdout = stdout
    earlier = earlier
    later = later
    Streams <- MCStreams
    MaxOutput = 2
    Controls <- MCControls
    Plans <- MCPlans
    Kinds = {"read", "create", "compute", "timer"}
    MaxSize = 2
    MaxRetries = 2
    MaxMeddling = 5
    MaxFrame = 4
    MaxBytes = 6
    MaxChunk = 3
INVARIANTS
    CompletedMeansDone
    NothingIsLeftRunning
    FramingIgnoresChunks
PROPERTIES
    KeepsContract
    CancellationEnds
CHECK_DEADLOCK FALSE
