\* Start, restarts and stop, and the device each start and restart opens.
SPECIFICATION AudioSpec
CONSTANTS
    Attempts = 2
    Timeout = 2
    Devices = {"default", "Default Microphone"}
    NoDevice = NoDevice
    CacheTtl = 1
    Fragments = {"microphone"}
    Containing <- ContainingDef
    Likeness <- LikenessDef
CHECK_DEADLOCK FALSE
INVARIANTS
    OpensClean
    GivesUpWithoutDevice
    FirstIsUsed
PROPERTIES
    SilenceEndsStream
    StopReturnsOrOverwritten
