\* From the callback to the frames, and from the frames or the key to the
\* session events; and the scans for devices.  The inputs differ in channels
\* and rate.
SPECIFICATION PathSpec
CONSTANTS
    Inputs = {"mono48", "stereo16", "three16"}
    Channels <- ChannelsDef
    Resampled = {"mono48"}
    RingSize = 7
    ReadMax = 4
    ChunkSize = 2
    FrameSize = 2
    Block = 1
    MaxInstants = 5
    MaxChanges = 2
    FrameCapacity = 2
    EventCapacity = 1
    MinSpeech = 1
    MinSilence = 2
    MaxSignals = 2
    d1 = d1
    d2 = d2
    Devices = {d1, d2}
    NoDevice = NoDevice
    CacheTtl = 2
    Threshold = 3
CHECK_DEADLOCK FALSE
INVARIANTS
    SamplesAreRead
    FollowersKnowSeen
PROPERTIES
    ReaderCatchesUp
    ImplementsTrigger
    SessionEnds
    ArrivalIsReported
