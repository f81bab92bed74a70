\* Utterances handed to each engine, the writer of transcripts, the program
\* from its start to its end, what a dashboard shows of speech, a recording,
\* and the settings from one start to the next.
SPECIFICATION ApplicationSpec
CONSTANTS
    Engines = {"http", "parakeet", "moonshine", "mock", "noop"}
    MaxFrames = 4
    MaxSpeech = 2
    AudioCap = 2
    VadCap = 2
    EventCap = 1
    ChunkSize = 1
    MaxAudio = 1
    MockChunks = 2
    FailAfter = 2
    MaxSpoken = 2
    MaxAired = 2
    AirCap = 1
    QueueCap = 1
    UtteranceIds = {0, 1}
    RetentionDays = 1
    DayLength = 1
    MaxStarts = 2
    MaxSignals = 2
    MaxEvents = 5
    MaxSwitches = 3
    BroadcastCap = 2
    UiCap = 1
    MaxRecorded = 6
    RecordCap = 2
    BufferCap = 2
    SettingsTexts <- SettingsTextsDef
    Overrides <- OverridesDef
    Selections <- SelectionsDef
    MaxLaunches = 2
    MaxEdits = 1
CHECK_DEADLOCK FALSE
INVARIANTS
    UtteranceKept
    IdsTellUtterancesApart
    RecordingsAreRight
    ManifestCatchesUp
    StoppedMeansStopped
    OrphansAreOfFailedStarts
    ShowsWhoSpeaks
    ProfileDecides
    RecordingIsAccountedFor
    SettingsAreOfOnePiece
PROPERTY
    SignalEnds
