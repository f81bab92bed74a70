\* Violation: with nobody reading stt_rx a finalization waits for good.
SPECIFICATION FairSpec
CONSTANTS
    MaxUtterances = 4
    MaxSwitches = 0
    LastSwitch = 1
    FirstMode = "Hotkey"
    SessionCap = 2
    StreamCap = 1
    InjectionCap = 1
    UiCap = 1
    Behavior = "Incremental"
CHECK_DEADLOCK FALSE
PROPERTY
    FinalizationEnds
