\* Every build: with and without injection, with and without a dashboard.
SPECIFICATION FairSpec
CONSTANTS
    MaxUtterances = 5
    MaxSwitches = 1
    LastSwitch = 1
    FirstMode = "Hotkey"
    SessionCap = 1
    StreamCap = 1
    InjectionCap = 1
    UiCap = 1
    Behavior = "Incremental"
CHECK_DEADLOCK FALSE
INVARIANTS
    OneFinalization
    InSpokenOrder
PROPERTIES
    StallsOnlyBehindConsumers
    ResultIsInjected
