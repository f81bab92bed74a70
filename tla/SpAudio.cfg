\* Violation: the plugin is not given the audio of an utterance.
SPECIFICATION Spec
CONSTANTS
    MaxUtterances = 2
    MaxSwitches = 0
    LastSwitch = 1
    FirstMode = "Hotkey"
    SessionCap = 2
    StreamCap = 1
    InjectionCap = 1
    UiCap = 1
    Behavior = "Incremental"
CHECK_DEADLOCK FALSE
INVARIANT
    AudioIsSubmitted
