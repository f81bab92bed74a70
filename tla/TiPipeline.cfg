SPECIFICATION FairSystem
CONSTANTS
    Ids = 4
    MaxBacklog = 3
    ChannelCap = 1
    MaxBuffer = 1
    PauseTimeout = 1
    SilenceTimeout = 1
    FlushesOn = {"sentence"}
    Apps = {"editor", "unknown"}
    AllowPatterns = {{"editor"}}
    BlockPatterns = {}
    Display = {"x11"}
    OptIn = {}
    Available = {"atspi"}
    RequireFocus = "no"
    InjectOnUnknown = "no"
    Budget = 1
    Base = 1
    Factor = 2
    MaxCooldown = 2
    TopLevel = 2
INVARIANTS
    NothingLost
PROPERTIES
    EveryTextIsSettled
