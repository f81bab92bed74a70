SPECIFICATION FairSpec
CONSTANTS
    Apps = {"editor", "unknown"}
    AllowPatterns = {}
    BlockPatterns = {}
    Display = {"x11"}
    OptIn = {}
    Available = {"atspi", "clipboard"}
    RequireFocus = "no"
    InjectOnUnknown = "no"
    Budget = 1
    Base = 1
    Factor = 2
    MaxCooldown = 2
    TopLevel = 2
INVARIANTS
    TriedEverything
    WaitsWithinLevel
PROPERTIES
    CooldownsEnd
