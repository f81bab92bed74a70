\* Two collectors: every call returns or is caught between two locks.
SPECIFICATION FairSpec
CONSTANTS
    p1 = p1
    p2 = p2
    p3 = p3
    None = None
    Plugins = {p1, p2}
    Preferred = p1
    Fallbacks <- TwoInOrder
    Creatable = {p1, p2}
    LazyInit = {p2}
    Targets = {p2}
    Threshold = 2
    Cooldown = 1
    Ttl = 0
    GcTask <- Background
    GcCallers <- Callers
PROPERTIES
    CallReturnsOrCycle
    FailingPluginReplaced
