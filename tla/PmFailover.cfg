\* Failover among three plugins, one of which the user may select by hand.
SPECIFICATION Spec
CONSTANTS
    p1 = p1
    p2 = p2
    p3 = p3
    None = None
    Plugins = {p1, p2, p3}
    Preferred = p1
    Fallbacks <- AllInOrder
    Creatable = {p1, p2, p3}
    LazyInit = {p2}
    Targets = {p3}
    Threshold = 2
    Cooldown = 2
    Ttl = 1
    GcTask <- Background
    GcCallers <- Nobody
INVARIANTS
    GcSparesSettledSelection
    CoolingPluginRests
PROPERTY
    ImplementsSelection
