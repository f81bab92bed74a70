\* process_audio and the collector take the two locks in opposite orders.
SPECIFICATION FairSpec
CONSTANTS
    p1 = p1
    p2 = p2
    p3 = p3
    None = None
    Plugins = {p1}
    Preferred = p1
    Fallbacks <- OnlyOne
    Creatable = {p1}
    LazyInit = {}
    Targets = {}
    Threshold = 1
    Cooldown = 1
    Ttl = 0
    GcTask <- Background
    GcCallers <- Nobody
PROPERTY
    ProcessAudioReturns
