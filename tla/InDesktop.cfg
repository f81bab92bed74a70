\* Two injections by every caller while the user copies once.
SPECIFICATION InjectorsSpec
CONSTANTS
    Callers <- CallersDef
    MaxTexts = 2
    MaxCopies = 1
INVARIANTS
    ClipboardComesBack
    PastesItsText
    EntersOnce
    OkMeansEntered
CHECK_DEADLOCK FALSE
