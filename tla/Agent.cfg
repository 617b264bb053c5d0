SPECIFICATION FairSpec
CONSTANTS
    Window = 2
    CapN = 2
    AiModes = {TRUE}
    MaxMessages = 2
    MaxChanges = 1
    MaxErrors = 1
    MaxCrashes = 1
    MaxChains = 0
INVARIANTS
    TypeOK
    IntroOnce
    WindowIsRecentPast
PROPERTIES
    CadenceKept
    RemovalPurges
CHECK_DEADLOCK FALSE
