SPECIFICATION Spec
CONSTANTS
    Window = 2
    CapN = 2
    AiModes = {FALSE}
    MaxMessages = 2
    MaxChanges = 0
    MaxErrors = 0
    MaxCrashes = 1
    MaxChains = 1
INVARIANTS
    RatchetNeverReused
CHECK_DEADLOCK FALSE
