CONSTANTS
    Null = Null
    Contacts = {p}
    Slots = {c1, c2}
    Inbox = inbox
    MaxCommands = 2
    MaxIncoming = 1
    MaxKeys = 2
    MaxCrashes = 1
SYMMETRY Symmetry
SPECIFICATION Spec
INVARIANTS TypeOK RatchetAdvances QueueMoves TickMeansCompared ChangeIsReported RemovedNotEncryptedTo
CHECK_DEADLOCK FALSE
