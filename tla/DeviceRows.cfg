SPECIFICATION Spec
CONSTANTS
    Null = Null
    Peers = {p}
    Batch = 1
    MaxBoots = 3
    MaxId = 1
    MaxFetches = 1
INVARIANTS
    OneActiveRow
CHECK_DEADLOCK FALSE
