SPECIFICATION FairSpec
CONSTANTS
    Null = Null
    Founder = f
    Others = {a}
    Conversation = c
    MaxOps = 2
    MaxPending = 1
    MaxPins = 1
    MaxFaults = 1
    MaxRestarts = 0
INVARIANTS
    DrainCoversFanout
PROPERTIES
    MembersCatchUp
CHECK_DEADLOCK FALSE
