SPECIFICATION Spec
CONSTANTS
    Null = Null
    Founder = f
    Others = {a}
    Conversation = c
    MaxOps = 2
    MaxPending = 1
    MaxPins = 0
    MaxFaults = 2
    MaxRestarts = 0
INVARIANTS
    RedrainRecoversGaps
CHECK_DEADLOCK FALSE
