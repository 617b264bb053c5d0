SPECIFICATION Spec
CONSTANTS
    Null = Null
    Founder = f
    Others = {a}
    Conversation = c
    MaxOps = 2
    MaxPending = 1
    MaxPins = 1
    MaxFaults = 0
    MaxRestarts = 0
INVARIANTS
    CorrectPinAdmitsServedChain
CHECK_DEADLOCK FALSE
