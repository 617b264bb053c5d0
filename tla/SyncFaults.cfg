SPECIFICATION Spec
VIEW WithoutHistory
CONSTANTS
    Null = Null
    Founder = f
    Others = {a}
    Conversation = c
    MaxOps = 2
    MaxPending = 1
    MaxPins = 1
    MaxFaults = 0
    MaxRestarts = 1
INVARIANTS
    TypeOK
    PrefixAgreement
    HeldChainUsable
PROPERTIES
    ImplementsSignedLog
CHECK_DEADLOCK FALSE
