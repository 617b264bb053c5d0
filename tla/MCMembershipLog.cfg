SPECIFICATION Spec
CONSTANTS
    Null = Null
    Candidates <- MCCandidates
    Pins <- MCPins
    Senders <- MCSenders
INVARIANTS
    HoldsVerifiedChain
    PinHonoured
    OnlySingleWriterChains
    GateAuthorisesAtOwnHead
PROPERTIES
    HistoryNeverRewritten
