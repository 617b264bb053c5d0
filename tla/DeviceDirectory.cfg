SPECIFICATION Spec
CONSTANTS
    Null = Null
    Peers = {p, q}
    Batch = 1
    MaxBoots = 3
    MaxId = 2
    MaxFetches = 3
SYMMETRY Symmetry
INVARIANTS
    TypeOK
    OtpHandedOutOnce
    BundleOfOneInstall
    SavedPreKeyOpens
CHECK_DEADLOCK FALSE
