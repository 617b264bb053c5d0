CONSTANTS
    MaxLinks = 2
    MaxFaults = 4
    InitialBackoff = 3
    MaxBackoff = 10
    MaxSockets = 2
    MaxFrames = 3
SPECIFICATION LiveSpec
INVARIANTS TypeOK OneLiveSocket ReadyMeansLive ReplayedInOrder OneStream
PROPERTIES QuietAfterDisconnect ComesBack ConnectSettles
CHECK_DEADLOCK FALSE
