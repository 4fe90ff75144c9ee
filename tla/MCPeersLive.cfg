SPECIFICATION LiveSpec
CONSTANTS
    HpsSize = 2
    SbufSize = 2
    Timeout = 2
    Talkers = {"client"}
    Moved = {"client"}
    MaxFaults = 2
INVARIANTS
    NoStaleQueue
    WatchMeansWork
PROPERTIES
    NothingStuck
    PeerLossNoticed
    Reconnects
