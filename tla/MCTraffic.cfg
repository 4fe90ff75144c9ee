SPECIFICATION TrafficSpec
CONSTANTS
    Periods <- TestPeriods
    Unit = 252
    W = 4
    IntW = 3
    TsMod = 16
    Recent = 4
    MaxRtt = 6
    MaxSeq = 7
    MaxFlight = 2
    MaxChosen = 12
    BufSize = 3
    Pkts = {p1, p2, p3}
    Blank = blank
INVARIANTS
    NoneStarved
    NoLossHidden
    HeardCounted
    RttRight
    HoldsNewest
    WriterHasWork
CHECK_DEADLOCK FALSE
