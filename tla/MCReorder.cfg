SPECIFICATION FairSpec
CONSTANTS
    Entries = {e1, e2, e3}
    Sizes = {1, 2}
    SeqSpace = 16
    Before = 1
    Beyond = 2
    Sent <- AroundWrap
    NoPkt = NoPkt
INVARIANTS
    TypeOK
    NoLoss
    TimerCoversOwed
    RingSound
PROPERTIES
    InOrder
    Delivered
