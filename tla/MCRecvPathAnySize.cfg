SPECIFICATION Spec
CONSTANTS
    PoolSize = 4
    Pool <- PoolList
    Sizes = {3}
    SeqSpace = 32
    Sent = {0, 1, 2, 3}
    NoPkt = NoPkt
    MaxDrain = 4
    BitAnd <- MaskedBy
VIEW UpToRenaming
PROPERTY
    HoldsForGap
