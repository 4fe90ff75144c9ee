SPECIFICATION Spec
CONSTANTS
    PoolSize = 4
    Pool <- PoolList
    Sizes = {1, 4}
    SeqSpace = 32
    Sent = {29, 1, 2, 3, 4}
    NoPkt = NoPkt
    MaxDrain = 4
    BitAnd <- MaskedBy
VIEW UpToRenaming
INVARIANTS
    NeverFatal
    PoolSound
PROPERTIES
    Refines
    ReleasedInOrder
    HoldsForGap
