SPECIFICATION Spec
CONSTANTS
    Entries = {e1, e2}
    Sizes = {2}
    SeqSpace = 16
    Before = 2
    Beyond = 3
    Sent <- AroundWrap
    NoPkt = NoPkt
SYMMETRY EntrySymmetry
PROPERTIES
    FlushedOnce
