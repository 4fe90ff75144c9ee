SPECIFICATION Spec
CONSTANTS
    Names = {a, b}
    Servers = {}
SYMMETRY NameSymmetry
INVARIANTS
    LossyUsedAnyway
