SPECIFICATION Spec
CONSTANTS
    Names = {a, b, c}
    Servers = {c}
SYMMETRY NameSymmetry
INVARIANTS
    OnlyConnectedChosen
    HealthyLinksUsed
    FallbackLast
    DeviceFollowsLinks
    ScriptsFollowLinks
