SPECIFICATION Spec
CONSTANTS
    Files <- Lists
    NoFile = NoFile
    Tokens <- TestTokens
    MaxLine = 5
    MaxFilters = 2
INVARIANTS
    ConfigTypeOK
    LineMeaning
    FiltersAlive
    HistoryFree

    
CHECK_DEADLOCK FALSE
