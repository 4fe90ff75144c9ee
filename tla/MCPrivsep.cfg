SPECIFICATION Spec
CONSTANT
    MaxAddrs = 2
INVARIANTS
    InStep
    NeverRefused
PROPERTIES
    Answered
    ParentFollows
    Terminates
CHECK_DEADLOCK FALSE
