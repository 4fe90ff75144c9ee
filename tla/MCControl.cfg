SPECIFICATION Spec
CONSTANTS
    Conns = {a, b}
    NoConn = NoConn
    CtrlTimeout = 2
    MaxLines = 2
INVARIANTS
    AnswersInOrder
    AnswerMoves
PROPERTIES
    SlotFreed
CHECK_DEADLOCK FALSE
