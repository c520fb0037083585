CONSTANTS
    BYTE = 4
    WORD_BYTES = 6
    TIME = 64
    MAX_TARGET = 60
    MAX_WORK = 1024
    KeptWork <- ExactWork
    DIFFCHANGE_TIMESPAN = 12
SPECIFICATION Spec
CHECK_DEADLOCK FALSE
INVARIANTS
    PrecisionIsFloor
    WorkIsQuotient
    RetargetFair
