CONSTANTS
    BYTE = 4
    WORD_BYTES = 6
    TIME = 256
    MAX_TARGET = 60
    MAX_WORK = 1024
    KeptWork <- FineWork
    DIFFCHANGE_TIMESPAN = 12
    DIFFCHANGE_INTERVAL = 3
    TARGET_BLOCK_SPACING = 4
    MaxChain = 3
    Testnet = FALSE
    PutMayFail = TRUE
    NoHash = "0"
    Genesis = "g"
    Hash <- OddHash
    Header <- OddHeader
SPECIFICATION Spec
INVARIANTS
    StoreAgrees
