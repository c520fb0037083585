CONSTANTS
    BYTE = 4
    WORD_BYTES = 6
    TIME = 256
    MAX_TARGET = 60
    MAX_WORK = 1024
    KeptWork <- CoarseWork
    DIFFCHANGE_TIMESPAN = 12
    DIFFCHANGE_INTERVAL = 3
    TARGET_BLOCK_SPACING = 4
    MaxChain = 4
    Testnet = TRUE
    PutMayFail = FALSE
    NoHash = "0"
    Genesis = "g"
    Hash <- TestHash
    Header <- TestHeader
SPECIFICATION Spec
INVARIANTS
    StoreMostWork
PROPERTIES
    RestartRebuilds
