CONSTANTS
    BYTE = 4
    WORD_BYTES = 6
    TIME = 256
    MAX_TARGET = 60
    MAX_WORK = 1024
    KeptWork <- AllWork
    DIFFCHANGE_TIMESPAN = 12
    DIFFCHANGE_INTERVAL = 100
    TARGET_BLOCK_SPACING = 4
    MaxChain = 4
    Testnet = FALSE
    PutMayFail = TRUE
    NoHash = "0"
    Genesis = "g"
    Hash <- TreeHash
    Header <- TreeHeader
    Peer <- TwoPeers
    Tips <- TwoTips
    Odd <- OddMessages
    MAX_HEADERS = 3
    DENSE = 1
    MaxInFlight = 2
    Budget = 1
SPECIFICATION DownloadSpec
CHECK_DEADLOCK FALSE
INVARIANTS
    ToldIsDurable
    HeardAll
    
    
    QuietIsSynced
PROPERTIES
    Synced
