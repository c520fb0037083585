CONSTANTS
    BYTE = 4
    WORD_BYTES = 6
    TIME = 256
    MAX_TARGET = 60
    MAX_WORK = 1024
    KeptWork <- AllWork
    DIFFCHANGE_TIMESPAN = 12
    DIFFCHANGE_INTERVAL = 100
    TARGET_BLOCK_SPACING = 4
    MaxChain = 4
    Testnet = FALSE
    PutMayFail = FALSE
    NoHash = "0"
    Genesis = "g"
    Hash <- ForkHash
    Header <- ForkHeader
    Peer <- OnePeer
    Tips <- BackTips
    Odd = {}
    MAX_HEADERS = 3
    DENSE = 1
    MaxInFlight = 2
    Budget = 0
SPECIFICATION DownloadSpec
CHECK_DEADLOCK FALSE
INVARIANTS
    BestChainConnected
