CONSTANTS
    Peer = {p1}
    Reply <- Kinds
    TIMEOUT = 1
    MaxOwed = 2
    SECS = 1
    HeaderIdle = 1
    Queue = 1
    MaxControl = 1
    Budget = 1
    Chatty = {}
    Serving = {p1}
SPECIFICATION Spec
INVARIANTS
    BusyIffOwing
    OneRequestEach
    NoEarlyBan
PROPERTIES
    GoneForgotten
    SilentBanned
    
