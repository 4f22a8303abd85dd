SPECIFICATION FairSpec
CONSTANTS
    Replicas = {r1}
    NoConn = NoConn
    Clients = {c1}
    Streams = TRUE
    WriteLen = 31
    MaxWrites = 2
    MaxGetAcks = 0
    MaxPings = 1
    MaxWaits = 0
    Breaks = FALSE
CHECK_DEADLOCK FALSE
INVARIANTS
    TypeOK
PROPERTIES
    HandshakeEnds
    ImplementsReplicatedLog
