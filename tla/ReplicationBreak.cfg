SPECIFICATION Spec
CONSTANTS
    Replicas = {r1}
    NoConn = NoConn
    Clients = {c1}
    Streams = FALSE
    WriteLen = 31
    MaxWrites = 1
    MaxGetAcks = 0
    MaxPings = 0
    MaxWaits = 1
    Breaks = TRUE
CHECK_DEADLOCK FALSE
INVARIANTS
    WaitMeansHeld
    HandshakeDoneMeansRegistered
