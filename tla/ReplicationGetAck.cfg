SPECIFICATION Spec
CONSTANTS
    Replicas = {r1}
    NoConn = NoConn
    Clients = {c1}
    Streams = FALSE
    WriteLen = 31
    MaxWrites = 1
    MaxGetAcks = 2
    MaxPings = 0
    MaxWaits = 0
    Breaks = FALSE
CHECK_DEADLOCK FALSE
INVARIANTS
    AckMeansHeld
    NoWriteBetween
