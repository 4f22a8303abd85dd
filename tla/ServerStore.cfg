SPECIFICATION Spec
CONSTANTS
    c1 = c1
    c2 = c2
    k1 = k1
    t1 = t1
    Keys = {k1}
    Texts = {t1}
    MaxInt = 2
    Clients = {c1}
    NoClient = NoClient
    Replicas = {}
    Commands <- StoreCommands
    MaxReq <- StoreRequests
    MaxPipe = 2
    MaxTime = 4
CHECK_DEADLOCK FALSE
INVARIANTS
    TypeOK
    MirrorAgrees
