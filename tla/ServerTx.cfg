SPECIFICATION Spec
CONSTANTS
    c1 = c1
    c2 = c2
    k1 = k1
    t1 = t1
    Keys = {k1}
    Texts = {t1}
    MaxInt = 2
    Clients = {c1, c2}
    NoClient = NoClient
    Replicas = {}
    Commands <- TxCommands
    MaxReq <- TxRequests
    MaxPipe = 3
    MaxTime = 1
CHECK_DEADLOCK FALSE
INVARIANTS
    TransactionsAreContiguous
    RunsInOrder
    ExecRunsItsQueue
