SPECIFICATION FairSpec
CONSTANTS
    c1 = c1
    c2 = c2
    k1 = k1
    t1 = t1
    Keys = {k1}
    Texts = {t1}
    MaxInt = 2
    Clients = {c1}
    NoClient = NoClient
    Replicas = {r1}
    Commands <- LiveCommands
    MaxReq <- LiveRequests
    MaxPipe = 1
    MaxTime = 1
CHECK_DEADLOCK FALSE
INVARIANTS
    RepliesInOrder
    NoRequestForgotten
    WaitCoversEarlierWrites
PROPERTIES
    QueuedWaitNeverWakes
    ExecFinishes
    EveryRequestAnswered
