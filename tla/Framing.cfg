SPECIFICATION FairSpec
CONSTANTS
    Commands <- CommandSet
    MaxCommands = 3
CHECK_DEADLOCK FALSE
INVARIANTS
    TypeOK
    WholeCommandsInOrder
    LossNeedsNewline
    ReplicaFallsBehindByLineEnds
PROPERTIES
    PlainCommandsReachReplica
