SPECIFICATION Spec
CONSTANTS
    Explicit <- MixedIds
    Partial = {8, 10}
    MaxLens = {1, 2}
    MinIDs <- MinIds
    StartTime = 8
    MaxTime = 10
    MaxNum = 11
    MaxEntries = 5
CHECK_DEADLOCK FALSE
INVARIANTS
    TypeOK
    IdsIncrease
    GeneratorAheadOfLastID
    TreeIsSound
    RangeIsNumeric
    TrimIsExact
