SPECIFICATION Spec
CONSTANTS
    r1 = r1
    r2 = r2
    r3 = r3
    k1 = k1
    k2 = k2
    Keys = {k1, k2}
    Readers = {r1}
    NoReader = NoReader
    Order <- ReaderOrder
    From <- ReaderFrom
    Block <- ReaderBlock
    ChanSize = 1
    MaxEntries = 1
CHECK_DEADLOCK FALSE
INVARIANTS
    PlusReturnsImmediately
