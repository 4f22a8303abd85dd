SPECIFICATION Spec
CONSTANTS
    Writes <- WriteSet
    NSaves = 2
    MaxSets = 2
    MaxStarts = 1
    MaxTime = 2
    Lengths <- Boundaries
CHECK_DEADLOCK FALSE
INVARIANTS
    TypeOK
    SavedFileLoads
    LoadedWasSaved
    MixtureIsRefused
    LengthsRoundTrip
