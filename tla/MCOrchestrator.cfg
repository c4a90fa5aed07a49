SPECIFICATION Spec
CONSTANTS
    MaxIterations = 4
    MaxAttempts = 3
    KeepLast = 2
    MaxFaults = 4
    HardFaults = TRUE
    MayCrash = TRUE
    CarefulCaller = TRUE
INVARIANTS TypeOK OnPolicy ExportsKept IterationsBacked VersionsTellWeights
PROPERTIES CheckpointIsSynced ImplementsPolicyLoop
