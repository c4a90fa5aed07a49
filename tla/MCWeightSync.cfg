SPECIFICATION FairSpec
CONSTANTS
    Sizes <- MCSizes
    ChunkSize = 2
    Window = 2
    MaxVersions = 2
    MaxAttempts = 2
    MaxFaults = 2
    RemoteSender = TRUE
    Overlap = FALSE
INVARIANTS SyncAgrees FinalIsWhole OldVersionsGo
PROPERTIES ImplementsPolicyStore SyncEnds
