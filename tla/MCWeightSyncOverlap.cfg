SPECIFICATION Spec
CONSTANTS
    Sizes <- MCTwoFiles
    ChunkSize = 2
    Window = 2
    MaxVersions = 1
    MaxAttempts = 2
    MaxFaults = 1
    RemoteSender = TRUE
    Overlap = TRUE
INVARIANTS LoadedIsWhole
