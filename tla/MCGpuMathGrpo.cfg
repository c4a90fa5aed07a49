SPECIFICATION Spec
CONSTANTS
    MaxIterations = 3
    CheckpointInterval = 2
    RewardMeans = {0, 1, 2}
    MaxLaunches = 2
    MaxFaults = 3
INVARIANTS UploadAgrees DriveHoldsBestAndLast
PROPERTIES UploadKeepsCheckpoint
