SPECIFICATION Spec
CONSTANTS
    MaxIterations = 4
    MaxAttempts = 3
    KeepLast = 2
    MaxFaults = 1
    HardFaults = TRUE
    MayCrash = TRUE
    CarefulCaller = TRUE
INVARIANTS ResumeAgrees
