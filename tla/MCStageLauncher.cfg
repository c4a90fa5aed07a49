SPECIFICATION FairSpec
CONSTANTS
    Stages = 2
    Orphans = FALSE
    Policies = {0, 1}
    MaxLoads = 3
    MaxFaults = 2
    MaxEnds = 1
INVARIANTS RestartAgrees LabelsTellServed PredecessorsKilled
PROPERTIES BecomesHealthy
