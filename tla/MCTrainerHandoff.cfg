SPECIFICATION FairSpec
CONSTANTS
    WorldSize = 2
    MachineCount = 2
    MachineOf <- MCOneEach
    GroupsPerBatch = 2
    MaxTrains = 2
    MaxExports = 2
    MaxFaults = 1
    Faults = {"reject", "write", "timeout"}
    FreshStateDir = TRUE
    MaxRestarts = 1
INVARIANTS HandoffAgrees ResultsAreOwn LearnedInOrder FilesAreWhole
PROPERTIES LearnsEveryStep CallsReturn
