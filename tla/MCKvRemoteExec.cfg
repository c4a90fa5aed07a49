SPECIFICATION FairSpec
CONSTANTS
    m1 = m1
    Machines = {m1}
    MaxCalls = 4
    MaxDeaths = 2
    MaxRestarts = 1
    CarefulStart = TRUE
INVARIANTS IdsAgree
PROPERTIES ImplementsCommandQueue CommandsRun
