SPECIFICATION FairSpec
CONSTANTS
    m1 = m1
    m2 = m2
    Machines = {m1, m2}
    MaxCalls = 2
    MaxDeaths = 0
    MaxRestarts = 0
    CarefulStart = TRUE
PROPERTIES CommandsRun
