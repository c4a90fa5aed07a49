SPECIFICATION FairSpec
CONSTANTS
    PromptsPerIteration = 3
    SamplesPerPrompt = 2
    RolloutWorkers = 2
    RewardWorkers = 4
    MaxAttempts = 3
    MaxBatches = 2
    MaxFaults = 3
    MaxWrongChunks = 1
INVARIANTS BatchAgrees SamplesComplete RewardsAreOwn
PROPERTIES BatchCollected
