SPECIFICATION FairSpec
CONSTANTS
    Threads = {t1}
    Orphans = FALSE
    MaxCalls = 4
    MaxVersion = 2
    MaxDeaths = 1
    MaxEnds = 1
INVARIANTS WorkerAgrees AnswersAreOwn WorkerKnowsPolicy OneWorker
PROPERTIES RequestsAnswered
