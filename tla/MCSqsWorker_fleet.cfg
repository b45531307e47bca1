SPECIFICATION FairSpec
CONSTANTS
    t1 = t1
    k1 = k1
    k2 = k2
    w1 = w1
    w2 = w2
    NoTask = NoTask
    NoWorker = NoWorker
    Task <- MixedTasks
    Kill <- OneKill
    Worker <- Workers
    MaxCrash = 1
CHECK_DEADLOCK FALSE
PROPERTY
    EveryTaskAttempted
