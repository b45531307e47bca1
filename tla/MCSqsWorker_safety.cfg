SPECIFICATION Spec
CONSTANTS
    t1 = t1
    k1 = k1
    k2 = k2
    w1 = w1
    w2 = w2
    NoTask = NoTask
    NoWorker = NoWorker
    Task <- FleetTasks
    Kill <- FleetKills
    Worker <- Workers
    MaxCrash = 1
CHECK_DEADLOCK FALSE
SYMMETRY FleetSymmetry
INVARIANTS
    TypeOK
    NoTaskLost
    KillsStopDistinctWorkers
PROPERTY
    ImplementsTaskQueue
