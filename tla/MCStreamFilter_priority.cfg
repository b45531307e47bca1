SPECIFICATION Spec
CONSTANTS
    s1 = s1
    s2 = s2
    w1 = w1
    w2 = w2
    Stream <- TwoStreams
    Project = Project
    Worker <- OneWorker
    State <- TwoStates
    Trigger <- TwoTriggers
    Asked <- HighOnly
    Batch <- HighThenLow
    Event = 99
    FirstDb <- Both
    None = None
    Empty = Empty
    NoDef = NoDef
    MaxEdit = 0
    MaxFault = 0
INVARIANTS OwnFilterFirst
