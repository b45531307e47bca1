SPECIFICATION Spec
CONSTANTS
    s1 = s1
    s2 = s2
    w1 = w1
    w2 = w2
    Stream <- OneStream
    Project = Project
    Worker <- TwoWorkers
    State <- TwoStates
    Trigger <- TwoTriggers
    Asked <- HighOnly
    Batch <- HighThenLowOrEvent
    Event = 99
    FirstDb <- ProjectAlarm
    None = None
    Empty = Empty
    NoDef = NoDef
    MaxEdit = 1
    MaxFault = 1
SYMMETRY WorkerSymmetry
INVARIANTS TypeOK EnteredIsStored OnlyWholeDefinitions
PROPERTIES NotifiedOnce
