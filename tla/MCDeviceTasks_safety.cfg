SPECIFICATION Spec
CONSTANTS
    j1 = j1
    j2 = j2
    p = p
    q = q
    x = x
    y = y
    NoRow = NoRow
    OldRow = OldRow
    Job <- TwoJobs
    Project <- TwoProjects
    Home = p
    Item <- TwoItems
    Archived <- OneItem
    MaxBlock = 2
    MaxFault = 1
VIEW SafetyView
CHECK_DEADLOCK FALSE
SYMMETRY JobSymmetry
INVARIANTS
    TypeOK
    BusyWhileWorking
    WorkTaken
    ReadingsReachable
PROPERTIES
    MoveSticks
    ArchivedStays
