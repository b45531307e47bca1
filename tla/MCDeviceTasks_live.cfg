SPECIFICATION FairSpec
CONSTANTS
    j1 = j1
    j2 = j2
    p = p
    q = q
    x = x
    y = y
    NoRow = NoRow
    OldRow = OldRow
    Job <- TwoJobs
    Project <- TwoProjects
    Home = p
    Item <- OneItem
    Archived <- NoItem
    MaxBlock = 2
    MaxFault = 1
VIEW LiveView
CHECK_DEADLOCK FALSE
PROPERTIES
    EventuallyFree
