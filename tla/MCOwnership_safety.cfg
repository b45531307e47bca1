CONSTANTS
    Job = {j1, j2, j3}
    p1 = p1
    p2 = p2
    p3 = p3
    o1 = o1
    o2 = o2
    Project = {p1, p2, p3}
    Org = {o1, o2}
    None = None
    Asked <- All
    Table <- Projects
    Home = {p2}
    MaxGid = 3
    MaxFault = 1
SPECIFICATION Spec
SYMMETRY Symmetry
CHECK_DEADLOCK FALSE
INVARIANTS
    TypeOK
    RowsAgree
    NoForeignReadings
PROPERTIES
    UnclaimLeavesNothing
