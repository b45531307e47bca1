SPECIFICATION Spec
CONSTANTS
    ra = ra
    rb = rb
    w1 = w1
    w2 = w2
    Report = {ra, rb}
    Uploads <- TwoUploads
    Worker = {w1, w2}
    Form = {f}
    Request = {d}
    FirstRequest <- NoneOrOne
    Action = {k1, k2}
    Catalogue <- Known
    Rules <- SomeRules
    None = None
    NoRow = NoRow
    Deleted = Deleted
    MaxAsk = 2
    MaxFault = 1
CHECK_DEADLOCK FALSE
SYMMETRY Symmetry
INVARIANTS
    TypeOK
    
    ConfirmedOnce
    RulesCompareVersions
