SPECIFICATION Spec
CONSTANTS
    a = a
    b = b
    w1 = w1
    w2 = w2
    NoReport = NoReport
    Report <- TwoReports
    Lo <- Lowest
    Hi <- Highest
    Disabled <- DisabledIds
    Encoded <- EncodedIds
    Reboot <- RebootIds
    System = FALSE
    Worker <- TwoWorkers
    GiveUp = 2
    MaxFault = 0
    MaxTimeout = 0
CHECK_DEADLOCK FALSE
INVARIANT
    NeverInParallel
