SPECIFICATION FairSpec
CONSTANTS
    a = a
    b = b
    w1 = w1
    w2 = w2
    NoReport = NoReport
    Report <- TwoReports
    Lo <- Lowest
    Hi <- Highest
    Disabled <- DisabledIds
    Encoded <- EncodedIds
    Reboot <- RebootIds
    System = FALSE
    Worker <- TwoWorkers
    GiveUp = 2
    MaxFault = 1
    MaxTimeout = 0
CHECK_DEADLOCK FALSE
PROPERTIES
    EveryReportSettled
