CONSTANTS
    r1 = r1
    r2 = r2
    Requests = {r1, r2}
    BatchSize = 1
    MaxFaults = 1
SPECIFICATION FairSpec
PROPERTY SkippedRequestIsRevisited
CHECK_DEADLOCK FALSE
