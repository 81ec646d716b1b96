SPECIFICATION FairSpec
CONSTANTS
    Waits = {1}
    Requests = {r1, r2}
    NoRequest = NoRequest
    Callers = {c1, c2}
    Sweepers = {s1, s2}
    BatchSize = 1
    MaxTime = 1
    MaxFaults = 3
INVARIANTS
    OneResumption
    AnswersStand
PROPERTIES
    DeadlineDecides
    DueWaitsEnd
