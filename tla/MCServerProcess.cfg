CONSTANTS
    e1 = e1
    o1 = o1
    Receipts = {e1}
    Results = {o1}
    Capacity = 1
    MaxFaults = 1
SPECIFICATION FairSpec
INVARIANT NoHintSleptThrough
INVARIANT CleanExitIsEarned
PROPERTY EveryDueItemIsClaimed
PROPERTY ServerExits
CHECK_DEADLOCK FALSE
