SPECIFICATION FairSpec
CONSTANTS
    Clients <- OneClient
    PageSize = 2
    PruneBatch = 2
    MaxUpdates = 5
    MaxFaults = 2
INVARIANTS
    NoMissedChange
    ReplayIsGapless
PROPERTIES
    FollowersCatchUp
    DrainCompletes
CHECK_DEADLOCK FALSE
