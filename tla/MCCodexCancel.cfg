SPECIFICATION FairSpec
CONSTANTS
    Plans <- PlansCancel
    MaxMessages = 1
    MaxCancels = 1
    MaxRounds = 1
    MaxPages = 1
INVARIANTS
    CancellationLosesNothing
PROPERTIES
    CancellationEnds
CHECK_DEADLOCK FALSE
