SPECIFICATION Spec
CONSTANTS
    Plans <- PlansCancel
    MaxMessages = 2
    MaxCancels = 1
    MaxRounds = 1
    MaxPages = 1
INVARIANTS
    CancelledMeansSettled
CHECK_DEADLOCK FALSE
