SPECIFICATION FairSpec
CONSTANTS
    Plans <- PlansTurns
    MaxMessages = 2
    MaxCancels = 0
    MaxRounds = 2
    MaxPages = 2
INVARIANTS
    OperationsAreAwaited
    PlanRunsInOrder
    ProjectionInOrder
    WorkIsNotRepeated
PROPERTIES
    TurnsEnd
CHECK_DEADLOCK FALSE
