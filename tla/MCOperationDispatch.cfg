SPECIFICATION Spec
CONSTANTS
    parent = parent
    child = child
    stop = stop
    undo = undo
    task1 = task1
    task2 = task2
    k1 = k1
    k2 = k2
    k3 = k3
    k4 = k4
    k5 = k5
    Ops = {parent, stop, undo}
    NoOp = NoOp
    Kind <- Kind3
    Ref <- Ref3
    Tasks = {task1, task2}
    Tokens = {k1, k2, k3, k4, k5}
    NoToken = NoToken
    MaxFaults = 2
SYMMETRY Symmetry
INVARIANTS
    PendingMeansUnsent
    NoOrphanJob
    ResultMatchesJob
    ClaimMatchesRow
    OneCompletionEvent
    CancellationTakesEffect
CHECK_DEADLOCK FALSE
