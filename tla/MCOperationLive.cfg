SPECIFICATION FairSpec
CONSTANTS
    parent = parent
    child = child
    stop = stop
    undo = undo
    task1 = task1
    task2 = task2
    k1 = k1
    k2 = k2
    k3 = k3
    k4 = k4
    k5 = k5
    Ops = {parent, child, stop}
    NoOp = NoOp
    Kind <- Kind4
    Ref <- Ref4
    Tasks = {task1, task2}
    Tokens = {k1, k2, k3, k4, k5}
    NoToken = NoToken
    MaxFaults = 1
ACTION_CONSTRAINT TasksInOrder
INVARIANTS
    ContinuationFollowsParent
PROPERTIES
    EveryOperationEnds
CHECK_DEADLOCK FALSE
