SPECIFICATION FairSpec
CONSTANTS
    parent = parent
    child = child
    stop = stop
    undo = undo
    task1 = task1
    task2 = task2
    k1 = k1
    k2 = k2
    k3 = k3
    k4 = k4
    k5 = k5
    Ops = {parent, child}
    NoOp = NoOp
    Kind <- Kind2
    Ref <- Ref2
    Tasks = {task1}
    Tokens = {k1, k2, k3}
    NoToken = NoToken
    MaxFaults = 2
PROPERTIES
    FailedParentEndsContinuation
CHECK_DEADLOCK FALSE
