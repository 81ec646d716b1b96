SPECIFICATION FairSpec
CONSTANTS
    Null = Null
    Ops = {o1}
    Strays = {x1}
    Slots = {s1, s2}
    Tolerance = 1
    MaxFaults = 1
INVARIANTS ReceiptsSettleRightly OutcomeIsAuthoritative
CONSTRAINT OneConnection
CHECK_DEADLOCK FALSE
PROPERTIES EveryResultArrives CallbacksSettle
