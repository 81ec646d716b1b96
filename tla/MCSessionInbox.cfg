SPECIFICATION FairSpec
CONSTANTS
    Workers = {w1, w2}
    Keys = {}
    RetryKeys = {r1, r2}
    r1 = r1
    r2 = r2
    NoKey = NoKey
    MaxRetries = 1
    CommitRetries = 1
    MaxEntries = 1
    MaxEvents = 2
    MaxAttempts = 9
    MaxHistory = 2
    MaxFaults = 1
ACTION_CONSTRAINT RetryKeysInOrder
INVARIANTS
    HandledIsPrefix
    ClaimCoherence
    PauseMatchesBlockedHead
    RetryBudgetHolds
    HistoryFollowsInbox
    OneResumePerPause
    HandlersAreSerial
PROPERTIES
    ImplementsPromise
    EveryEventSettles
CHECK_DEADLOCK FALSE
