SPECIFICATION FairSpec
CONSTANTS
    Client = {c1, c2}
    Task = {t1, t2}
    NoTask = NoTask
    oneKey = oneKey
    Key = {oneKey}
    NoKey = NoKey
    KeyOf <- SameKey
    Leased = {c1, c2}
    MaxRequests = 1
INVARIANTS TypeOK SuccessHasOutput ReplayIsSafe
PROPERTIES ExecutionReturns
CHECK_DEADLOCK FALSE
