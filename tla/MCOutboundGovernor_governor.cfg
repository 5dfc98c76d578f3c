SPECIFICATION FairSpec
CONSTANTS
    Caller = {w1, w2}
    Operations = {"CREATE_CONVERSATION", "SEND_MESSAGE"}
    Initial = 1
    TechnicalMax = 3
    Leftover = 4
    Lease = 2
    Interval = 1
    MaxWait = 1
    ThrottleCap = 2
    TransientCap = 1
    RetryAfters = {0, 3}
    NoTime = NoTime
INVARIANTS TypeOK PermitsBounded
PROPERTIES AskersAreServed CapacityReturns
