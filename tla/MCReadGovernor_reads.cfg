SPECIFICATION ReadSpec
CONSTANTS
    Readers = {r1, r2}
    NoReader = NoReader
    Operations = {"SEARCH_CREATORS", "LIST_CONVERSATIONS", "LIST_MESSAGES"}
    LeaseTicks = 3
    SpacingTicks = 2
    RetryTicks = 1
    DayTicks = 2
    BackoffCap = 1
    RetryAfters = {0}
    MaxRetries = 1
    MaxAge = 1
INVARIANTS ReadTypeOK ReadsAreExclusive
PROPERTIES SuccessesAreSpaced ReadsResume
