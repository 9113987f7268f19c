SPECIFICATION Spec
CONSTANTS
    timer = timer
    poll = poll
    landed = landed
    w1 = w1
    w2 = w2
    NoRow = NoRow
    Keys = {timer, landed, poll}
    Workers = {w1, w2}
    GivesUp = {timer, landed}
    Landed = {landed}
    Armed = {poll}
    RowsPerDrain = 2
    WorkLease = 1
    BusyRetry = 1
    Backoff <- MCBackoff
    MaxAttempts = 1
    CompleteResets = TRUE
    Horizon = 2
    MaxAsks = 2
    MaxClaims = 2
SYMMETRY Symmetry
INVARIANTS
    TypeOK
    LiveClaimHolds
    NoAskLost
    RearmKeepsItsTime
    WorkedWithinCap
    OneLiveClaim
    DeadOnlyAfterItsAttempts
PROPERTIES
    DeadUntilAsked
    ImplementsQueue
CHECK_DEADLOCK FALSE
