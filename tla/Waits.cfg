SPECIFICATION Spec
CONSTANTS
    r1 = r1
    k1 = k1
    k2 = k2
    i1 = i1
    a1 = a1
    a2 = a2
    Runs = {r1}
    Records = {k1}
    Trigger = k1
    Identities = {i1}
    Versions = {1, 2}
    Addresses = {a1, a2}
    AwaitOf <- OnOneRecord
    After <- AfterTheFirst
    Nowhere = Nowhere
    NoWait = NoWait
    TakesTurns = TRUE
    MaxArrivals = 3
    MaxFailures = 2
INVARIANTS
    TypeOK
    WaitsReadAll
    StrandedAsReported
    WakeOwed
    BoundOnce
    AnswersKept
CHECK_DEADLOCK FALSE
