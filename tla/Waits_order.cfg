SPECIFICATION Spec
CONSTANTS
    r1 = r1
    k1 = k1
    k2 = k2
    i1 = i1
    a1 = a1
    a2 = a2
    Runs = {r1}
    Records = {k1, k2}
    Trigger = k1
    Identities = {i1}
    Versions = {1}
    Addresses = {a1, a2}
    AwaitOf <- OnOneRecord
    After <- AfterTheFirst
    Nowhere = Nowhere
    NoWait = NoWait
    TakesTurns = FALSE
    MaxArrivals = 2
    MaxFailures = 0
INVARIANTS
    WaitsReadAll
CHECK_DEADLOCK FALSE
