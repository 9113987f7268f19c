SPECIFICATION FairSpec
CONSTANTS
    fo = fo
    fr = fr
    fn = fn
    la = la
    lb = lb
    lc = lc
    lp = lp
    le = le
    w1 = w1
    w2 = w2
    Alls = {fo, fn}
    Races = {fr}
    Leaves = {la, lb, lc, le}
    Bodies = {"top", "o1", "o2", "r1", "r2", "n1", "n2"}
    Top = "top"
    Arms <- TreeArms
    Statements <- TreeStatements
    Line <- TreeLine
    Workers = {w1, w2}
    Nobody = Nobody
    Diverges = {"leaf"}
    MaxReparks = 1
    MaxFaults = 1
    Faults = {"crash", "stall"}
INVARIANTS
    TypeOK
    PassedOnce
    ClosesWithAllIn
    NoneLeftBehind
    PendingIsWaiting
    CompletedPassedAll
CHECK_DEADLOCK FALSE
PROPERTIES
    RunSettles
