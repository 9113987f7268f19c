SPECIFICATION Spec
CONSTANTS
    fo = fo
    fr = fr
    fn = fn
    la = la
    lb = lb
    lc = lc
    lp = lp
    le = le
    w1 = w1
    w2 = w2
    Alls = {}
    Races = {fr, fn}
    Leaves = {la, lb, lc, le}
    Bodies = {"top", "r1", "r2", "n1", "n2"}
    Top = "top"
    Arms <- TreeArms
    Statements <- NestedStatements
    Line <- NestedLine
    Workers = {w1, w2}
    Nobody = Nobody
    Diverges = {}
    MaxReparks = 0
    MaxFaults = 1
    Faults = {"crash"}
INVARIANTS
    PassedOnce
CHECK_DEADLOCK FALSE
