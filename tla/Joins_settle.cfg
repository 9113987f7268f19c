SPECIFICATION Spec
CONSTANTS
    fo = fo
    fr = fr
    fn = fn
    la = la
    lb = lb
    lc = lc
    lp = lp
    le = le
    w1 = w1
    w2 = w2
    Alls = {fo, fn}
    Races = {fr}
    Leaves = {la, lb, lc, le, lp}
    Bodies = {"top", "o1", "o2", "r1", "r2", "n1", "n2"}
    Top = "top"
    Arms <- TreeArms
    Statements <- LongerStatements
    Line <- LongerLine
    Workers = {w1, w2}
    Nobody = Nobody
    Diverges = {"settle"}
    MaxReparks = 0
    MaxFaults = 1
    Faults = {"crash"}
INVARIANTS
    CompletedPassedAll
CHECK_DEADLOCK FALSE
