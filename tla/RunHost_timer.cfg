SPECIFICATION Spec
CONSTANTS
    t1 = t1
    t2 = t2
    a1 = a1
    w1 = w1
    w2 = w2
    TimerRow = TimerRow
    Nobody = Nobody
    Gone = Gone
    NoLeaf = NoLeaf
    NoRow = NoRow
    FenceReadsTime = TRUE
    Timers = {t1}
    Awaits = {}
    Workers = {w1, w2}
    Horizon = 3
    Bounds <- ResumeBounds
SYMMETRY Symmetry
INVARIANTS
    TimersArmed
CHECK_DEADLOCK FALSE
