SPECIFICATION FairSpec
CONSTANTS
    t1 = t1
    t2 = t2
    a1 = a1
    w1 = w1
    w2 = w2
    TimerRow = TimerRow
    Nobody = Nobody
    Gone = Gone
    NoLeaf = NoLeaf
    NoRow = NoRow
    FenceReadsTime = FALSE
    Timers = {}
    Awaits = {a1}
    Workers = {w1, w2}
    Horizon = 0
    Bounds <- LostBounds
INVARIANTS
    TypeOK
    ResumeKeptOnce
PROPERTIES
    LostRunSettles
    AnsweredWaitResumes
CHECK_DEADLOCK FALSE
