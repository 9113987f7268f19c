SPECIFICATION FairSpec
CONSTANTS
    l1 = l1
    l2 = l2
    x = x
    y = y
    w1 = w1
    w2 = w2
    Listens = {l1}
    Pushed = {x}
    Items <- FeedItems
    Fires <- ListensFire
    Looping <- LoopsAtFirst
    Sinks = {"queue", "inline"}
    Workers = {w1, w2}
    Nobody = Nobody
    Caps = {1, 2}
    MaxKept = 2
    MaxFaults = 1
    MaxResumes = 1
INVARIANTS
    TypeOK
    OneRunEach
    NothingLost
    HeldOnce
PROPERTIES
    StartedKeepsWaits
    KeptIsTaken
CHECK_DEADLOCK FALSE
