CONSTANTS
    a = a
    b = b
    None = None
    Item <- TwoItems
    Order <- TwoInOrder
    FirstFrame <- MCFirst
    LastFrame <- MCLast
    FrameSize <- MCSize
    IndexedByFrame <- TwoItems
    CachableItem <- TwoItems
    ThreadLimit <- OneThread
    Thread = {t1, t2}
    Slot = {s1, s2}
    FirstSlot = s1
    MaxTarget = 2
    Settings <- PlaySettings
    InitialSettings <- PlaySetting
    TestLoops = 2
    Ops = {"play", "next", "delete", "settings"}
    MaxOps = 4
    Plan <- TabledPlan
SPECIFICATION Spec
SYMMETRY Symmetry
INVARIANTS
    ThreadLimitKept
    QueuedItemIsAlive
    WaitIsWatched
CHECK_DEADLOCK FALSE
