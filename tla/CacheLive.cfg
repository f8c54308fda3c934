CONSTANTS
    a = a
    b = b
    None = None
    Item <- TwoItems
    Order <- TwoInOrder
    FirstFrame <- MCFirst
    LastFrame <- MCLast
    FrameSize <- MCSize
    IndexedByFrame <- TwoItems
    CachableItem <- TwoItems
    ThreadLimit <- NoLimit
    Thread = {t1, t2}
    Slot = {s1, s2}
    FirstSlot = s1
    MaxTarget = 2
    Settings <- OneSetting
    InitialSettings <- FixedSetting
    TestLoops = 2
    Ops = {"load", "delete", "recache", "test", "cancel", "select"}
    MaxOps = 2
    Plan <- TabledPlan
SPECIFICATION FairSpec
PROPERTIES
    TaggedIsDeleted
    CachingSettles
    CancelledTestEnds
CHECK_DEADLOCK FALSE
