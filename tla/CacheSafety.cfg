CONSTANTS
    a = a
    b = b
    None = None
    Item <- TwoItems
    Order <- TwoInOrder
    FirstFrame <- MCFirst
    LastFrame <- MCLast
    FrameSize <- MCSize
    IndexedByFrame <- TwoItems
    CachableItem <- TwoItems
    ThreadLimit <- NoLimit
    Thread = {t1, t2}
    Slot = {s1, s2}
    FirstSlot = s1
    MaxTarget = 2
    Settings <- TightSettings
    InitialSettings <- TightSetting
    TestLoops = 2
    Ops = {"select", "delete", "recache", "load"}
    MaxOps = 3
    Plan <- TabledPlan
SPECIFICATION Spec
SYMMETRY Symmetry
INVARIANTS
    TypeOK
    IdleIsQuiet
    CachedItemIsAlive
    OutdatedIsCleared
    WaitingRequestHasWorker
    MemoryBounded
PROPERTIES
    InterruptIsHonoured
CHECK_DEADLOCK FALSE
