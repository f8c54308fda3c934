CONSTANTS
    a = a
    b = b
    d = d
    None = None
    Item <- AllItems
    Order <- Items3
    FirstFrame <- MCFirst
    LastFrame <- MCLast
    FrameSize <- MCSize
    IndexedByFrame <- AllItems
    CachableItem <- AllItems
    ThreadLimit <- MCLimit
    Inputs <- MCInputs
    MaxLevels = {1, 3, 5, 8, 11}
SPECIFICATION Spec
INVARIANTS
    LevelIsExact
    SelectedEmptiedLast
    PlayingSplitsCache
    PlayingRemovesFarthestFirst
    DeletingEnds
CHECK_DEADLOCK FALSE
