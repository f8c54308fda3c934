CONSTANTS
    a = a
    b = b
    text = text
    None = None
    Item <- ThreeItems
    Order <- ThreeInOrder
    Indexed <- Videos
    CachedFrames <- SecondCached
    Splitting = FALSE
    Ranges <- TwoRanges
    InitialRange <- LateAndShort
    StaticTicks = 2
    Continue = FALSE
    Modes = {"Off"}
    Waits = {FALSE}
    Ops = {"select", "play", "repeat", "settings", "stop"}
    MaxOps = 3
SPECIFICATION FairSpec
PROPERTIES
    TimerRunsOut
CHECK_DEADLOCK FALSE
