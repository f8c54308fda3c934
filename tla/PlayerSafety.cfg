CONSTANTS
    a = a
    b = b
    text = text
    None = None
    Item <- ThreeItems
    Order <- ThreeInOrder
    Indexed <- Videos
    CachedFrames <- NoneCached
    Splitting = FALSE
    Ranges <- TwoRanges
    InitialRange <- LateAndShort
    StaticTicks = 2
    Continue = FALSE
    Modes = {"Off", "One", "All"}
    Waits = {TRUE, FALSE}
    Ops = {"select", "play", "frame", "repeat", "range", "settings"}
    MaxOps = 3
SPECIFICATION Spec
INVARIANTS
    TypeOK
    StallHasReason
PROPERTIES
    FrameIsSetInRange
CHECK_DEADLOCK FALSE
