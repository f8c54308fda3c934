CONSTANTS
    a = a
    b = b
    text = text
    None = None
    Item <- Videos
    Order <- TwoInOrder
    Indexed <- Videos
    CachedFrames <- NoneCached
    Splitting = FALSE
    Ranges <- TwoRanges
    InitialRange <- LateAndShort
    StaticTicks = 2
    Continue = FALSE
    Modes = {"Off"}
    Waits = {FALSE}
    Ops = {"select", "frame"}
    MaxOps = 4
SPECIFICATION FairSpec
PROPERTIES
    SelectedFrameIsLoaded
CHECK_DEADLOCK FALSE
