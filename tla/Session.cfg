CONSTANTS
    f = f
    g = g
    Files <- TwoFiles
    Foreign <- OneForeign
    LastFrame <- Frames
    Text = Text
    Garbled = Garbled
    Slots <- OneSlot
    None = None
    MaxId = 3
    MaxStarts = 3
    MaxOps = 5
SPECIFICATION Spec
PROPERTIES
    SessionComesBack
    SlotsNameTheirItems
CHECK_DEADLOCK FALSE
