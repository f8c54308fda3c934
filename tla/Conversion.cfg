CONSTANTS
    Formats <- MCFormats
    Sizes <- MCSizes
    Settings <- MCSettings
SPECIFICATION Spec
INVARIANTS
    PixelValueIsDrawn
    ChromaFromNeighbours
    ReadsInsideFrame
