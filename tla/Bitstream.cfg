CONSTANTS
    BufferSize = 7
    MaxLsb = 16
    NoPoc = NoPoc
    Bitstream <- MCBitstreams
    MaxSeeks = 2
SPECIFICATION Spec
INVARIANTS
    TypeOK
    FramesAsCoded
    FrameDataIsItsPicture
    SeekReachesFrame
CHECK_DEADLOCK FALSE
