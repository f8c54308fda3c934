CONSTANTS
    Setup <- MCSetups
    SeekThreshold <- MCSeekThreshold
    SignalWhileLoading = FALSE
    CachesAgain = FALSE
SPECIFICATION Spec
INVARIANTS TypeOK
PROPERTIES ServesFrames FramesAnswered StatisticsMatchFrame
CHECK_DEADLOCK FALSE
