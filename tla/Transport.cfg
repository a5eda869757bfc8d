SPECIFICATION FairSessionSpec
CONSTANTS
    Frame <- MCFrame
    Length <- MCLength
    Split <- MCSplit
    Capacity = 5
    MaxLosses = 1
    MaxCopies = 0
    MaxSequence = 9
    PatientTimer = TRUE
    Messages <- MCMessages
    MaxFrames = 2
    SplitIds = 2
INVARIANTS
    ToldExactly
PROPERTIES
    WindowDrains
    ImplementsChannel
CHECK_DEADLOCK FALSE
