SPECIFICATION Spec
CONSTANTS
    a = a
    b = b
    c = c
    Frame <- MCFrame
    Length <- MCLength
    Split <- MCSplit
    Capacity = 5
    MaxLosses = 1
    MaxCopies = 1
    MaxSequence = 4
    PatientTimer = FALSE
INVARIANTS
    TypeOK
    QueueMatchesTimers
    WindowComplete
    AckOnlySeen
    NoFrameLost
    OneSetPerNumber
    BookInWindow
    SharedSetsFit
