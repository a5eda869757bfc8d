SPECIFICATION Spec
CONSTANTS
    Paths <- MCPaths
    ClientAddress <- V4Client
    ServerAddress <- V4Server
    Guid <- MCGuid
    Time <- MCTime
    Versions = {10, 11}
    Counters <- MCCounters
    Lengths <- MCLengths
INVARIANTS
    PacketsSurvive
    FitsThePath
    CarriesAll
    FramesSurvive
CHECK_DEADLOCK FALSE
