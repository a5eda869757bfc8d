SPECIFICATION Spec
CONSTANTS
    Paths <- MCPaths
    ClientAddress <- V6Client
    ServerAddress <- V6Server
    Guid <- MCGuid
    Time <- MCTime
    Versions = {10, 11}
    Counters <- MCCounters
    Lengths <- MCLengths
INVARIANTS
    AddressSurvives
CHECK_DEADLOCK FALSE
