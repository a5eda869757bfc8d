SPECIFICATION FairHandshakeSpec
CONSTANTS
    Servers = {server}
    server = server
    client = client
    Incoming = {}
    Requests = 13
    MaxConnects = 2
    MaxDisconnects = 1
    MaxArrivals = 0
    MaxCalls = 1
    MaxFaults = 1
PROPERTIES
    ConnectSucceeds
    ConnectedBothEnds
    NoHalfOpen
CHECK_DEADLOCK FALSE
