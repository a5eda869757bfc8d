SPECIFICATION HandshakeSpec
CONSTANTS
    Servers = {server}
    server = server
    client = client
    Incoming = {}
    Requests = 13
    MaxConnects = 2
    MaxDisconnects = 1
    MaxArrivals = 0
    MaxCalls = 1
    MaxFaults = 2
INVARIANTS
    ConnectedByOwnAccept
    GreetedByConnected
CHECK_DEADLOCK FALSE
