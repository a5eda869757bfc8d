SPECIFICATION Spec
CONSTANTS
    s1 = s1
    s2 = s2
    Servers = {s1}
    Incoming = {"reply2", "accept"}
    Requests = 1
    MaxConnects = 1
    MaxDisconnects = 1
    MaxArrivals = 2
INVARIANTS
    AcceptFindsSession
CHECK_DEADLOCK FALSE
