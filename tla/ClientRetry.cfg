SPECIFICATION Spec
CONSTANTS
    s1 = s1
    s2 = s2
    Servers = {s1}
    Incoming = {"reply2"}
    Requests = 1
    MaxConnects = 2
    MaxDisconnects = 0
    MaxArrivals = 2
INVARIANTS
    SuccessFindsRemote
CHECK_DEADLOCK FALSE
