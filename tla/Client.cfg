SPECIFICATION FairSpec
CONSTANTS
    s1 = s1
    s2 = s2
    Servers = {s1}
    Incoming = {"reply1", "reply2", "accept", "version", "data", "bye", "empty"}
    Requests = 1
    MaxConnects = 2
    MaxDisconnects = 1
    MaxArrivals = 2
INVARIANTS
    TypeOK
    SessionTicks
    MediatorAttended
PROPERTIES
    ConnectAnswered
    DisconnectTakesEffect
    MediatorsEnd
CHECK_DEADLOCK FALSE
