SPECIFICATION FairSpec
CONSTANTS
    a1 = a1
    a2 = a2
    g1 = g1
    g2 = g2
    w1 = w1
    w2 = w2
    Clients <- MCClients
    Incoming = {"request2", "incoming", "data", "bye", "empty"}
    Workers = {w1, w2}
    MaxArrivals = 3
    MaxCalls = 1
INVARIANTS
    TypeOK
    RegistryAgrees
    EndsAreCurrent
    EventsInOrder
PROPERTIES
    OpenOrEnds
    EndFreesSlot
CHECK_DEADLOCK FALSE
