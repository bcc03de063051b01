SPECIFICATION HubSpec
CONSTANTS
    Streams = {a1, a2}
    a1 = a1
    a2 = a2
    A = A
    Ips = {A}
    IpOf <- Addresses
    Wants <- Season1
    Attentive = {a1}
    EventsConns = 1
    PerConnQueueMax = 1
    Kinds <- FourKinds
    MaxBatch = 2
    MaxEvents = 3
    MaxTimers = 2
    NoEvent = NoEvent
INVARIANTS
    WaiterIsRegistered
    SlotsMatchStreams
PROPERTIES
    ShedsOnlyWhatItMay
    HighEventsReachClients
    AbortedStreamsEnd
CHECK_DEADLOCK FALSE
