CONSTANTS
    Session = {s1, s2}
    MaxSeq = 2
    n3Requests = 2
    MaxInFlight = 2
    None = None
SPECIFICATION Spec
CHECK_DEADLOCK FALSE
SYMMETRY Symmetry
INVARIANTS TypeOK PendingIsLive DeliveredOnce PeerRemembered
PROPERTIES ImplementsExchange
