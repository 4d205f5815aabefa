SPECIFICATION FairSpec
CONSTANTS
    a = a
    b = b
    c = c
    a1 = a1
    a2 = a2
    b1 = b1
    EdgeDNSServer = EdgeDNSServer
    Cluster = {a, b}
    Addr = {a1, a2, b1}
    Owner <- OwnerOfTwo
    StrategyTypes = {"roundRobin", "failover"}
    PrimaryGeoTag = a
    Paths = 1
    LBHostname = {b}
    MaxFaults = 2
INVARIANT TypeOK
INVARIANT NeverHealthyNeverResolved
INVARIANT FailoverNeverMixes
PROPERTY WithdrawnStaysOut
PROPERTY ImplementsAnswer
PROPERTY RoundRobinComplete
PROPERTY FailoverPinned
PROPERTY FailoverTakesOver
