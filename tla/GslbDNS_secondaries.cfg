SPECIFICATION FairSpec
CONSTANTS
    a = a
    b = b
    c = c
    a1 = a1
    a2 = a2
    b1 = b1
    EdgeDNSServer = EdgeDNSServer
    Cluster = {a, b, c}
    Addr = {a, b, c}
    Owner <- OwnerIsSelf
    StrategyTypes = {"failover"}
    PrimaryGeoTag = a
    Paths = 1
    LBHostname = {}
    MaxFaults = 0
PROPERTY SecondariesKeepOut
