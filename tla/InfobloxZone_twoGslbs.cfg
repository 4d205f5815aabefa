SPECIFICATION FairSpec
CONSTANTS
    a = a
    b = b
    c = c
    a1 = a1
    a2 = a2
    b1 = b1
    g1 = g1
    g2 = g2
    Cluster = {a, b}
    Gslb = {g1, g2}
    Addr = {a, b}
    Owner <- OwnerIsSelf
    Deployed <- DeployedNotOnA
    SplitBrainChecks = {TRUE}
    Threshold = 1
    MaxFaults = 0
CHECK_DEADLOCK FALSE
PROPERTY ZoneConverges
