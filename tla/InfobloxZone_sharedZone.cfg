SPECIFICATION FairSpec
CONSTANTS
    a = a
    b = b
    c = c
    a1 = a1
    a2 = a2
    b1 = b1
    g1 = g1
    g2 = g2
    Cluster = {a, b}
    Gslb = {g1}
    Addr = {a1, a2, b1}
    Owner <- OwnerOfTwo
    Deployed <- DeployedEverywhere
    SplitBrainChecks = {TRUE, FALSE}
    Threshold = 1
    MaxFaults = 2
CHECK_DEADLOCK FALSE
INVARIANT NoGhostHeartbeat
INVARIANT NeverMixed
PROPERTY ZoneConverges
PROPERTY LiveDelegated
