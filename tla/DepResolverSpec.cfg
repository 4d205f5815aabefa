SPECIFICATION FairSpec
CONSTANTS
    g1 = g1
    g2 = g2
    Gslb = {g1, g2}
    Ingress = {"x", "y"}
    Seconds <- SecondsMC
    MaxFaults = 2
INVARIANT AcceptedIsResolved
PROPERTY EvictedIsAccepted
PROPERTY ImplementsVerdict
