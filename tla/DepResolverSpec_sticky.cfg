SPECIFICATION FairSpec
CONSTANTS
    g1 = g1
    g2 = g2
    Gslb = {g1}
    Ingress = {"x"}
    Seconds <- SecondsStated
    MaxFaults = 1
PROPERTY ValidIsAccepted
