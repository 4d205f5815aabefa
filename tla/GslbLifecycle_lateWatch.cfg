SPECIFICATION Spec
CONSTANTS
    g1 = g1
    g2 = g2
    Gslb = {g1}
    Rules = {"a"}
    Providers = {"external"}
    Upgraded = {g1}
    MaxFaults = 1
    MaxLate = 1
INVARIANT NoOrphanDelegation
CHECK_DEADLOCK FALSE
