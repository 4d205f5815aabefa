SPECIFICATION FairSpec
CONSTANTS
    g1 = g1
    g2 = g2
    Gslb = {g1, g2}
    Rules = {"a"}
    Providers = {"external"}
    Upgraded = {}
    MaxFaults = 2
    MaxLate = 0
INVARIANT OrphanIsOverlooked
PROPERTY ImplementsGuard
PROPERTY DelegationRestored
CHECK_DEADLOCK FALSE
