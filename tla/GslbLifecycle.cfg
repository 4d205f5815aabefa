SPECIFICATION FairSpec
CONSTANTS
    g1 = g1
    g2 = g2
    Gslb = {g1}
    Rules = {"a", "b"}
    Providers = {"external", "empty"}
    Upgraded = {g1}
    MaxFaults = 2
    MaxLate = 1
INVARIANT WantedIsKept
INVARIANT UnownedIsWanted
INVARIANT OwnersExist
INVARIANT OrphanIsOverlooked
PROPERTY ImplementsGuard
PROPERTY IngressFollowsGslb
PROPERTY GoneForGood
CHECK_DEADLOCK FALSE
