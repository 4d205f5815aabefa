SPECIFICATION FairSpec
CONSTANTS
    h1 = h1
    h2 = h2
    own1 = own1
    own2 = own2
    ext = ext
    Host = {h1, h2}
    Addr = {own1, own2, ext}
    Own = {own1, own2}
    MaxFaults = 2
INVARIANT TypeOK
PROPERTY StatusIsRecent
PROPERTY StatusConverges
PROPERTY MetricsConverge
