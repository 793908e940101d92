SPECIFICATION CacheSpec
CONSTANTS
    Keys = {k1, k2, k3}
    Clients = {c1, c2}
    TTL = 1
    MaxSize = 2
    Unbounded = Unbounded
    Nothing = Nothing
    MaxTime = 2
    MaxVersion = 1
SYMMETRY Symmetry
INVARIANTS
    SizeBound
    NoNeedlessMiss
PROPERTIES
    FreshSpec
    EvictsLeastRecentlyUsed
