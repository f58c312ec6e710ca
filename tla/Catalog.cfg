SPECIFICATION CatalogSpec
CONSTANTS
    Keys = {k1, k2, k3}
    Releases <- SmallReleases
    FollowerChannels = {c1, c2}
    FollowerIds = {d1, d2}
    Settings = {x1}
    Measures = {m1}
    MaxSyncs = 3
CHECK_DEADLOCK FALSE
CONSTRAINT FollowersOrHistories
SYMMETRY Symmetry
INVARIANT SyncedCatalogIsComplete
PROPERTY NothingIsLostInMoves
