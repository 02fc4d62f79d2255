CONSTANTS
    p1 = p1
    p2 = p2
    t1 = t1
    k1 = k1
    k2 = k2
    None = None
    Corrupt = Corrupt
    Proxies = {p1, p2}
    Tiles = {t1}
    Keys = {k1, k2}
    KeyOf <- OwnKeys
    MemEnabled = {p1, p2}
    RedisEnabled = {p1, p2}
    Requests = {r1, r2}
    Admins = {}
    MaxVersion = 1
SPECIFICATION FairSpec
INVARIANTS
    FiledUnderItsKey
    RightTile
PROPERTIES
    ServiceSpec
    EveryCallEnds
