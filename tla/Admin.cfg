CONSTANTS
    p1 = p1
    p2 = p2
    t1 = t1
    k1 = k1
    k2 = k2
    None = None
    Corrupt = Corrupt
    Proxies = {p1}
    Tiles = {t1}
    Keys = {k1}
    KeyOf <- OwnKeys
    MemEnabled = {p1}
    RedisEnabled = {p1}
    Requests = {r1, r2}
    Admins = {a1}
    MaxVersion = 1
SPECIFICATION Spec
SYMMETRY RequestSymmetry
PROPERTIES
    ServiceSpec
    NoResurrection
