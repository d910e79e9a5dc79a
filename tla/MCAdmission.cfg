SPECIFICATION FairSpec
CONSTANTS
    o1 = o1
    o2 = o2
    o3 = o3
    o4 = o4
    i1 = i1
    i2 = i2
    i3 = i3
    t1 = t1
    t2 = t2
    s1 = s1
    a1 = a1
    NoOrder = NoOrder
    NoSession = NoSession
    NoId = NoId
    NoTrader = NoTrader
    Orders = {o1, o2, o3, o4}
    Ids = {i1, i2, i3}
    IdOf <- MCIdOf
    Traders = {t1, t2}
    TraderOf <- MCTraderOf
    TargetOf <- MCTargetOf
    Gated = {o1}
    Sessions = {s1}
    Addresses = {a1}
    AddressOf <- MCAddressOf
    NumCalls = 3
    Configs <- MCConfigs
    SeenMax = 1
    TTL = 1
    IntelTTL = 1
    MaxTime = 1
    MaxRestarts = 1
INVARIANTS
    TypeOK
    CancelsFollowTargets
    DuplicatesAreRaces
    FlaggedStaysOut
PROPERTIES
    ClearedRecently
    CallsEnd
