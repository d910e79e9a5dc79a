SPECIFICATION FairSpec
CONSTANTS
    o1 = o1
    o2 = o2
    o3 = o3
    t1 = t1
    t2 = t2
    s1 = s1
    c1 = c1
    c2 = c2
    NoTarget = NoTarget
    NoEntry = NoEntry
    NoReply = NoReply
    Refused = Refused
    Orders = {o1, o2, o3}
    Traders = {t1, t2}
    TraderOf <- MCTraderOf
    TargetOf <- MCTargetOf
    Stamps = {s1}
    MaxEntries = 2
    LegacyLogs <- MCLegacyLogs
    Collators = {c1, c2}
    Observed = c1
    MaxFaults = 3
INVARIANTS
    TypeOK
    WitnessFirst
    OpenNotStale
PROPERTIES
    LocalContract
    CallsReturn
