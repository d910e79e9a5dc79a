SPECIFICATION FairSpec
CONSTANTS
    o1 = o1
    o2 = o2
    o3 = o3
    o4 = o4
    t1 = t1
    t2 = t2
    s1 = s1
    s2 = s2
    NoTarget = NoTarget
    NoEntry = NoEntry
    NoAnchor = NoAnchor
    Orders = {o1, o2, o3, o4}
    Traders = {t1, t2}
    TraderOf <- MCTraderOf
    TargetOf <- MCTargetOf
    Stamps = {s1, s2}
    MaxEntries = 2
    LegacyLogs <- MCLegacyLogs
    MaxFaults = 5
INVARIANTS
    TypeOK
    OnlyOfferedInDoubt
    RecoveryAccepted
    AnchorCoversSettled
    OrdersOnce
PROPERTIES
    ImplementsAckedLog
    EventuallyWritable
