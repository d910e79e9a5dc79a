SPECIFICATION FairSpec
CONSTANTS
    a = a
    b = b
    c1 = c1
    c2 = c2
    x = x
    y = y
    pub = pub
    priv = priv
    n1 = n1
    n2 = n2
    Http = Http
    NoNode = NoNode
    NoCall = NoCall
    NoId = NoId
    NoPeer = NoPeer
    Stray = {a}
    Ids = {x, y}
    Peers = {a, b}
    Calls = {c1, c2}
    Kinds = {pub, priv}
    PublicKinds = {pub}
    Nodes = {n1, n2}
    CallerOf <- MCCallerOf
    NodesOf <- MCNodesOf
    IdsOf <- MCIdsOf
    Prefers <- MCPrefers
    MaxOffers <- MCMaxOffers
INVARIANTS
    TypeOK
    RepliedOnce
    AnswersOwnCall
    NoneWaitsOnGone
PROPERTIES
    EveryCallReplied
