SPECIFICATION FairSpec
CONSTANTS
    p1 = p1
    r1 = r1
    r2 = r2
    NoPeer = NoPeer
    NoId = NoId
    x = x
    Ids = {x}
    IdsOf <- MCIdsOf
    Peers = {p1}
    Calls = {r1, r2}
    Methods <- MCMethods
    PublicMethods <- MCPublicMethods
    MethodsOf <- MCMethodsOf
    NamesOf <- MCNamesOf
    AskedOf <- MCAskedOf
    LegacyTl = {TRUE, FALSE}
INVARIANTS
    TypeOK
    ExecutedAsTold
PROPERTIES
    RequestsAnswered
    PeersServe
