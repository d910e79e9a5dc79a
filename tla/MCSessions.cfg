SPECIFICATION Spec
CONSTANTS
    a = a
    b = b
    Sockets = {a, b}
    NumOffers <- MCNumOffers
    ConnMax = 1
    Unit = 2
    Burst = 3
    Rate = 1
    MaxTime = 2
INVARIANTS
    TypeOK
    AnswersOwnOffer
    UsesNewestChannel
    SubmitsWithinRate
