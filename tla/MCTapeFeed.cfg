SPECIFICATION FairSpec
CONSTANTS
    NoIndex = NoIndex
    Stride = 2
    ReplayBatch = 1
    Chunk = 4
    FromSeqs = {1, 3}
    MaxAppends = 4
    Wide = {3}
    MaxFaults = 2
INVARIANTS
    TypeOK
    BreaksShowAsGaps
    LossBounded
    IndexExact
    EndComplete
    ReplayedOnceInOrder
PROPERTIES
    ReplayEnds
