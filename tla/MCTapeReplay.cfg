SPECIFICATION Spec
CONSTANTS
    NoIndex = NoIndex
    Stride = 2
    ReplayBatch = 1
    Chunk = 4
    FromSeqs = {1, 2, 3}
    MaxAppends = 4
    Wide = {}
    MaxFaults = 1
INVARIANT
    ReplaysFromSeq
