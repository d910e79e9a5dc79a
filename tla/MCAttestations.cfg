SPECIFICATION Spec
CONSTANTS
    s1 = s1
    s2 = s2
    Signers = {s1, s2}
    Places = {"ws1", "ws2"}
    Clearlists = {0, 1}
    MaxListed = 2
    MaxSigned = 4
INVARIANTS
    TypeOK
    NewestServed
