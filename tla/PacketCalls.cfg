SPECIFICATION Spec
CONSTANTS
    Call = {c1, c2, c3}
    Key = {k1, k2}
    Aad = {a1, a2}
    Byte = {b1}
    Nonce = {n1, n2}
    None = None
    PlainLen = {0, 3}
    kKeySize = 2
    IntMax = 2
    MaxLen = 3
    MaxFaults = 1
SYMMETRY Symmetry
INVARIANTS
    OpensOnlyMade
    
    FailureTellsLittle
    
CHECK_DEADLOCK FALSE
