SPECIFICATION Spec
CONSTANTS
    kChunkSize = 2
    MaxIndex = 1
    Format = {"SKF1"}
    Secret = {s1, s2}
    CallerAad = {a1, a2}
    Salt = {n1, n2}
    NoncePrefix = {x1}
    File = {f1, f2}
    PlainLen = {0, 3, 4, 5}
    MaxSealFaults = 1
    NoResult = NoResult
    MaxOpenFaults = 1
    NoOutcome = NoOutcome
    MaxEdits = 1
SYMMETRY Symmetry
INVARIANTS
    NonceNeverReused
    OutputIsPrefix
    AcceptsOnlySealed
    SealedOpens
    WrongSecretFailsClosed
CHECK_DEADLOCK FALSE
