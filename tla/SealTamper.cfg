SPECIFICATION Spec
CONSTANTS
    kChunkSize = 1
    MaxIndex = 2
    Format = {"SKF1", "SKP1"}
    Secret = {s1}
    CallerAad = {a1}
    Salt = {n1, n2}
    NoncePrefix = {x1}
    File = {f1, f2}
    PlainLen = {3}
    MaxSealFaults = 0
    NoResult = NoResult
    MaxOpenFaults = 0
    NoOutcome = NoOutcome
    MaxEdits = 2
SYMMETRY Symmetry
INVARIANTS
    TypeOK
    OutputIsPrefix
    LastChunkNeedsEnd
    AcceptsOnlySealed
CHECK_DEADLOCK FALSE
