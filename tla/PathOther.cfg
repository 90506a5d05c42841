SPECIFICATION FairSpec
CONSTANTS
    Op = {p1, p2}
    Output = {o1}
    Token = {t1, t2}
    Foreign = Foreign
    NoFile = NoFile
    None = None
    kMaxAttempts = 2
    Units = 2
    Platform = "other"
    MaxFaults = 2
    MaxLosses = 0
INVARIANTS
    OutputComplete
PROPERTIES
    Terminates
CHECK_DEADLOCK FALSE
