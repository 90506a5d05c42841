SPECIFICATION Spec
CONSTANTS
    Op = {p1, p2}
    Output = {o1}
    Token = {t1, t2}
    Foreign = Foreign
    NoFile = NoFile
    None = None
    kMaxAttempts = 2
    Units = 1
    Platform = "other"
    MaxFaults = 0
    MaxLosses = 0
PROPERTIES
    NeverOverwritten
CHECK_DEADLOCK FALSE
