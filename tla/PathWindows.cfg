SPECIFICATION Spec
CONSTANTS
    Op = {p1, p2, p3}
    Output = {o1}
    Token = {t1, t2}
    Foreign = Foreign
    NoFile = NoFile
    None = None
    kMaxAttempts = 2
    Units = 1
    Platform = "windows"
    MaxFaults = 1
    MaxLosses = 1
SYMMETRY Symmetry
PROPERTIES
    PublishesAtomically
CHECK_DEADLOCK FALSE
