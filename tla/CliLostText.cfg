SPECIFICATION Spec
CONSTANTS
    Proc = {p1}
    Output = {o1}
    Token = {t1}
    Command = {"print"}
    Foreign = Foreign
    NoFile = NoFile
    None = None
    kMaxAttempts = 2
    Units = 1
    MaxFaults = 1
INVARIANTS
    SuccessIsPrinted
CHECK_DEADLOCK FALSE
