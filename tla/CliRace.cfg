SPECIFICATION Spec
CONSTANTS
    Proc = {p1, p2, p3}
    Output = {o1}
    Token = {t1, t2}
    Command = {"print", "newfile", "tofile", "tostdout", "verify"}
    Foreign = Foreign
    NoFile = NoFile
    None = None
    kMaxAttempts = 2
    Units = 2
    MaxFaults = 2
SYMMETRY Symmetry
INVARIANTS
    TypeOK
    WholeResult
    
    NoTempLeft
    OwnTempStays
PROPERTIES
    NeverReplaced
    PublishesAtomically
CHECK_DEADLOCK FALSE
