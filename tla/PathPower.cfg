SPECIFICATION Spec
CONSTANTS
    Op = {p1, p2}
    Output = {o1}
    Token = {t1, t2}
    Foreign = Foreign
    NoFile = NoFile
    None = None
    kMaxAttempts = 2
    Units = 2
    Platform = "posix"
    MaxFaults = 2
    MaxLosses = 1
INVARIANTS
    TypeOK
    TempStaysOwn
    TempAccounted
    SomeoneWins
    SuccessKept
    RejectedLeavesNoOutput
PROPERTIES
    NeverOverwritten
    PublishesAtomically
CHECK_DEADLOCK FALSE
