SPECIFICATION Spec
CONSTANTS
    EncVar = {u1, u2}
    DecVar = {w1, w2}
    EncImpl = {e1, e2}
    DecImpl = {d1}
    Key = {k1}
    Aad = {a1, a2}
    Byte = {b1, b2}
    Nonce = {n1, n2}
    MaxLen = 2
    MaxFaults = 1
    None = None
SYMMETRY Symmetry
INVARIANTS
    TypeOK
    SingleOwner
    VerdictSound
    PacketVerifies
PROPERTIES
    FinishedIsFinal
CHECK_DEADLOCK FALSE
