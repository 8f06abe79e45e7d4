SPECIFICATION Spec
CONSTANTS
    Call = {c1, c2, c3}
    Kind = {"fifo", "file", "none"}
    Reasons = {"shutdown"}
    Now <- Clock
    Parts = 2
    PipeBuf = 2
    Capacity = 3
    U32Max = 1
    MaxSafe = 2
CHECK_DEADLOCK FALSE
INVARIANTS
    TypeOK
    NeverTorn
    Accounted
    ContractExact
PROPERTIES
    NeverWaits
