SPECIFICATION ReiSpec
CONSTANTS
    Daemon = {d1, d2}
    Nobody = Nobody
    Call = {c1}
    PageSize = 4
    UsizeMod = 16
    PidMax = 2
    KeyLen = 2
    KeyData = 1
    WorkData = 2
    Sizes = {3}
    Execs = {"none"}
    MaxRegistered = 0
    Signals = {}
    Seccomp = TRUE
SYMMETRY Symmetry
CHECK_DEADLOCK FALSE
INVARIANTS
    ReiTypeOK
PROPERTIES
    SignalsTheAnswerer
    PanicNotLost
