SPECIFICATION Spec
CONSTANTS
    Client = {}
    Control = {k1, k2, k3}
    Pid = {p1, p2}
    NoPid = NoPid
    MaxRegistered = 1
    MaxControl = 2
    Graces = {TRUE}
    MaxChan = 1
SYMMETRY Symmetry
INVARIANTS
    CapsHold
    SinkIsTrue
PROPERTIES
    SafePromise
