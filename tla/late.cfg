SPECIFICATION Spec
CONSTANTS
    Client = {}
    Control = {k1}
    Pid = {p1}
    NoPid = NoPid
    MaxRegistered = 1
    MaxControl = 1
    Graces = {TRUE, FALSE}
    MaxChan = 1
INVARIANTS
    RegisteredDie
