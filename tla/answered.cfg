SPECIFICATION FairSpec
CONSTANTS
    Client = {c1, c2}
    Control = {}
    Pid = {}
    NoPid = NoPid
    MaxRegistered = 1
    MaxControl = 1
    Graces = {TRUE, FALSE}
    MaxChan = 1
PROPERTIES
    LossAnswered
    KeepsPromise
