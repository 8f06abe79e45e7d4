SPECIFICATION Spec
CONSTANTS
    Client = {c1}
    Control = {}
    Pid = {}
    NoPid = NoPid
    MaxRegistered = 1
    MaxControl = 1
    Graces = {TRUE, FALSE}
    MaxChan = 1
PROPERTIES
    ReconnectCancels
