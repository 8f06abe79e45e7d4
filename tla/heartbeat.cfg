SPECIFICATION Spec
CONSTANTS
    Client = {c1, c2, c3}
    Control = {}
    Pid = {}
    NoPid = NoPid
    MaxRegistered = 1
    MaxControl = 1
    Graces = {TRUE, FALSE}
    MaxChan = 1
SYMMETRY Symmetry
INVARIANTS
    TypeOK
    SingleHolder
    GenerationsInOrder
    NoFalseAlarm
    NoMissedLoss
    OneStory
