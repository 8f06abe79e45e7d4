SPECIFICATION ReiSpec
CONSTANTS
    Daemon = {d1}
    Nobody = Nobody
    Call = {c1}
    PageSize = 4
    UsizeMod = 16
    PidMax = 1
    KeyLen = 2
    KeyData = 1
    WorkData = 2
    Sizes = {3}
    Execs = {"none"}
    MaxRegistered = 0
    Signals = {}
    Seccomp = TRUE
CHECK_DEADLOCK FALSE
PROPERTIES
    NoStrangerSignalled
