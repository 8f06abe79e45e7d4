SPECIFICATION Spec
CONSTANTS
    Daemon = {d1, d2}
    Nobody = Nobody
    PageSize = 4
    UsizeMod = 16
    PidMax = 2
    KeyLen = 2
    KeyData = 1
    WorkData = 2
    Sizes = {0, 1, 3, 15}
    Execs = {"none", "wanted"}
    MaxRegistered = 1
    Signals = {"USR1", "USR2", "TERM"}
    Seccomp = TRUE
SYMMETRY Symmetry
CHECK_DEADLOCK FALSE
INVARIANTS
    TypeOK
    NeverDenied
    Findable
    StaleFilesYield
PROPERTIES
    ChildDies
    NoSecretReturned
    NoStalePid
    OnlyRegisteredDie
