SPECIFICATION FairSpec
CONSTANTS
    Client = {c1, c2}
    None = None
    MaxPipe = 1
    MaxLines = 1
INVARIANTS
    TypeOK
    EndsWiped
    NoFault
    EndsAsArmed
    ReconnectAccepted
PROPERTIES
    DropAnswered
