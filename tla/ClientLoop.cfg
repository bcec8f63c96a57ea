SPECIFICATION Spec
CONSTANTS
    Clients = {1, 2}
    BufSize = 3
    MaxInput = 2
    MaxGone = 1
INVARIANTS
    TypeOK
    NothingIsForgotten
    GrabIsKept
PROPERTIES
    EveryRequestIsServed
