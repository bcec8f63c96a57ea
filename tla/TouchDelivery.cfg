SPECIFICATION DeliverySpec
CONSTANTS
    Clients = {c1, c2, c3}
    HistorySize = 3
    MaxTouches = 2
    MaxUpdates = 2
INVARIANTS
    DeliveryTypeOK
    OwnerMissesNothing
    EndIsAnnounced
PROPERTIES
    KeepsPromise
    EveryTouchEnds
