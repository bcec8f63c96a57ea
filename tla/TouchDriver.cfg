SPECIFICATION Spec
CONSTANTS
    Slots = {s1, s2}
    MaxDowns = 3
    MaxMoves = 1
    MaxToggles = 3
INVARIANTS
    TypeOK
    OnePointer
    OffMeansEnded
    PointerComesBack
PROPERTIES
    EveryTouchIsLifted
