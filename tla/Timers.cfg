SPECIFICATION Spec
CONSTANTS
    Clocks = {t1, t2, t3}
    Word = 12
    MaxMillis = 3
    MaxLate = 2
INVARIANTS
    TypeOK
    TimersAreOnTime
