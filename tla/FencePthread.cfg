CONSTANTS
    Triggerers = {p1, p2}
    Resetters = {p2}
    Waiters = {p3, p4}
    Mortal = {p2, p3}
    None = None
SPECIFICATION FairSpec
INVARIANTS TypeOK NoForgottenSleeper
PROPERTIES ImplementsFence CallsReturn
CHECK_DEADLOCK FALSE
