CONSTANTS
    Triggerers = {p1, p2}
    Resetters = {p2}
    Waiters = {p3, p4}
    Mortal = {p3}
SPECIFICATION FairSpec
INVARIANTS TypeOK NoForgottenSleeper
PROPERTIES ImplementsFence
