SPECIFICATION Spec
CONSTANTS
    Devices = {d1}
    InitialSize = 2
    Word = 16
    AllocFails = {"InitEventList"}
    MaxEvents = 3
    MaxHotplugs = 0
    Blank = Blank
    Freed = Freed
    None = None
INVARIANTS QueuedEventsSurvive
