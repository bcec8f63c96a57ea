SPECIFICATION FairSpec
CONSTANTS
    Devices = {d1, d2}
    InitialSize = 2
    Word = 16
    AllocFails = {"calloc"}
    MaxEvents = 4
    MaxHotplugs = 1
    Blank = Blank
    Freed = Freed
    None = None
INVARIANTS TypeOK NoEventOfFreedDevice
PROPERTIES ImplementsInputQueue
