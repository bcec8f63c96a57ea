SPECIFICATION FairSpec
CONSTANTS
    Fds = {f1, f2}
    Chunk = 2
    MayHurry = FALSE
    MaxCalls = 4
    MaxInputs = 2
    None = None
INVARIANTS TypeOK PolledDevicesExist OnlyRegisteredDevicesRead
PROPERTIES InputIsRead EventsAreProcessed FiniReturns
CHECK_DEADLOCK FALSE
