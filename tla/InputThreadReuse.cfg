SPECIFICATION Spec
CONSTANTS
    Fds = {f1}
    Chunk = 2
    MayHurry = TRUE
    MaxCalls = 4
    MaxInputs = 1
    None = None
INVARIANTS OnlyRegisteredDevicesRead
CHECK_DEADLOCK FALSE
