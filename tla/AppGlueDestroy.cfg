CONSTANTS
    Windows = {w1}
    Queues = {q1}
    Buffers = {b1}
    None = None
    MaxNotices = 1
SPECIFICATION FairSpec
PROPERTIES DestroyProceeds
CHECK_DEADLOCK FALSE
