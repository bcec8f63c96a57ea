CONSTANTS
    Windows = {w1, w2}
    Queues = {q1}
    Buffers = {b1, b2}
    None = None
    MaxNotices = 1
SPECIFICATION FairSpec
INVARIANTS TypeOK UsesOnlyLent CallbacksSynchronous SavedStateOwned NoUseAfterFree SleepIsAnswered
PROPERTIES WindowOnlyViaNull CallbackReturns
CHECK_DEADLOCK FALSE
