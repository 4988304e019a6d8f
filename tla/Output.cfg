\* A buffer of eight bytes and packets of up to half of it; the client cancels and
\* flushes once.  The adapter, which does not set rd_ and wr_, finds zeros there.
SPECIFICATION MCSpec
CONSTANTS
    BufferSize = 8
    Hi = 4
    Lo = 2
    Sizes = {1, 3, 4}
    Unset = {0}
    MaxPackets = 5
    MaxHeld = 2
    MaxCancels = 1
    MaxFlushes = 1
INVARIANTS
    PayloadsDisjoint
    MediaTimeIsKept
    EverySampleInPlace
    DeviceIsFed
CHECK_DEADLOCK FALSE
