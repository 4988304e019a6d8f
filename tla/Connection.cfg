\* Packets supplied by the main thread or by a worker; the client flushes twice
\* and disconnects once.
SPECIFICATION MCSpec
CONSTANTS
    Limit = 2
    Suppliers = {"main", "worker"}
    MaxPackets = 3
    MaxFlushes = 2
    MaxDisconnects = 1
    Files <- WavFiles
    SECOND = 8000
    BUF_DEPTH_USEC = 5
    BUF_HI_WATER_USEC = 4
    BUF_LO_WATER_USEC = 2
    CHUNK_SIZE_USEC = 1
CHECK_DEADLOCK FALSE
INVARIANTS
    SuppliedWithinWindow
    PlaysWhole
PROPERTIES
    DeliveredInOrder
    EndIsReached
    EverythingIsSent
