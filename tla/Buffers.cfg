SPECIFICATION BuffersSpec
CONSTANTS
    BufferSizes = {0, 7}
    AllocSizes = {1, 2, 3}
    kNullOffset = 255
INVARIANTS
    Design
PROPERTIES
    HeapSpec
    CacheIsReader
    ReadsEnd
CHECK_DEADLOCK FALSE
