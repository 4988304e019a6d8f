CONSTANTS
    Kinds = {"source", "demux"}
    Streams = {1, 2}
    MaxCalls = 3
    MaxPackets = 1
    MaxFlushes = 1
    MaxPushes = 2
SPECIFICATION Spec
 
PROPERTY CallsAndReleasesEnd
CHECK_DEADLOCK FALSE
