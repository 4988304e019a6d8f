SPECIFICATION Spec
CONSTANTS
    Outputs = {"throttle", "alsa"}
    MaxPackets = 2
    MaxFlushes = 1
INVARIANT PacketsAreAccountedFor
PROPERTY FlushedAreAnswered
CHECK_DEADLOCK FALSE
