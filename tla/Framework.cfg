SPECIFICATION Spec
CONSTANTS
    Bits = 2
    ByteBits = 2
    GainBits = 6
    b1 = b1
    b2 = b2
    b3 = b3
INVARIANTS
    TimelinesAreExact
    TypesSurvive
    SamplesAreKept
    PipelineDelivers
    PackingIsSafe
    PreparedPortions
    WantedInputsArePending
    PullsAreAnsweredInOrder
    FramesAreDelivered
    DaemonServesOrDies
CHECK_DEADLOCK FALSE
