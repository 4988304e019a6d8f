\* One audio and one video stream; 3 commands of an impatient client.
SPECIFICATION Spec
CONSTANTS
    Streams = {audio, video}
    RateControlled = {audio}
    Faulty = {}
    Positions = {10, 20}
    Patient = FALSE
    MaxCommands = 3
    NotSeeking = NotSeeking
    NoStatus = NoStatus
    NoHandler = NoHandler
CHECK_DEADLOCK FALSE
INVARIANTS
    SeekIsPerformed
