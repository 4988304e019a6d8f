\* One audio and one video stream; 4 commands of a patient client.
SPECIFICATION Spec
CONSTANTS
    Streams = {audio, video}
    RateControlled = {audio}
    Faulty = {}
    Positions = {10, 20}
    Patient = TRUE
    MaxCommands = 4
    NotSeeking = NotSeeking
    NoStatus = NoStatus
    NoHandler = NoHandler
CHECK_DEADLOCK FALSE
INVARIANT CommandsAreObeyed
PROPERTY CommandsTakeEffect
