SPECIFICATION Spec
CONSTANTS
    Watcher = {"w1", "w2", "w3", "w4", "w5", "w6"}
    Thread = {"t1", "t2", "t3", "pumped"}
    Handle = {"h1", "h2", "h3", "h4", "h5"}
    ThreadOf <- ThreadOfWatcher
    OwnerOf <- OwnerOfHandle
    Pumped = {"pumped"}
    SignalsOf <- SignalsOfHandle
    Exiting = {"t1"}
    Processes = {{"t1"}, {"t2", "t3"}, {"pumped"}}
    NoHandle = "none"
    Delays = {0, 1}
    RestartsOnDeadline = FALSE
    MaxStarts = 2
    MaxTime = 3
    MaxTasks = 1
CHECK_DEADLOCK FALSE
INVARIANT WatchesAreKept
PROPERTY WatchesAndStopsAreAnswered
