SPECIFICATION FromOne
CONSTANTS
    Clients = {c1}
    Contents = {1, 2}
    QueueSize = 1
    Attempts = 1
    Polling = TRUE
    MaxChanges = 1
    MaxFaults = 1
INVARIANT TypeOK
PROPERTIES CatchesUp CallsNeverWait StopEnds
