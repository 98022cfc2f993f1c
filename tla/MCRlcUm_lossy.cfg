SPECIFICATION Spec
CONSTANTS
    SduLengths = {1, 3}
    Requests = {1, 4}
    QueueSize = 5
    MaxSdus = 3
    WindowSize = 2
    Processes = 3
INVARIANTS
    WindowSound
    SdusAccounted
PROPERTIES
    WaitsNotForEver
    KeepsOrder
\* The system stops when MaxSdus have come and all timers are done.
CHECK_DEADLOCK FALSE
