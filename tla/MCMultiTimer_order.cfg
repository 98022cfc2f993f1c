SPECIFICATION Spec
CONSTANTS
    Events = {e1, e2, e3}
    Delays = {0, 1, 2, 3}
    None = None
    MaxNow = 4
    MaxAdds = 5
INVARIANTS
    ListsSound
PROPERTIES
    EveryEventEnds
    KeepsTime
CHECK_DEADLOCK FALSE
