SPECIFICATION Spec
CONSTANTS
    WindowSize = 8
    Span = 4
    MaxOvertaken = 2
    MaxSno = 6
INVARIANTS
    DeliveredInOrder
CHECK_DEADLOCK FALSE
