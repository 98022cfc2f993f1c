SPECIFICATION Spec
CONSTANTS
    WindowSize = 8
    Span = 4
    MaxOvertaken = 1
    MaxSno = 8
INVARIANTS
    DeliveredInOrder
    ArrivalsAccounted
    GapIsTimed
PROPERTIES
    BufferedIsHandedUp
CHECK_DEADLOCK FALSE
