SPECIFICATION Spec
CONSTANTS
    Bs = {b1, b2, b3}
    NoBs = NoBs
    CommandsInTime = TRUE
    MaxPackets = 3
    MaxHandovers = 3
INVARIANTS
    ForwardingFollowsHandover
    PathKeepsOrder
    PacketsAccounted
PROPERTIES
    ForwardingEnds
CHECK_DEADLOCK FALSE
