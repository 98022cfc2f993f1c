SPECIFICATION FairSpec
CONSTANTS
    Devices = {d1, d2, d3}
    NumHosts = 2
    MaxApps = 2
    Capacities = {2, 3}
    QueueSizes = {1, 2}
    NoRequest = NoRequest
    MaxStarts = 3
INVARIANTS
    HostsAgree
    DevicesAgree
PROPERTIES
    WaitEnds
CHECK_DEADLOCK FALSE
