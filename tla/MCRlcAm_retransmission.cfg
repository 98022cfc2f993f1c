SPECIFICATION Spec
CONSTANTS
    TxW = 3
    RxW = 4
    MaxRtx = 1
    SduFrags = {1, 2}
    NoPdu = NoPdu
    MaxSdus = 2
    MaxMrw = 2
    MaxBuf = 1
    MaxCtl = 1
    Procs = {p1}
    CtlProcs = {c1}
SYMMETRY Symmetry
INVARIANTS
    StaleEventsHarmless
    DeliveredOnceWhole
    NoSilentLoss
\* The system stops: at the bounds, or when an error ended the simulation.
CHECK_DEADLOCK FALSE
