SPECIFICATION Spec
CONSTANTS
    TxW = 4
    RxW = 6
    MaxRtx = 0
    SduFrags = {3}
    NoPdu = NoPdu
    MaxSdus = 2
    MaxMrw = 2
    MaxBuf = 1
    MaxCtl = 1
    Procs = {p1, p2}
    CtlProcs = {c1}
SYMMETRY Symmetry
INVARIANTS
    NoSilentLoss
\* The system stops: at the bounds, or when an error ended the simulation.
CHECK_DEADLOCK FALSE
