SPECIFICATION Spec
CONSTANTS
    TxW = 3
    RxW = 4
    MaxRtx = 0
    SduFrags = {1, 2}
    NoPdu = NoPdu
    MaxSdus = 2
    MaxMrw = 2
    MaxBuf = 1
    MaxCtl = 1
    Procs = {p1, p2}
    CtlProcs = {c1}
SYMMETRY Symmetry
INVARIANTS
    WindowsAgree
    RxThrowsOnlyKnown
    ReceivedIsStored
    AckTruthful
    WindowDriven
PROPERTIES
    LeavesSettled
\* The system stops: at the bounds, or when an error ended the simulation.
CHECK_DEADLOCK FALSE
