SPECIFICATION Spec
CONSTANTS
    NumProcs = 4
    MaxRtx = 1
    FbTimer = 2
    BsrRtxTimerStart = 3
    RaRespWinStart = 3
    NoPdu = NoPdu
    MaxUnits = 3
INVARIANTS
    AcidsAgree
    NeverThrows
PROPERTIES
    NackedGoesOut
    BacklogServed
