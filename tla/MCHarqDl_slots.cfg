SPECIFICATION FairSpec
CONSTANTS
    NumProcs = 4
    MaxRtx = 1
    FbTimer = 2
    NumPdus = 5
    NoPdu = NoPdu
    Purges = FALSE
INVARIANTS
    EndsAgree
    NeverThrows
    NothingForgotten
    GrantFindsProcess
PROPERTIES
    KeepsService
    EverySentPduIsSettled
