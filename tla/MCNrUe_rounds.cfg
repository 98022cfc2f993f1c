SPECIFICATION UeSpec
CONSTANTS
    e1 = e1
    e2 = e2
    g1 = g1
    g2 = g2
    g3 = g3
    NoBs = NoBs
    Bs = {e1,e2,g1,g2,g3}
    NrBs = {g1,g2,g3}
    MasterNode <- OneEachAndOneAlone
    Levels <- FourLevels
    MinRssi = 0
    AttachedAtStart = TRUE
    Detach = 4
INVARIANTS
    SecondaryFollowsMaster
    NetworkAgrees
PROPERTIES
    RoundEnds
