SPECIFICATION Spec
CONSTANTS
    Procs <- ThreeProcs
    Leader = "leader"
    Platforms <- AllPlatforms
INVARIANTS
    SettledIsGone
    OkRanToItsEnd
    GateHolds
PROPERTIES
    RunEnds
