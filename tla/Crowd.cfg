\* Three robots patrol two triangles with four vertices; one battery is lower.
SPECIFICATION AllSeenSpec
CONSTANTS
    Node <- RingNode
    Lane <- KiteLane
    Length <- UnitLength
    Robot = {1, 2, 3}
    DrainPerMeter = 1
    DrainPerAct = 1
    Reserve = 15
    KSeqMax = 1
    KAgeStep = 128
    KTierStep = 2000
    KMaxReroutes = 1
    KStuckTicks = 0
    KRerouteWaitTicks = 2
    PatrolRoute <- RingRoute
    PatrolDefault = TRUE
    StartPlace <- ThreeInLine
    Origin <- OriginV0
    Goals = {}
    ArmActions = {0}
    Modes = {}
    Levels = {}
    StartLevel <- LowThird
    MayForce = FALSE
    MayStall = FALSE
    MaySwap = FALSE
    MaxTasks = 3
    MayLag = FALSE
    Managed = {1}
INVARIANTS
    DeadlocksAreReal
    OneYields
CHECK_DEADLOCK FALSE
