\* Two robots patrol two triangles with four vertices.
SPECIFICATION AllSeenSpec
CONSTANTS
    Node <- RingNode
    Lane <- KiteLane
    Length <- UnitLength
    Robot = {1, 2}
    DrainPerMeter = 1
    DrainPerAct = 1
    Reserve = 15
    KSeqMax = 1
    KAgeStep = 128
    KTierStep = 2000
    KMaxReroutes = 1
    KStuckTicks = 0
    KRerouteWaitTicks = 2
    PatrolRoute <- RingRoute
    PatrolDefault = TRUE
    StartPlace <- TwoAdjacent
    Origin <- OriginV0
    Goals = {}
    ArmActions = {0}
    Modes = {}
    Levels = {}
    StartLevel <- FullBattery
    MayForce = FALSE
    MayStall = FALSE
    MaySwap = FALSE
    MaxTasks = 2
    MayLag = FALSE
    Managed = {1}
INVARIANTS
    DeadlocksAreCircles
CHECK_DEADLOCK FALSE
