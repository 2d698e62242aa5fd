\* A robot patrols a triangle where the next vertex is taken by a stopped robot.
SPECIFICATION FairSpec
CONSTANTS
    Node <- TriNode
    Lane <- TriLane
    Length <- UnitLength
    Robot = {1, 2}
    DrainPerMeter = 1
    DrainPerAct = 1
    Reserve = 15
    KSeqMax = 8
    KAgeStep = 128
    KTierStep = 2000
    KMaxReroutes = 1
    KStuckTicks = 0
    KRerouteWaitTicks = 1
    PatrolRoute <- TriRoute
    PatrolDefault = TRUE
    StartPlace <- TwoAdjacent
    Origin <- OriginV0
    Goals = {}
    ArmActions = {0}
    Modes = {"STOP"}
    Levels = {}
    StartLevel <- FullBattery
    MayForce = FALSE
    MayStall = FALSE
    MaySwap = FALSE
    MaxTasks = 2
    MayLag = FALSE
    Managed = {1}
PROPERTIES
    PatrolNeverRests
CHECK_DEADLOCK FALSE
