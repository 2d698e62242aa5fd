\* A patrolling robot is stopped on its way.
SPECIFICATION AllSeenSpec
CONSTANTS
    Node <- RingNode
    Lane <- RingLane
    Length <- UnitLength
    Robot = {1, 2}
    DrainPerMeter = 1
    DrainPerAct = 1
    Reserve = 15
    KSeqMax = 8
    KAgeStep = 128
    KTierStep = 2000
    KMaxReroutes = 1
    KStuckTicks = 0
    KRerouteWaitTicks = 1
    PatrolRoute <- RingRoute
    PatrolDefault = TRUE
    StartPlace <- TwoApart
    Origin <- OriginV0
    Goals = {}
    ArmActions = {0}
    Modes = {"STOP"}
    Levels = {}
    StartLevel <- FullBattery
    MayForce = FALSE
    MayStall = FALSE
    MaySwap = FALSE
    MaxTasks = 2
    MayLag = FALSE
    Managed = {1}
INVARIANTS
    StoppedHoldsItsPlace
CHECK_DEADLOCK FALSE
