\* Auctioned work on a ring of four, under fairness.
SPECIFICATION FairSpec
CONSTANTS
    Node <- RingNode
    Lane <- RingLane
    Length <- UnitLength
    Robot = {1, 2}
    DrainPerMeter = 1
    DrainPerAct = 1
    Reserve = 15
    KSeqMax = 8
    KAgeStep = 128
    KTierStep = 2000
    KMaxReroutes = 1
    KStuckTicks = 0
    KRerouteWaitTicks = 1
    PatrolRoute <- RingRoute
    PatrolDefault = FALSE
    StartPlace <- TwoAdjacent
    Origin <- OriginV0
    Goals = {0, 1, 2, 3}
    ArmActions = {0}
    Modes = {}
    Levels = {}
    StartLevel <- FullBattery
    MayForce = FALSE
    MayStall = FALSE
    MaySwap = FALSE
    MaxTasks = 3
    MayLag = FALSE
    Managed = {1}
PROPERTIES
    EscalationEnds
CHECK_DEADLOCK FALSE
