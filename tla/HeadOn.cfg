\* Auctioned work between two robots that start on neighbouring vertices.
SPECIFICATION AllSeenSpec
CONSTANTS
    Node <- TriNode
    Lane <- TriLane
    Length <- UnitLength
    Robot = {1, 2}
    DrainPerMeter = 1
    DrainPerAct = 1
    Reserve = 15
    KSeqMax = 8
    KAgeStep = 128
    KTierStep = 2000
    KMaxReroutes = 1
    KStuckTicks = 0
    KRerouteWaitTicks = 1
    PatrolRoute <- TriRoute
    PatrolDefault = FALSE
    StartPlace <- TwoAdjacent
    Origin <- OriginV0
    Goals = {0, 1}
    ArmActions = {0}
    Modes = {}
    Levels = {}
    StartLevel <- FullBattery
    MayForce = FALSE
    MayStall = FALSE
    MaySwap = FALSE
    MaxTasks = 3
    MayLag = FALSE
    Managed = {1}
INVARIANTS
    LaneExclusive
CHECK_DEADLOCK FALSE
