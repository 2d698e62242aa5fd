\* Two robots patrol a triangle; reports lag, nobody interferes.
SPECIFICATION FairSpec
CONSTANTS
    Node <- TriNode
    Lane <- TriLane
    Length <- UnitLength
    Robot = {1, 2}
    DrainPerMeter = 1
    DrainPerAct = 1
    Reserve = 15
    KSeqMax = 1
    KAgeStep = 128
    KTierStep = 2000
    KMaxReroutes = 1
    KStuckTicks = 0
    KRerouteWaitTicks = 2
    PatrolRoute <- TriRoute
    PatrolDefault = TRUE
    StartPlace <- TwoAdjacent
    Origin <- OriginV0
    Goals = {}
    ArmActions = {0}
    Modes = {}
    Levels = {}
    StartLevel <- FullBattery
    MayForce = FALSE
    MayStall = FALSE
    MaySwap = FALSE
    MaxTasks = 2
    MayLag = TRUE
    Managed = {1}
INVARIANTS
    StandersHold
    LaneExclusive
PROPERTIES
    PatrolNeverRests
CHECK_DEADLOCK FALSE
