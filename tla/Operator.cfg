\* Every service on a triangle, from a cold start: forced and auctioned work, modes,
\* a battery, a plugin swap.
SPECIFICATION Spec
CONSTANTS
    Node <- TriNode
    Lane <- TriLane
    Length <- UnitLength
    Robot = {1, 2}
    DrainPerMeter = 1
    DrainPerAct = 1
    Reserve = 15
    KSeqMax = 8
    KAgeStep = 128
    KTierStep = 2000
    KMaxReroutes = 1
    KStuckTicks = 0
    KRerouteWaitTicks = 1
    PatrolRoute <- TriRoute
    PatrolDefault = FALSE
    StartPlace <- TwoAdjacent
    Origin <- OriginV0
    Goals = {2}
    ArmActions = {0}
    Modes = {"PATROL", "STOP", "CHARGE"}
    Levels = {15}
    StartLevel <- FullBattery
    MayForce = TRUE
    MayStall = FALSE
    MaySwap = TRUE
    MaxTasks = 3
    MayLag = FALSE
    Managed = {1}
INVARIANTS
    TypeOK
    OneTaskPerRobot
    BusyMatchesTasks
    IndexInsidePath
    NothingLeaks
    WaitersStand
    StoppedIsOutOfService
PROPERTIES
    ReservesLikeALedger
CHECK_DEADLOCK FALSE
