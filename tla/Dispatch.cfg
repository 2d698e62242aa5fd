\* Auctioned work on a ring of four, under fairness: robots stall, reports lag. The node
\* is so old that most tasks count as equally young.
SPECIFICATION FairSpec
CONSTANTS
    Node <- RingNode
    Lane <- RingLane
    Length <- UnitLength
    Robot = {1, 2}
    DrainPerMeter = 1
    DrainPerAct = 1
    Reserve = 15
    KSeqMax = 1
    KAgeStep = 128
    KTierStep = 2000
    KMaxReroutes = 1
    KStuckTicks = 0
    KRerouteWaitTicks = 1
    PatrolRoute <- RingRoute
    PatrolDefault = FALSE
    StartPlace <- TwoAdjacent
    Origin <- OriginV0
    Goals = {0, 1, 2}
    ArmActions = {0}
    Modes = {}
    Levels = {}
    StartLevel <- FullBattery
    MayForce = FALSE
    MayStall = TRUE
    MaySwap = FALSE
    MaxTasks = 3
    MayLag = TRUE
    Managed = {1}
INVARIANTS
    TargetsReserved
PROPERTIES
    WorkIsNotInterrupted
    WorkEndsOrEscalates
CHECK_DEADLOCK FALSE
