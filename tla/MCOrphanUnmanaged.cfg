\* A position of a strategy the config dropped has its stop enforced in engine.run.
SPECIFICATION Spec
CONSTANTS
    m1 = m1
    a1 = a1
    Strategies <- MCStrategies2
    MechRosters <- MCRostersDemote
    AiRoster <- MCAi
    Shapes <- MCShapes
    Sizes = {1}
    Threshold = 1
    FlipEnabled = FALSE
    Alignments <- NoGate
    Enumerates = FALSE
    Controls = {"stop"}
    MaxTime = 2
    MaxDay = 1
    MaxOpens = 2
    MaxQueue = 0
    MaxRuns = 2
    MaxDailyLoss = 0
    MaxTradePerDay = 0
    TradingEnabled = TRUE
    Slip = 0
    Fee = 0
    StopDist = 1
    LiqDist = 2
INVARIANTS OrphansEnforced
CHECK_DEADLOCK FALSE
