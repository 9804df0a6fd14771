\* The kill switch, the stops and the daily cap, over flips, midnight, orphans and a run that dies.
SPECIFICATION Spec
CONSTANTS
    m1 = m1
    a1 = a1
    Strategies <- MCStrategies2
    MechRosters <- MCRostersDemote
    AiRoster <- MCAi
    Shapes <- MCShapes
    Sizes = {1}
    Threshold = 1
    FlipEnabled = TRUE
    Alignments <- NoGate
    Enumerates = TRUE
    Controls = {"die"}
    MaxTime = 2
    MaxDay = 2
    MaxOpens = 3
    MaxQueue = 0
    MaxRuns = 2
    MaxDailyLoss = 2
    MaxTradePerDay = 9
    TradingEnabled = TRUE
    Slip = 0
    Fee = 1
    StopDist = 1
    LiqDist = 2
INVARIANTS OnePositionPerStrategy AiStopsEveryTick OrphansEnforced GuardMatchesLedger DailyLimitsHold
PROPERTIES NoEntryAfterDailyLoss
CHECK_DEADLOCK FALSE
