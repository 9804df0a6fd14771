\* Stops, pause, disable, breaker and once-per-candle under an operator acting at any moment.
SPECIFICATION Spec
CONSTANTS
    m1 = m1
    a1 = a1
    Strategies <- MCStrategies2
    MechRosters <- MCRostersDemote
    AiRoster <- MCAi
    Shapes <- MCShapesStop
    Sizes = {1}
    Threshold = 1
    FlipEnabled = TRUE
    Alignments <- Gate
    Enumerates = FALSE
    Controls = {"pause", "stop", "toggle", "close"}
    MaxTime = 1
    MaxDay = 1
    MaxOpens = 2
    MaxQueue = 1
    MaxRuns = 2
    MaxDailyLoss = 0
    MaxTradePerDay = 0
    TradingEnabled = TRUE
    Slip = 0
    Fee = 0
    StopDist = 1
    LiqDist = 2
INVARIANTS PassEnforcesStops PausedPassOpensNothing
PROPERTIES OncePerCandle TrippedOpensNothing ExitHonoured
