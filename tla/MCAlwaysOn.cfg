\* Five candles, a window of two; two versions, two trades, two deaths.
SPECIFICATION Spec
CONSTANTS
    engine = engine
    tool = tool
    Openers <- MCOpeners
    SchemaVersion = 2
    Window = 2
    Days = 4
    Chunk = 2
    Probe = 1
    Reach = 2
    Start = 2
    MaxNow = 4
    MaxTrades = 2
    MaxDeaths = 1
INVARIANTS SchemaSound AlertedOnce CandlesComplete
PROPERTIES ServiceHolds
CHECK_DEADLOCK FALSE
