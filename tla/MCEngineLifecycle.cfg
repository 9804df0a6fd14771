\* Two web threads, three requests, four engine threads, two positions.
SPECIFICATION Spec
CONSTANTS
    h1 = h1
    h2 = h2
    Handlers <- MCHandlers
    MaxThreads = 4
    MaxRequests = 3
    MaxPositions = 2
INVARIANTS OnlyRefRuns NoPositionWithoutWallet ExitHitsIntended NoLostWake
PROPERTIES StopEndsEveryEngine
CHECK_DEADLOCK FALSE
