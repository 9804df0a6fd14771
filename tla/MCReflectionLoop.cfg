\* Three ticks over a ledger with two trades, three more trades, one crash.
SPECIFICATION Spec
CONSTANTS
    PollSec = 2
    MinTrades = 1
    BandMin = 1
    RollbackMin = 1
    Bands <- MCBands
    PastPlaybooks <- MCPlaybooks
    PastOutcomes <- MCOutcomes
    MaxTime = 3
    MaxOutcomes = 4
    MaxCritiques = 1
    MaxCrashes = 1
INVARIANTS ReflectionAccounted NothingStacked
PROPERTIES NoWalkBack
CHECK_DEADLOCK FALSE
