\* Four environments, a source, two strategies to backtest, four moments, one restart.
SPECIFICATION Spec
CONSTANTS
    Order <- MCOrder
    Builtin <- MCBuiltin
    BuiltinBackend <- MCBuiltinBackend
    BuiltinPoll <- MCBuiltinPoll
    KnownBackends = {"cli", "api", "openai", "mistral", "llama"}
    Environments <- MCEnvironments
    DefaultPoll = 3
    MinInterval = 2
    Asks = {0, 9}
    Lag = 1
    Sources = {"fng"}
    MaxAge <- MCMaxAge
    MaxVersion = 1
    Backtested <- MCBacktested
    BacktestPoll = 2
    Train = 2
    Test = 2
    Cutoff = 0
    Days = 6
    EarliestCandle <- MCEarliest
    MaxTime = 3
    MaxRestarts = 1
INVARIANTS ClaimsWhatItSaw EvidenceSound
PROPERTIES StartsAreGated Paced CacheServesAll
CHECK_DEADLOCK FALSE
