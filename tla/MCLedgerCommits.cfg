\* Two wallets, three positions, two crashes between any two commits.
SPECIFICATION BothSpec
CONSTANTS
    s1 = s1
    s2 = s2
    Strategies <- MCStrategies
    Balance = 10
    Fee = 1
    Nets <- MCNets
    MaxPositions = 3
    MaxCrashes = 2
INVARIANTS NeverRecordedTwice CrashCost SameBooks
PROPERTIES KeepsPromise
CHECK_DEADLOCK FALSE
