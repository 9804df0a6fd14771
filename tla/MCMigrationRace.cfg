\* A version never runs again on a ledger that has its columns.
SPECIFICATION SchemaSpec
CONSTANTS
    Openers <- MCOpeners
    SchemaVersion = 14
INVARIANTS OnceOnly
CHECK_DEADLOCK FALSE
