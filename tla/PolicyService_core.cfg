\* One request handler beside the listener; Storage calls may fail.
CONSTANTS
    Keys = {k1}
    Hooks = {h1}
    Procs = {p1}
    NoPolicy = NoPolicy
    NoEntry = NoEntry
    ValidationLock = TRUE
    StorageFails = TRUE
    MaxWrites = 3
    MaxPendingChanges = 2
    Schemas = {"none", "valid", "invalid"}
    EvalIds = {e1}
    Generated = Generated

SPECIFICATION Spec
INVARIANT TypeOK

