\* One handler beside the change listener; storage calls succeed.
CONSTANTS
    Keys = {k1}
    Hooks = {h1}
    Procs = {p1}
    NoPolicy = NoPolicy
    NoEntry = NoEntry
    ValidationLock = TRUE
    StorageFails = FALSE
    MaxWrites = 3
    MaxPendingChanges = 2
    Schemas = {"none", "valid", "invalid"}
    EvalIds = {}
    Generated = Generated

SPECIFICATION Spec
PROPERTY ValidationFailureLocks
