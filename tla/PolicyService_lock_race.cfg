\* Two request handlers issuing Lock and Unlock concurrently.
CONSTANTS
    Keys = {k1}
    Hooks = {h1}
    Procs = {p1, p2}
    NoPolicy = NoPolicy
    NoEntry = NoEntry
    ValidationLock = TRUE
    StorageFails = FALSE
    MaxWrites = 3
    MaxPendingChanges = 2
    Schemas = {"none", "valid", "invalid"}
    EvalIds = {}
    Generated = Generated

SPECIFICATION Spec
PROPERTY LockChangesState
SYMMETRY ProcSymmetry
