\* One handler; a caller supplies the evaluationID of a Validate.
CONSTANTS
    Keys = {k1}
    Hooks = {h1}
    Procs = {p1}
    NoPolicy = NoPolicy
    NoEntry = NoEntry
    ValidationLock = TRUE
    StorageFails = FALSE
    MaxWrites = 2
    MaxPendingChanges = 2
    Schemas = {"none", "valid", "invalid"}
    EvalIds = {e1}
    Generated = Generated

SPECIFICATION Spec
INVARIANT SchemaCompiledBeforeEvaluate
