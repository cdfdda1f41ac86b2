SPECIFICATION Spec
CONSTANTS
    Urls = {u1}
    Procs = {p1}
    Intervals <- NonPositiveIntervals
    Invalid = Invalid
    None = None
    MaxTime = 3
PROPERTY DueConfigEventuallyImported
