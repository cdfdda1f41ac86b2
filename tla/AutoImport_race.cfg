SPECIFICATION Spec
CONSTANTS
    Urls = {u1}
    Procs = {p1}
    Intervals = {1, 2}
    Invalid = Invalid
    None = None
    MaxTime = 3
INVARIANT ConfigMatchesRequests
