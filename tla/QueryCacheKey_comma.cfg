\* Coordinates taken from request paths, which may contain a comma.
CONSTANTS
    Chars = {"a", ","}
    Comma = ","
    MaxLen = 2

SPECIFICATION Spec
INVARIANT KeysIdentifyPolicies
