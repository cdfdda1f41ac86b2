\* Coordinates without commas, as the spec requires.
CONSTANTS
    Chars = {"a", "b"}
    Comma = ","
    MaxLen = 2

SPECIFICATION Spec
INVARIANT KeysIdentifyPolicies
