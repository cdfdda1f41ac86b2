\* Two service instances; Self imports what the other exports and its own.
SPECIFICATION Spec
CONSTANTS
    Hosts = {self, other}
    Self = self
    Coords = {c1}
    Contents = {v1, v2}
    KeyIds = {k1, k2}
    NoExport = NoExport
    NoPolicy = NoPolicy
    BadSig = BadSig
INVARIANT ImportedWasExported
