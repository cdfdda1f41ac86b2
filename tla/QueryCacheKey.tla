--------------------------- MODULE QueryCacheKey ---------------------------
(***************************************************************************)
(* Service.queryCacheKey: the policy cache key is                          *)
(* fmt.Sprintf("%s,%s,%s,%s", repository, group, policyName, version).     *)
(* Strings are sequences over a small alphabet Chars. The cache is only    *)
(* sound if distinct coordinates never share a key; the spec forbids       *)
(* commas in coordinates, but no code under src/ rejects them.             *)
(***************************************************************************)
EXTENDS Naturals, Sequences

CONSTANTS
    Chars,     \* characters a coordinate may contain
    Comma,     \* the separator character ","
    MaxLen     \* longest coordinate considered

ASSUME MaxLen \in Nat \ {0}

\* Non-empty strings over Chars up to MaxLen characters.
Str == UNION {[1..n -> Chars] : n \in 1..MaxLen}

Coord == Str \X Str \X Str \X Str

\* Mutant: the separator dropped, "%s%s%s%s".
queryCacheKeyNoSep(c) == c[1] \o c[2] \o c[3] \o c[4]

queryCacheKey(c) ==
    c[1] \o <<Comma>> \o c[2] \o <<Comma>> \o c[3] \o <<Comma>> \o c[4]

VARIABLES a, b   \* the coordinates of two policies sharing the cache

Init == a \in Coord /\ b \in Coord

\* The coordinates are fixed for the life of a request; nothing changes.
Next == UNCHANGED <<a, b>>

Spec == Init /\ [][Next]_<<a, b>>

(* retrievePolicy returns the snapshot cached for a only if it was cached  *)
(* for a: two policies get the same cache key only if they are the same    *)
(* policy, so one is never evaluated, or its lock bypassed, as the other.  *)
KeysIdentifyPolicies == queryCacheKey(a) = queryCacheKey(b) => a = b

=============================================================================
