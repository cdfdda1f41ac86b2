------------------------------- MODULE Bundle -------------------------------
(***************************************************************************)
(* Signed policy bundles: ExportBundle, PolicyPublicKey and ImportBundle   *)
(* of service.go, between several instances of the service (Hosts).       *)
(* Every host has its own Storage and its own Signer.  Host Self imports. *)
(*                                                                         *)
(* The codec is not under src/ and is modelled from spec 4.3 and 6:       *)
(* createPolicyBundle writes the policy and a metadata document whose     *)
(* verification_key_url names the exporting host and the coordinates;    *)
(* SHA-256 and the Signer are injective, so a signature is the signing    *)
(* key paired with the digest, and a flipped bit gives BadSig.            *)
(***************************************************************************)
EXTENDS Sequences

CONSTANTS
    Hosts,      \* service instances
    Self,       \* the instance that imports
    Coords,     \* policy coordinates (repository, group, name, version)
    Contents,   \* policy source, data and data config, abstracted
    KeyIds,     \* export config key names (namespace, key)
    NoExport,   \* the policy has no ExportConfig
    NoPolicy,   \* Storage.Policy returns NotFound
    BadSig      \* signature.raw with a flipped bit

VARIABLES
    store,      \* Storage of each host: coord -> policy or NoPolicy
    exported,   \* history: every bundle an ExportBundle returned
    imported    \* history: coord -> the bundle Self imported last, or NoPolicy

vars == <<store, exported, imported>>

Pol == [content : Contents, export : KeyIds \cup {NoExport}]

-----------------------------------------------------------------------------
(* Signer port and bundle codec (spec 4.3, 6).                             *)

Key(h, kid) == <<h, kid>>                    \* Signer.Key(namespace, key)
Sign(h, kid, d) == [key |-> Key(h, kid), digest |-> d]
Sha256(inner) == <<"sha256", inner>>

\* createPolicyBundle: the inner zip of policy pol at host h, coordinates c.
InnerBundle(h, c, pol) == [coord |-> c, pol |-> pol, keyUrl |-> <<h, c>>]

\* The outer zip: policy_bundle.zip and signature.raw, in that order.
SignedBundle(inner, sig) == <<inner, sig>>

-----------------------------------------------------------------------------
(* PolicyPublicKey at host h: Storage.Policy, then the ExportConfig; a     *)
(* missing policy or config is an error (NotFound, Forbidden).             *)
PolicyPublicKey(h, c) ==
    IF store[h][c] = NoPolicy \/ store[h][c].export = NoExport THEN NoPolicy
    ELSE Key(h, store[h][c].export)

(* ExportBundle at host h: Storage.Policy; Forbidden without ExportConfig; *)
(* build the inner bundle, sign its digest with the configured key, wrap  *)
(* both.  Errors return without a bundle and change nothing.               *)
ExportBundle(h, c) ==
    LET pol   == store[h][c]
        inner == InnerBundle(h, c, pol)
    IN  /\ pol # NoPolicy
        /\ pol.export # NoExport
        /\ exported' = exported \cup
                {SignedBundle(inner, Sign(h, pol.export, Sha256(inner)))}
        /\ UNCHANGED <<store, imported>>

(* verifyBundle: read the verification key URL from the inner bundle's    *)
(* metadata, GET it (PolicyPublicKey at that host), and check that        *)
(* signature.raw is a signature of the inner bundle's digest under it.    *)
VerifyBundle(files) ==
    LET inner == files[1]
        key   == PolicyPublicKey(inner.keyUrl[1], inner.keyUrl[2])
    IN  /\ key # NoPolicy
        /\ files[2] = [key |-> key, digest |-> Sha256(inner)]

\* policyFromBundle, then Storage.SavePolicy on Self.
SaveImported(files) ==
    /\ store' = [store EXCEPT ![Self][files[1].coord] = files[1].pol]
    /\ imported' = [imported EXCEPT ![files[1].coord] = files]

(* The bundles the network can hand to ImportBundle: any exported one, or *)
(* one changed by whoever carries it: a member dropped, signature.raw     *)
(* flipped, the policy or the key URL in the inner bundle replaced.       *)
Tampered(b) ==
    {<<b[1]>>, <<b[1], BadSig>>}
    \cup {<<[b[1] EXCEPT !.pol = p], b[2]>> : p \in Pol}
    \cup {<<[b[1] EXCEPT !.keyUrl = <<h, b[1].coord>>], b[2]>> : h \in Hosts}

Deliverable == exported \cup UNION {Tampered(b) : b \in exported}

\* Mutant: a verification error is logged and the import continues.
ImportBundleSkipsVerify(files) ==
    /\ Len(files) = 2
    /\ SaveImported(files)
    /\ UNCHANGED exported

(* ImportBundle at Self: unzip; BadRequest unless exactly two files;      *)
(* Forbidden unless verifyBundle succeeds; then SavePolicy.                *)
ImportBundle(files) ==
    /\ Len(files) = 2
    /\ VerifyBundle(files)
    /\ SaveImported(files)
    /\ UNCHANGED exported

(* An operator or loader outside the service stores a policy at a host:   *)
(* this is how policies and their ExportConfig come into being (spec 3).  *)
StorePolicy(h, c, pol) ==
    /\ store' = [store EXCEPT ![h][c] = pol]
    /\ UNCHANGED <<exported, imported>>

Init ==
    /\ store \in [Hosts -> [Coords -> Pol \cup {NoPolicy}]]
    /\ exported = {}
    /\ imported = [c \in Coords |-> NoPolicy]

Next ==
    \/ \E h \in Hosts, c \in Coords : ExportBundle(h, c)
    \/ \E b \in Deliverable : ImportBundle(b)
    \/ \E h \in Hosts \ {Self}, c \in Coords, pol \in Pol : StorePolicy(h, c, pol)

Spec == Init /\ [][Next]_vars

-----------------------------------------------------------------------------
(* Export followed by import reproduces the exported bundle exactly: every *)
(* policy ImportBundle saved came, member for member, from a bundle some   *)
(* ExportBundle returned.  A dropped member, a flipped signature, or a     *)
(* policy or key URL replaced in transit is refused (spec 7, 8).           *)
ImportedWasExported ==
    \A c \in Coords : imported[c] # NoPolicy => imported[c] \in exported

=============================================================================
