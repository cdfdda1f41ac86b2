--------------------------- MODULE PolicyService ---------------------------
(***************************************************************************)
(* The request handlers of internal/service/policy/service.go that share   *)
(* state: Evaluate, Validate, Lock, Unlock, ImportBundle and               *)
(* SubscribeForPolicyChange, running as concurrent handlers against the    *)
(* Storage port, the in-process policy cache (RegoCache) filled by         *)
(* retrievePolicy, and the storage change listener that purges that cache  *)
(* whenever a policy document changes.                                     *)
(*                                                                         *)
(* Policy text, data and the evaluation result are abstracted to a version *)
(* number; only the fields the handlers branch on are kept: Locked and     *)
(* whether an OutputSchema is set.                                         *)
(***************************************************************************)
EXTENDS Naturals

CONSTANTS
    Keys,               \* policy coordinates (repository, group, name, version)
    Hooks,              \* (webhookURL, subscriber name) pairs
    Procs,              \* concurrent request handlers
    NoPolicy,           \* Storage.Policy returns NotFound
    NoEntry,            \* policyCache.Get returns found = false
    ValidationLock,     \* Service.validationLock
    StorageFails,       \* whether Storage calls may return an error
    MaxWrites,          \* bound on Lock, Unlock and ImportBundle requests
    MaxPendingChanges,  \* bound on undelivered storage change events
    Schemas,            \* the kinds of OutputSchema a policy may carry
    EvalIds,            \* evaluationIDs a caller may supply
    Generated           \* an evaluationID from uuid.NewString()

ASSUME ValidationLock \in BOOLEAN /\ StorageFails \in BOOLEAN
ASSUME MaxWrites \in Nat /\ MaxPendingChanges \in Nat \ {0}
ASSUME Schemas \subseteq {"none", "valid", "invalid"} /\ Generated \notin EvalIds

VARIABLES
    policies,      \* Storage: the policy document stored under each key
    subscribers,   \* Storage: number of Subscriber records per (key, hook)
    policyCache,   \* RegoCache: the snapshot cached under queryCacheKey
    changes,       \* change events written by Storage, not yet delivered
    writes,        \* write requests started so far (bounded by MaxWrites)
    req,           \* the local state of each request handler
    results        \* result cache (Cache port): evaluationID -> result

vars == <<policies, subscribers, policyCache, changes, writes, req, results>>

\* A stored policy as the handlers see it (storage.Policy).
Policy == [ver: 0..MaxWrites, locked: BOOLEAN, schema: Schemas]

\* A result is the version of the policy that computed it.
Results == 0..MaxWrites

Ops == {"none", "evaluate", "validate", "lock", "unlock", "subscribe"}

PCs == {"idle", "get", "fetch", "set", "schema", "eval", "run", "check",
        "lk_read", "lk_write", "ul_read", "ul_write", "sb_check", "sb_create"}

Idle == [op |-> "none", pc |-> "idle", key |-> CHOOSE k \in Keys : TRUE,
         hook |-> CHOOSE h \in Hooks : TRUE, snap |-> NoPolicy,
         pol |-> NoPolicy, after |-> "idle", id |-> Generated, cached |-> FALSE]

Req == [op: Ops, pc: PCs, key: Keys, hook: Hooks, snap: Policy \cup {NoPolicy},
        pol: Policy \cup {NoPolicy}, after: PCs, id: EvalIds \cup {Generated},
        cached: BOOLEAN]

Init ==
    /\ policies \in [Keys -> [ver: {0}, locked: BOOLEAN, schema: Schemas]
                              \cup {NoPolicy}]
    /\ subscribers = [x \in Keys \X Hooks |-> 0]
    /\ policyCache = [k \in Keys |-> NoEntry]
    /\ changes = 0
    /\ writes = 0
    /\ req = [p \in Procs |-> Idle]
    /\ results = [e \in EvalIds |-> NoEntry]

Set(p, r) == req' = [req EXCEPT ![p] = r]
Done(p) == req' = [req EXCEPT ![p] = Idle]

-----------------------------------------------------------------------------
(* Storage port. Every write to the policies collection is seen by the     *)
(* storage change listener, bounded by MaxPendingChanges.                  *)

SetPolicyLock(k, lock) ==
    /\ changes < MaxPendingChanges
    /\ policies' = [policies EXCEPT ![k].locked = lock]
    /\ changes' = changes + 1

SavePolicy(k, pol) ==
    /\ changes < MaxPendingChanges
    /\ policies' = [policies EXCEPT ![k] = pol]
    /\ changes' = changes + 1

\* The listener calls RegoCache.PolicyDataChange, which purges the cache.
PolicyDataChange ==
    /\ changes > 0
    /\ policyCache' = [k \in Keys |-> NoEntry]
    /\ changes' = changes - 1
    /\ UNCHANGED <<policies, subscribers, writes, req, results>>

-----------------------------------------------------------------------------
(* Handler entry points: a handler that is idle accepts a request.         *)

Start(p, op, k, id, pc, after) ==
    /\ req[p].pc = "idle"
    /\ Set(p, [Idle EXCEPT !.op = op, !.key = k, !.id = id, !.pc = pc,
                           !.after = after])

(* Evaluate and Validate take the caller's evaluationID, or a fresh UUID.  *)
(* Entries under a fresh UUID are never read by the service and no caller *)
(* reuses them, so the result cache keeps only the caller-supplied ones.   *)
Evaluate(p, k, id) ==
    /\ Start(p, "evaluate", k, id, "get", "eval")
    /\ UNCHANGED <<policies, subscribers, policyCache, changes, writes, results>>

Validate(p, k, id) ==
    /\ Start(p, "validate", k, id, "get", "schema")
    /\ UNCHANGED <<policies, subscribers, policyCache, changes, writes, results>>

Lock(p, k) ==
    /\ writes < MaxWrites
    /\ Start(p, "lock", k, Generated, "lk_read", "idle")
    /\ writes' = writes + 1
    /\ UNCHANGED <<policies, subscribers, policyCache, changes, results>>

Unlock(p, k) ==
    /\ writes < MaxWrites
    /\ Start(p, "unlock", k, Generated, "ul_read", "idle")
    /\ writes' = writes + 1
    /\ UNCHANGED <<policies, subscribers, policyCache, changes, results>>

SubscribeForPolicyChange(p, k, h) ==
    /\ req[p].pc = "idle"
    /\ Set(p, [Idle EXCEPT !.op = "subscribe", !.key = k, !.hook = h,
                           !.pc = "sb_check"])
    /\ UNCHANGED <<policies, subscribers, policyCache, changes, writes, results>>

(* ImportBundle: a bundle that fails to unzip, has the wrong number of     *)
(* files or fails signature verification changes nothing; a verified one   *)
(* is saved as the policy its metadata names, unlocked, with whatever      *)
(* output schema it carries.                                               *)
ImportBundle(p, k) ==
    /\ req[p].pc = "idle"
    /\ writes < MaxWrites
    /\ writes' = writes + 1
    /\ \E schema \in Schemas :
          SavePolicy(k, [ver |-> writes + 1, locked |-> FALSE, schema |-> schema])
    /\ UNCHANGED <<subscribers, policyCache, req, results>>


-----------------------------------------------------------------------------
(* retrievePolicy: policyCache.Get; on a miss Storage.Policy, then         *)
(* policyCache.Set of the snapshot read. Storage and cache are separate    *)
(* calls, so other handlers and the listener run between them.            *)

RetrieveGet(p) ==
    LET r == req[p] IN
    /\ r.pc = "get"
    /\ \/ /\ policyCache[r.key] # NoEntry
          /\ Set(p, [r EXCEPT !.snap = policyCache[r.key], !.pc = r.after])
       \/ /\ policyCache[r.key] = NoEntry
          /\ Set(p, [r EXCEPT !.pc = "fetch"])
    /\ UNCHANGED <<policies, subscribers, policyCache, changes, writes, results>>

\* Mutant: NotFound does not return early; the missing policy is cached.
RetrieveFetchCachesNotFound(p) ==
    LET r == req[p] IN
    /\ r.pc = "fetch"
    /\ \/ Set(p, [r EXCEPT !.snap = policies[r.key], !.pc = "set"])
       \/ StorageFails /\ Done(p)
    /\ UNCHANGED <<policies, subscribers, policyCache, changes, writes, results>>

RetrieveFetch(p) ==
    LET r == req[p] IN
    /\ r.pc = "fetch"
    /\ \/ /\ policies[r.key] # NoPolicy
          /\ Set(p, [r EXCEPT !.snap = policies[r.key], !.pc = "set"])
       \/ /\ policies[r.key] = NoPolicy \/ StorageFails
          /\ Done(p)   \* NotFound, or any other storage error
    /\ UNCHANGED <<policies, subscribers, policyCache, changes, writes, results>>

RetrieveSet(p) ==
    LET r == req[p] IN
    /\ r.pc = "set"
    /\ policyCache' = [policyCache EXCEPT ![r.key] = r.snap]
    /\ Set(p, [r EXCEPT !.pc = r.after])
    /\ UNCHANGED <<policies, subscribers, changes, writes, results>>

(* Validate: the policy it retrieved first supplies the output schema and  *)
(* is kept as pol; Evaluate then retrieves the policy again.               *)
ValidateSchema(p) ==
    LET r == req[p] IN
    /\ r.pc = "schema"
    /\ \/ /\ r.snap.schema = "none"
          /\ Done(p)   \* BadRequest: no output schema
       \/ /\ r.snap.schema # "none"
          /\ Set(p, [r EXCEPT !.pol = r.snap, !.snap = NoPolicy,
                              !.pc = "get", !.after = "eval"])
    /\ UNCHANGED <<policies, subscribers, policyCache, changes, writes, results>>

(* prepareQuery after retrievePolicy: Forbidden on a locked snapshot;    *)
(* otherwise buildRegoArgs (a static-data parse error fails) and           *)
(* PrepareForEval (a compile error fails).                                 *)
PrepareQuery(p) ==
    LET r == req[p] IN
    /\ r.pc = "eval"
    /\ \/ /\ r.snap.locked
          /\ Done(p)   \* Forbidden: policy is locked
       \/ /\ ~r.snap.locked
          /\ \/ Done(p)   \* error building args or preparing the query
             \/ Set(p, [r EXCEPT !.pc = "run"])
    /\ UNCHANGED <<policies, subscribers, policyCache, changes, writes, results>>

\* Cache.Set(evaluationID, "", "", result, ttl) overwrites any entry.
StoreResult(id, v) ==
    results' = IF id \in EvalIds THEN [results EXCEPT ![id] = v] ELSE results

(* Evaluate after prepareQuery: query.Eval, the empty-result checks, the   *)
(* "$0" unwrap and json.Marshal may fail the request before the cache is   *)
(* written.  Then cache.Set under the evaluationID: ServiceUnavailable is  *)
(* swallowed and the result returned uncached; any other cache error fails *)
(* the request.  Evaluate returns; Validate continues to the schema.       *)
EvalResult(p) ==
    LET r == req[p]
        Return(c) == IF r.op = "validate"
                     THEN Set(p, [r EXCEPT !.pc = "check", !.cached = c])
                     ELSE Done(p)
    IN
    /\ r.pc = "run"
    /\ \/ Done(p) /\ UNCHANGED results   \* an error before or in cache.Set
       \/ StoreResult(r.id, r.snap.ver) /\ Return(TRUE)
       \/ UNCHANGED results /\ Return(FALSE)   \* ServiceUnavailable
    /\ UNCHANGED <<policies, subscribers, policyCache, changes, writes>>

(* Validate after Evaluate: jsonschema.CompileString of the OutputSchema   *)
(* of pol fails; the request fails with nothing else changed.              *)
ValidateSchemaError(p) ==
    /\ req[p].pc = "check"
    /\ req[p].pol.schema = "invalid"
    /\ Done(p)
    /\ UNCHANGED <<policies, subscribers, policyCache, changes, writes, results>>

\* The schema compiles and the result satisfies it.
ValidateResultValid(p) ==
    /\ req[p].pc = "check"
    /\ req[p].pol.schema = "valid"
    /\ Done(p)
    /\ UNCHANGED <<policies, subscribers, policyCache, changes, writes, results>>

(* The result violates the schema: with validationLock, s.lock(ctx, pol)   *)
(* on the snapshot retrieved before Evaluate; its error is only logged.    *)
ValidateResultInvalid(p) ==
    LET r == req[p] IN
    /\ r.pc = "check"
    /\ r.pol.schema = "valid"
    /\ \/ /\ ~ValidationLock \/ r.pol.locked   \* no lock, or "already locked"
          /\ UNCHANGED <<policies, changes>>
       \/ /\ ValidationLock /\ ~r.pol.locked
          /\ SetPolicyLock(r.key, TRUE)
       \/ /\ ValidationLock /\ ~r.pol.locked /\ StorageFails
          /\ UNCHANGED <<policies, changes>>   \* SetPolicyLock fails
    /\ Done(p)
    /\ UNCHANGED <<subscribers, policyCache, writes, results>>

-----------------------------------------------------------------------------
(* Lock and Unlock read the policy from Storage, not from the cache, then  *)
(* call SetPolicyLock unless it is already in the requested state.         *)

ReadForLock(p, next) ==
    LET r == req[p] IN
    /\ \/ /\ policies[r.key] # NoPolicy
          /\ Set(p, [r EXCEPT !.pol = policies[r.key], !.pc = next])
       \/ /\ policies[r.key] = NoPolicy \/ StorageFails
          /\ Done(p)   \* NotFound, or any other storage error
    /\ UNCHANGED <<policies, subscribers, policyCache, changes, writes, results>>

LockRead(p) == req[p].pc = "lk_read" /\ ReadForLock(p, "lk_write")

UnlockRead(p) == req[p].pc = "ul_read" /\ ReadForLock(p, "ul_write")

WriteLock(p, lock) ==
    LET r == req[p] IN
    /\ \/ /\ r.pol.locked = lock
          /\ UNCHANGED <<policies, changes>>   \* Forbidden
       \/ /\ r.pol.locked # lock
          /\ SetPolicyLock(r.key, lock)
       \/ /\ r.pol.locked # lock /\ StorageFails
          /\ UNCHANGED <<policies, changes>>   \* SetPolicyLock fails
    /\ Done(p)
    /\ UNCHANGED <<subscribers, policyCache, writes, results>>

LockWrite(p) == req[p].pc = "lk_write" /\ WriteLock(p, TRUE)

UnlockWrite(p) == req[p].pc = "ul_write" /\ WriteLock(p, FALSE)

-----------------------------------------------------------------------------
(* SubscribeForPolicyChange: Storage.Policy and Storage.Subscriber, then   *)
(* CreateSubscriber if no subscriber was found.                            *)

SubscribeCheck(p) ==
    LET r == req[p] IN
    /\ r.pc = "sb_check"
    /\ \/ /\ policies[r.key] # NoPolicy
          /\ subscribers[<<r.key, r.hook>>] = 0
          /\ Set(p, [r EXCEPT !.pc = "sb_create"])
       \/ /\ \/ policies[r.key] = NoPolicy
             \/ subscribers[<<r.key, r.hook>>] > 0
             \/ StorageFails
          /\ Done(p)   \* NotFound, Exist, or a storage error
    /\ UNCHANGED <<policies, subscribers, policyCache, changes, writes, results>>

SubscribeCreate(p) ==
    LET r == req[p] IN
    /\ r.pc = "sb_create"
    /\ \/ subscribers' = [subscribers EXCEPT ![<<r.key, r.hook>>] = @ + 1]
       \/ StorageFails /\ UNCHANGED subscribers   \* CreateSubscriber fails
    /\ Done(p)
    /\ UNCHANGED <<policies, policyCache, changes, writes, results>>

-----------------------------------------------------------------------------
Step(p) ==
    \/ RetrieveGet(p) \/ RetrieveFetch(p) \/ RetrieveSet(p)
    \/ ValidateSchema(p) \/ PrepareQuery(p) \/ EvalResult(p)
    \/ ValidateSchemaError(p) \/ ValidateResultValid(p) \/ ValidateResultInvalid(p)
    \/ LockRead(p) \/ LockWrite(p) \/ UnlockRead(p) \/ UnlockWrite(p)
    \/ SubscribeCheck(p) \/ SubscribeCreate(p)

Request(p) ==
    \E k \in Keys :
        \/ \E id \in EvalIds \cup {Generated} : Evaluate(p, k, id) \/ Validate(p, k, id)
        \/ Lock(p, k) \/ Unlock(p, k)
        \/ ImportBundle(p, k)
        \/ \E h \in Hooks : SubscribeForPolicyChange(p, k, h)

Next ==
    \/ \E p \in Procs : Request(p) \/ Step(p)
    \/ PolicyDataChange

\* The change listener runs for the life of the service; handlers may stall.
Spec == Init /\ [][Next]_vars /\ WF_vars(PolicyDataChange)

-----------------------------------------------------------------------------
TypeOK ==
    /\ policies \in [Keys -> Policy \cup {NoPolicy}]
    /\ subscribers \in [Keys \X Hooks -> Nat]
    /\ policyCache \in [Keys -> Policy \cup {NoEntry}]
    /\ changes \in 0..MaxPendingChanges
    /\ writes \in 0..MaxWrites
    /\ req \in [Procs -> Req]
    /\ results \in [EvalIds -> Results \cup {NoEntry}]


\* The snapshot cached under k is not the policy Storage holds.
Stale(k) == policyCache[k] \notin {NoEntry, policies[k]}

(* The cache may lag Storage only while the change listener still has an   *)
(* event to deliver: once no change event is pending and no handler is     *)
(* between Storage.Policy and policyCache.Set in retrievePolicy, every     *)
(* cached snapshot is the stored policy (spec 4.1, 5: at most one tick of  *)
(* staleness).                                                             *)
CacheFreshWhenQuiescent ==
    (changes = 0 /\ \A p \in Procs : req[p].pc # "set")
        => \A k \in Keys : ~Stale(k)

(* Lock and Unlock answer success only to the request that changed the    *)
(* lock: a successful SetPolicyLock from LockWrite/UnlockWrite finds the   *)
(* stored policy in the opposite state ("Forbidden if state already        *)
(* matches", spec 4.2).                                                    *)
LockSucceeds(p, lock) ==
    /\ req[p].pc = IF lock THEN "lk_write" ELSE "ul_write"
    /\ req'[p] = Idle
    /\ changes' = changes + 1

LockChangesState ==
    [][\A p \in Procs, lock \in BOOLEAN :
          LockSucceeds(p, lock) => policies[req[p].key].locked # lock]_vars

(* With validationLock set, a Validate that reports a schema violation     *)
(* leaves the policy locked in Storage (spec 4.2, 8 scenario 4).           *)
ValidationFailureLocks ==
    [][\A p \in Procs :
          (ValidationLock /\ ValidateResultInvalid(p))
              => policies'[req[p].key].locked]_vars

(* Validate compiles the output schema before it invokes Evaluate (spec    *)
(* 4.2): a Validate whose schema does not compile fails before Evaluate's  *)
(* cache.Set has stored a result under the caller's evaluationID.          *)
SchemaCompiledBeforeEvaluate ==
    \A p \in Procs :
        (req[p].op = "validate" /\ req[p].pol # NoPolicy
            /\ req[p].pol.schema = "invalid") => ~req[p].cached

(* SubscribeForPolicyChange never creates a second Subscriber for the same *)
(* policy, webhook and name (spec 8).                                      *)
NoDuplicateSubscribers == \A x \in Keys \X Hooks : subscribers[x] <= 1

=============================================================================
