# TLA+ models of custom-policy-agent

These modules model the policy decision service in
`src/internal/service/policy`. It stores Rego policies under
(repository, group, name, version), evaluates them on request, locks and
unlocks them, imports signed bundles and keeps subscribers.

## 1. Inventory

| Component | Source | State | Operations | Interacts with |
|---|---|---|---|---|
| Evaluation service | `service.go` Evaluate, Validate, Lock, Unlock, ListPolicies, SubscribeForPolicyChange, prepareQuery, retrievePolicy | none of its own; per-request locals (the retrieved snapshot) | one handler per HTTP request, all concurrent | Storage, RegoCache, result Cache |
| Compiled-policy cache (RegoCache) | interface in `service.go:42`; implementation not under src/ (tests in `regocache_test.go`) | map key -> policy snapshot | Get, Set, Purge, PolicyDataChange (= Purge) | filled by retrievePolicy, purged by the storage change listener |
| Cache key | `service.go:699` queryCacheKey | none | `repo,group,name,version` | RegoCache |
| Storage port | `storage.go` (interface only) | policies, subscribers, auto-import configs, data | Policy, SavePolicy, SetPolicyLock, Subscriber, CreateSubscriber, ..., ListenPolicyDataChanges | every handler; emits change events to its PolicySubscribers |
| Bundle service | `service.go` ExportBundle, PolicyPublicKey, ImportBundle | none | export = zip + sign; import = unzip + verify + SavePolicy | Storage, Signer, HTTP (key URL) |
| Auto-import | `service.go` SetPolicyAutoImport, PolicyAutoImport, DeletePolicyAutoImport; loop `StartAutoImporter` started at `service.go:93` (loop not under src/) | configs (url, interval, nextImport) in Storage | save, list, delete; periodic import of due configs | Storage, HTTP, ImportBundle |
| Change notifier | not under src/ | subscribers in Storage | POST to webhooks on change | Storage listener |
| Header context, rego functions, health, signer fake | `header_test.go`, `health/service.go`, `policyfakes` | none | pure functions / constants / generated | — |

**What is hard.** Every handler runs on its own goroutine. The only
process-wide mutable state is RegoCache. Storage operations and cache
operations are separate calls with no lock held across them. The cache is
invalidated asynchronously: a write to Storage produces a change event, and
a listener goroutine later calls `PolicyDataChange`, which purges the whole
cache. The hazards come from three patterns:

- **Check-then-act.** The code reads, decides, then writes: retrievePolicy
  (read, then Set), Lock/Unlock (read Locked, then SetPolicyLock) and
  Subscribe (lookup, then create).
- **Stale snapshots.** A value read earlier is used later: Validate's `pol`,
  and the cached snapshot that prepareQuery checks for Locked.
- **Key encoding.** The string cache key can collide.

`PROJECT.json` lists each hazard at its line.

**What makes each component correct.**
- **RegoCache:** a snapshot may lag Storage only while an invalidation is
  still on its way (spec §4.1, §5). Distinct policies never share a key.
- **Lock/Unlock:** success only when the call changed the state (spec §4.2).
  A locked policy is not evaluated once the change has propagated.
- **Validate:** the schema is compiled before Evaluate runs (spec §4.2). With `validationLock`, a schema failure leaves the policy
  locked (spec §8, scenario 4).
- **Subscribe:** never creates duplicates (spec §8).
- **Auto-import:** every due config is eventually imported. A deleted
  config stays deleted.
- **Bundles:** export followed by import yields the same policy, and a
  tampered signature is rejected.

## 2. Modules and how they map to the code

### PolicyService.tla (with MCPolicyService.tla)

This is the core. It models the handlers that share state as processes
`Procs`, with a program counter `req[p].pc` and one action per step between
calls that touch shared state:

| Code | Action(s) |
|---|---|
| Evaluate (request accepted) | `Evaluate` |
| Validate (request accepted) | `Validate` |
| retrievePolicy: `policyCache.Get` | `RetrieveGet` |
| retrievePolicy: `storage.Policy` | `RetrieveFetch` |
| retrievePolicy: `policyCache.Set` | `RetrieveSet` |
| Validate: schema check on the first snapshot | `ValidateSchema` |
| prepareQuery: Forbidden on a locked snapshot, buildRegoArgs, PrepareForEval | `PrepareQuery` |
| Evaluate after prepareQuery: Eval, empty checks, `$0` unwrap, Marshal, `cache.Set` | `EvalResult` (the write is `StoreResult`) |
| Validate after Evaluate: `jsonschema.CompileString` fails | `ValidateSchemaError` |
| schema validation of the result | `ValidateResultValid` |
| schema failure with the `s.lock(ctx, pol)` auto-lock | `ValidateResultInvalid` |
| Lock: `storage.Policy` | `LockRead` |
| Lock: `lock` (check + SetPolicyLock) | `LockWrite` |
| Unlock: `storage.Policy` | `UnlockRead` |
| Unlock: check + SetPolicyLock | `UnlockWrite` |
| Subscribe: Policy + Subscriber lookup | `SubscribeCheck` |
| Subscribe: CreateSubscriber | `SubscribeCreate` |
| ImportBundle (one step: verification failure changes nothing; success is SavePolicy) | `ImportBundle` |
| storage change listener -> RegoCache.PolicyDataChange (purge) | `PolicyDataChange` |

The state is:
- `policies` and `subscribers`: Storage.
- `policyCache`: RegoCache.
- `changes`: undelivered change events.
- `req`: the locals of each handler, including the evaluationID and whether
  its own `cache.Set` succeeded (`cached`).
- `results`: the result cache (Cache port), evaluationID -> result.

A policy is abstracted to a version number, `Locked`, and the kind of its
`OutputSchema`: none, one that compiles, or one that does not (`Schemas`).
A result is the version of the policy that computed it. Rule text and input
are not modelled, because no property tells them apart.

An evaluationID is the caller's (`EvalIds`) or a fresh UUID (`Generated`).
The service never reads the result cache, and no caller knows a fresh UUID
before the response, so only entries under caller-supplied IDs are kept.

Other modelling choices:
- **Evaluation outcomes.** The rule engine appears only as an outcome:
  success, or an error that ends the request. `cache.Set` either stores the
  result, or fails with ServiceUnavailable (swallowed, the result is
  returned uncached), or fails otherwise (the request fails). Whether a
  result satisfies a compiled schema is a free choice.
- **Storage errors.** Every Storage call may fail when `StorageFails` is TRUE.
- **Spec-modelled parts.** Three parts are not under src/, so they are
  modelled from spec §4.1 and §5 and marked `spec_modelled` in the map:
  - SavePolicy and SetPolicyLock produce one change event each.
  - The listener purges the whole cache per event.
  - An imported policy is saved unlocked.

**Fairness.** The only fairness is `WF_vars(PolicyDataChange)`: the listener
goroutine runs for the life of the service. Handlers get no fairness,
because a request may stall or be abandoned.

**Bounds.**
- One key suffices: the purge is whole-cache, and every race here is about
  a single policy.
- `MaxWrites = 3` (Lock, Unlock and import requests) allows an import, a
  lock and an unlock in one behaviour (2 in `validate_order`, which needs
  none).
- `MaxPendingChanges = 2` lets two writes be outstanding before the listener
  runs. A write waits while the queue is full; it is not dropped.
- All initial lock and schema states are enumerated, including a missing
  policy.
- Handlers are symmetric model values, so the two-handler safety runs use
  `ProcSymmetry`.

### QueryCacheKey.tla

The pure `queryCacheKey` operator, written as sequence concatenation with
the `,` separator. The run checks that two coordinates share a key only if
they are equal. It enumerates all pairs of coordinates built from
non-empty strings of up to 2 characters (1.7M states), which includes every
way a separator could be moved between components.

### AutoImport.tla (with MCAutoImport.tla)

| Code | Action |
|---|---|
| SetPolicyAutoImport: ParseDuration, SaveAutoImportConfig(NextImport = now + interval) | `SetPolicyAutoImport` |
| DeletePolicyAutoImport: `storage.AutoImportConfig` (NotFound ends the request) | `DeleteRead` |
| DeletePolicyAutoImport: `storage.DeleteAutoImportConfig` | `DeleteConfig` |
| scheduler tick: ActiveImportConfigs (spec §4.4) | `SchedTick` |
| import of one due config: success saves it with NextImport = now + interval | `SchedImportOk` |
| import failure: the config stays due for the next tick | `SchedImportFail` |
| the wall clock | `Tick` |

The state is:
- `configs`: Storage.
- `now`: a discrete clock bounded by `MaxTime`.
- `sched`: the scheduler's pc and the batch of configs it read.
- `req`: the DeletePolicyAutoImport handlers between their two calls.
- `wanted`: a history variable, the user's last successful request per URL.

An interval is the value ParseDuration returned, in clock ticks. `Invalid`
is an unparseable string. PolicyAutoImport only reads, so it has no action.

The scheduler's loop is not under src/. Spec §4.4 says a successful import
"updates nextImport". The Storage port has no update operation, only
`SaveAutoImportConfig`, which also serves SetPolicyAutoImport for changing
an interval. So the model writes back the config the tick read, with the
new NextImport. These definitions are marked `spec_modelled`.

**Fairness.** The scheduler's own steps get weak fairness: it runs for the
life of the service and serializes its ticks. Each URL's successful import
gets strong fairness. This is an assumption about the environment: a
bundle server that is tried infinitely often eventually answers. Handlers
and the clock are not fair. Under these assumptions and positive intervals,
DueConfigEventuallyImported follows directly from `Advance`, so it is only
checked where the code can break it: `autoimport_zero`, with the zero and
negative durations ParseDuration accepts.

**Bounds.**
- Two URLs, so that one batch holds two configs and a failure of one can
  precede the other.
- One handler: the races are between a handler and the scheduler.
- `MaxTime = 3` and intervals {1, 2} in the race run: a config is set,
  becomes due, is read by a tick and changed or deleted before the import
  writes it back.
- A .cfg cannot write negative literals, so `MCAutoImport` defines
  {-1, 0, 1} for the run `autoimport_zero`.

### Bundle.tla

Several service instances `Hosts`, each with its own Storage and Signer.
Host `Self` imports.

| Code | Definition |
|---|---|
| ExportBundle: Policy, export config (Forbidden without one), createPolicyBundle, SHA-256, Sign, outer zip | `ExportBundle` |
| PolicyPublicKey: Policy, export config, Signer.Key | `PolicyPublicKey` |
| ImportBundle: unzip, exactly two files, verifyBundle | `ImportBundle` |
| policyFromBundle + SavePolicy | `SaveImported` |

The codec is not under src/. It is modelled from spec §4.3 and §6 by what
it does, with injective constructors:
- the inner bundle records the coordinates, the policy and the
  verification key URL `<<host, coords>>`;
- a signature is the key paired with the digest;
- a flipped bit gives `BadSig`.

`verifyBundle` fetches the key from the URL in the bundle, i.e. it calls
PolicyPublicKey at the host the URL names, against that host's current
Storage.

The network hands ImportBundle any exported bundle, or one tampered by
whoever carries it (`Tampered`):
- a member dropped;
- the signature flipped;
- the policy replaced;
- the key URL re-pointed at another host.

`StorePolicy` is the external loader (spec 3) that creates and changes
policies and their ExportConfig at the other hosts, including key
rotation. The run uses one coordinate, two contents and two key ids, and
enumerates every initial Storage of both hosts.

## 3. Runs and what they show

| Run | Expect | Shows |
|---|---|---|
| `cache_race` (2 handlers) | violation | Handler A reads v0 from Storage. An import writes v1. The listener purges. A then Sets v0. The cache now serves v0 with no event left to remove it, so a later Lock or import is ignored by Evaluate until another change. This contradicts spec §4.1 ("will either miss the cache on insert-and-reread, or be overwritten"). |
| `lock_race` (2 handlers) | violation | **LockChangesState**: Unlock reads locked, then an import saves the policy unlocked, then Unlock writes and reports success although it changed nothing. Two concurrent Locks behave the same way. |
| `validate_lock` (1 handler) | violation | **ValidationFailureLocks**: Validate retrieves a stale locked snapshot from the cache as `pol`. The listener purges. Evaluate re-fetches the unlocked policy and runs. The result fails the schema. `s.lock(ctx, pol)` answers "already locked" (only logged), so the policy stays unlocked. |
| `validate_order` (1 handler, caller-supplied evaluationID) | violation | **SchemaCompiledBeforeEvaluate**: Validate retrieves a policy whose schema does not compile, calls Evaluate, whose `cache.Set` stores the result under the caller's evaluationID, and only then fails in `CompileString`. Spec §4.2 compiles the schema before invoking Evaluate, so the failed request would leave the result cache untouched. |
| `subscribe_race` (2 handlers) | violation | **NoDuplicateSubscribers**: both handlers find no Subscriber and both create one. |
| `core` (1 handler) | pass | TypeOK, with failing Storage calls, every schema kind and a caller-supplied evaluationID; every action of PolicyService fires (140k states). |
| `autoimport_race` | violation | **ConfigMatchesRequests**: the scheduler reads u (interval 1). The user sets interval 2. The import succeeds and saves the old config with interval 1. The same write-back re-creates a config deleted in between. |
| `autoimport_zero` | violation | **DueConfigEventuallyImported**: SetPolicyAutoImport saves interval -1 (or 0). NextImport = now + interval is never in the future, so the config is due on every tick for ever. |
| `bundle` | pass | **ImportedWasExported**: every bundle Self imports is one some ExportBundle returned, member for member. Dropped files, flipped signatures, replaced policies and re-pointed key URLs are refused (5.5k states). |
| `cache_key` | pass | **KeysIdentifyPolicies** for comma-free coordinates. |
| `cache_key_comma` | violation | `("a","a","a",",a")` and `("a","a","a,","a")` share a key. |

Each property of a passing run has a mutant in `PROJECT.json` that the run
detects:
- RetrieveFetch caching a NotFound policy breaks TypeOK.
- Dropping the separator breaks KeysIdentifyPolicies.
- ImportBundle continuing after a verification error breaks
  ImportedWasExported.

## 4. Plan

Modules in order of importance. Items 1 to 3, 5 and 8 are done; 4, 6 and 7 were dropped.

1. **PolicyService**: cache, Evaluate/Validate/Lock/Unlock/Subscribe/Import.
   *Done.*
2. **QueryCacheKey**: key injectivity. *Done.*
3. **AutoImport**: SetPolicyAutoImport, PolicyAutoImport and
   DeletePolicyAutoImport from the code, plus the `StartAutoImporter` loop
   from spec §4.4 (ticks, ActiveImportConfigs, import, advance NextImport,
   failure retried next tick). A discrete clock is bounded by `MaxTime`.
   Properties:
   - every due config is eventually imported (liveness; violated with
     non-positive intervals, `autoimport_zero`);
   - a deleted config is not re-created by a tick in flight;
   - NextImport never moves backwards.
   *Done* (the first two; the second is the violation `autoimport_race`.
   The third is subsumed by ConfigMatchesRequests.)
4. **PolicyCache refinement**: dropped. With one handler no write can fall
   between its Storage read and its cache insert, so every insert is a
   correct fill because of the bound alone; with two handlers the code does
   not refine it (`cache_race`). The abstract module is removed.
5. **Bundle**: ExportBundle/ImportBundle round trip, with signature and
   digest as model values and Signer as a function. Properties: the
   round-trip preserves the policy coordinates and fields, a flipped
   signature is rejected, and export without ExportConfig is Forbidden.
   *Done* as ImportedWasExported. Forbidden-without-ExportConfig restates a
   guard and is not a separate property.
6. **ListPolicies**: dropped; see section 5.
7. **Change notifier**: dropped; see section 5.
8. **Result cache and the schema compile step**: `results`, `StoreResult`
   and `ValidateSchemaError` in PolicyService; the run `validate_order`.
   *Done.*

## 5. Not modelled, and why

- The Rego language and its evaluation: out of scope (spec §1). Abstracted to
  success or failure.
- JSON Schema compilation and validation: abstracted to valid, invalid or
  uncompilable.
- ZIP encoding, SHA-256 and JWS signatures: bit-level codecs outside TLC's
  reach. The Bundle module treats them as injective constructors.
- HTTP transport, header middleware, logging, health endpoints, and the
  generated signer fake: no state or control that a property distinguishes.
- ListPolicies: the filtering is done by Storage.GetPolicies, which is not
  under src/. The handler copies fields and includes three optional fields
  on request. There is no state and nothing a property could get wrong
  beyond the copy.
- Collisions in the result cache (`service.go:171`): the cache is modelled,
  but it is only written here, and Cache.Set under a reused evaluationID is
  an overwrite, as the spec keys entries by that ID. Whether a reader of the
  entry is misled is a question about the client, which is not under src/.
- The change notifier (webhook delivery): it runs in the storage backend,
  which is not under src/. The parts src/ takes part in are modelled:
  SubscribeForPolicyChange, and the listener's purge (`PolicyDataChange`).
  A delivery model would come from the spec alone, with nothing under src/
  to check it against.
- PolicyAutoImport and buildRegoArgs: the first only reads the configs;
  the second's only effect is the error it may return, which is the error
  disjunct of `PrepareQuery`. Neither has state of its own.
- The auto-importer's import is not composed with PolicyService. Its effect
  on policies and the cache is the ImportBundle action already checked
  there.
- Trust in the exporting host: any instance whose key URL verifies can
  overwrite any coordinates (hazard at `service.go:440`). Spec §11 leaves
  trust in the hostname to the operator, so no property states which hosts
  should be accepted.
