----------------------------- MODULE AutoImport -----------------------------
(***************************************************************************)
(* Automatic bundle import: the handlers SetPolicyAutoImport and           *)
(* DeletePolicyAutoImport of service.go, which write the auto-import       *)
(* configurations in Storage, and the background scheduler started by     *)
(* New (service.go:93), whose loop is not under src/ and is modelled from  *)
(* spec section 4.4.  PolicyAutoImport only reads the configurations and   *)
(* changes no state, so it has no action.                                  *)
(*                                                                         *)
(* Time is a discrete clock `now`.  An interval is what time.ParseDuration *)
(* returned for the request, in clock ticks; `Invalid` stands for a string *)
(* ParseDuration rejects.                                                  *)
(***************************************************************************)
EXTENDS Integers, FiniteSets

CONSTANTS
    Urls,          \* policy bundle URLs (model values)
    Procs,         \* concurrent request handlers
    Intervals,     \* the durations ParseDuration may return for a request
    Invalid,       \* a request interval ParseDuration rejects
    None,          \* no configuration stored for the URL
    MaxTime        \* bound on the clock

ASSUME Intervals \subseteq Int /\ MaxTime \in Nat

VARIABLES
    configs,   \* Storage: url -> [interval, next] or None
    now,       \* wall clock
    sched,     \* the scheduler goroutine: pc, the due configs it read
    req,       \* locals of each DeletePolicyAutoImport handler
    wanted     \* history: the interval of the last successful Set, or None
               \* after a successful Delete (what the user asked for)

vars == <<configs, now, sched, req, wanted>>

Idle == [pc |-> "idle", url |-> None]

Init ==
    /\ configs = [u \in Urls |-> None]
    /\ now = 0
    /\ sched = [pc |-> "idle", batch |-> <<>>]
    /\ req = [p \in Procs |-> Idle]
    /\ wanted = [u \in Urls |-> None]

(* Storage.SaveAutoImportConfig stores the config for its URL, replacing  *)
(* any config stored for it: SetPolicyAutoImport is also how a user       *)
(* changes an interval, so the port has upsert semantics.                 *)
SaveAutoImportConfig(u, c) == configs' = [configs EXCEPT ![u] = c]

(* Storage.ActiveImportConfigs: the configs whose NextImport <= now.      *)
ActiveImportConfigs ==
    [u \in {v \in Urls : configs[v] # None /\ configs[v].next <= now}
        |-> configs[u]]

Due(u) == configs[u] # None /\ configs[u].next <= now

----------------------------------------------------------------------------
(* Request handlers.                                                       *)

(* SetPolicyAutoImport: ParseDuration; an error is BadRequest and nothing  *)
(* is saved; otherwise SaveAutoImportConfig with NextImport = now +        *)
(* interval.  A storage error on the save also leaves the state as it is.  *)
SetPolicyAutoImport(p, u, iv) ==
    /\ req[p].pc = "idle"
    /\ iv # Invalid
    /\ SaveAutoImportConfig(u, [interval |-> iv, next |-> now + iv])
    /\ wanted' = [wanted EXCEPT ![u] = iv]
    /\ UNCHANGED <<now, sched, req>>

(* DeletePolicyAutoImport, first call: Storage.AutoImportConfig(url).  A   *)
(* missing config is an error that ends the request.                       *)
DeleteRead(p, u) ==
    /\ req[p].pc = "idle"
    /\ configs[u] # None
    /\ req' = [req EXCEPT ![p] = [pc |-> "del_delete", url |-> u]]
    /\ UNCHANGED <<configs, now, sched, wanted>>

(* DeletePolicyAutoImport, second call: Storage.DeleteAutoImportConfig.    *)
DeleteConfig(p) ==
    /\ req[p].pc = "del_delete"
    /\ configs' = [configs EXCEPT ![req[p].url] = None]
    /\ wanted' = [wanted EXCEPT ![req[p].url] = None]
    /\ req' = [req EXCEPT ![p] = Idle]
    /\ UNCHANGED <<now, sched>>

----------------------------------------------------------------------------
(* The scheduler (spec 4.4): one goroutine, ticks serialized.              *)

(* A tick reads ActiveImportConfigs.  A tick that finds nothing due        *)
(* changes nothing and is a stutter step.                                  *)
SchedTick ==
    /\ sched.pc = "idle"
    /\ ActiveImportConfigs # <<>>
    /\ sched' = [pc |-> "import", batch |-> ActiveImportConfigs]
    /\ UNCHANGED <<configs, now, req, wanted>>

(* Next config of the batch.  Success advances the config it read to      *)
(* now + interval through SaveAutoImportConfig; failure leaves it due for *)
(* the next tick.                                                          *)
Advance(u) == [sched.batch[u] EXCEPT !.next = now + sched.batch[u].interval]

Forget(u) ==
    LET rest == {v \in DOMAIN sched.batch : v # u}
    IN  sched' = IF rest = {} THEN [pc |-> "idle", batch |-> <<>>]
                 ELSE [pc |-> "import", batch |-> [v \in rest |-> sched.batch[v]]]

SchedImportOk(u) ==
    /\ sched.pc = "import"
    /\ u \in DOMAIN sched.batch
    /\ SaveAutoImportConfig(u, Advance(u))
    /\ Forget(u)
    /\ UNCHANGED <<now, req, wanted>>

SchedImportFail(u) ==
    /\ sched.pc = "import"
    /\ u \in DOMAIN sched.batch
    /\ Forget(u)
    /\ UNCHANGED <<configs, now, req, wanted>>

SchedImport == \E u \in Urls : SchedImportOk(u) \/ SchedImportFail(u)

(* The wall clock advances.                                                *)
Tick ==
    /\ now < MaxTime
    /\ now' = now + 1
    /\ UNCHANGED <<configs, sched, req, wanted>>

Next ==
    \/ \E p \in Procs, u \in Urls :
          \/ \E iv \in Intervals \cup {Invalid} : SetPolicyAutoImport(p, u, iv)
          \/ DeleteRead(p, u)
    \/ \E p \in Procs : DeleteConfig(p)
    \/ SchedTick
    \/ SchedImport
    \/ Tick

(* The scheduler goroutine runs for the life of the service; a bundle URL *)
(* that is tried infinitely often eventually answers.  Handlers and the   *)
(* clock get no fairness.                                                  *)
Spec ==
    /\ Init /\ [][Next]_vars
    /\ WF_vars(SchedTick) /\ WF_vars(SchedImport)
    /\ \A u \in Urls : SF_vars(SchedImportOk(u))

----------------------------------------------------------------------------
(* Properties.                                                             *)

(* The scheduler (spec 4.4) eventually imports every config that is due:  *)
(* the import advances NextImport past now, or the user deletes or resets  *)
(* the config.  SetPolicyAutoImport accepts whatever ParseDuration returns *)
(* as the interval, so this depends on what the request may carry.         *)
DueConfigEventuallyImported == \A u \in Urls : Due(u) ~> ~Due(u)

(* Storage holds, for each URL, exactly what the user last asked for: no   *)
(* config after a successful DeletePolicyAutoImport, and the interval of   *)
(* the last successful SetPolicyAutoImport otherwise.  The scheduler's     *)
(* write-back of the config it read at the tick must not undo either.      *)
ConfigMatchesRequests ==
    \A u \in Urls :
        IF wanted[u] = None THEN configs[u] = None
        ELSE configs[u] # None /\ configs[u].interval = wanted[u]

============================================================================
