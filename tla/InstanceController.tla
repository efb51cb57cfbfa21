-------------------------- MODULE InstanceController --------------------------
(***************************************************************************)
(* internal/controller/keylineinstance_controller.go and keylineconfig.go: *)
(* the reconciler of one KeylineInstance, the objects it creates and owns  *)
(* (credentials Secret, config Secret, keys PVC, Service, Deployment), and *)
(* the pods Kubernetes runs for that Deployment.                           *)
(*                                                                         *)
(* Replicas are the operator processes.  Leader election normally leaves   *)
(* one at work; a second one stands for a deposed leader in the middle of  *)
(* a pass, or for a manager started without --leader-elect.                *)
(*                                                                         *)
(* Each replica reads owned objects from its own cache and writes them     *)
(* directly.  stale[r] names the objects of which r missed the last write, *)
(* which is what a resourceVersion tells an Update.  The instance's spec   *)
(* and the referenced Secrets are written by others only; a late read of   *)
(* them is a late edit, so they have no cached copy.                       *)
(*                                                                         *)
(* A config is the record of what buildKeylineConfig puts into             *)
(* config.yaml; its sha256 is taken to be injective, so that a hash is the *)
(* config it was computed from.  A spec is a number standing for all of    *)
(* its text, of which the config has the part that tells it from another;  *)
(* which branches of the code it takes is given by sets of specs.          *)
(***************************************************************************)
EXTENDS Naturals, FiniteSets, StatusPatcher

CONSTANTS
    Replicas,
    Specs,            \* the specs, numbered in the order they are submitted
    PostgresSpecs,    \* database.mode is "postgres"
    VaultSpecs,       \* keyStore.mode is "vault"; "directory" otherwise
    MissingPostgres,  \* database.postgres is missing
    MissingVault,     \* keyStore.vault is missing
    Edits,            \* the pairs <<old, new>> of specs a client may submit
    Keys,             \* Ed25519 key pairs
    SecretValues,     \* what a referenced Secret may hold
    None,
    Failable,         \* the calls that may fail: see Calls
    Lagging,          \* the objects whose watch events may be late
    OthersDelete,     \* the owned objects that others may delete
    Budget            \* bound on each kind of environment step

Calls == {"Credentials", "CredentialsResponse", "ConfigSecret", "PVC", "Service",
          "Deployment", "Token", "StatusPatch"}
Objects == {"creds", "config", "pvc", "svc", "dep", "status"}
SecretNames == {"db", "vault"}
BudgetKinds == {"fault", "edit", "secret", "crash", "delete", "restart"}
Reasons == {"NoCondition", "CredentialsError", "InvalidSpec", "DBCredentialsError",
            "VaultTokenError", "ConfigSecretError", "PVCError", "ServiceError",
            "DeploymentError", "DeploymentNotAvailable", "TokenExchangeFailed",
            "Ready"}

ASSUME SpecsAssumption ==
    /\ Specs \subseteq Nat /\ Specs # {}
    /\ PostgresSpecs \subseteq Specs /\ VaultSpecs \subseteq Specs
    /\ MissingPostgres \subseteq PostgresSpecs /\ MissingVault \subseteq VaultSpecs
    /\ Edits \subseteq Specs \X Specs
ASSUME ValuesAssumption ==
    /\ None \notin Keys \cup SecretValues \cup Nat
    /\ Failable \subseteq Calls /\ Lagging \subseteq Objects
    /\ OthersDelete \subseteq {"creds", "config", "svc", "dep"}
    /\ Budget \in [BudgetKinds -> Nat]

VARIABLES
    spec,      \* the instance's spec
    secrets,   \* the Secrets that the spec refers to
    store,     \* the owned objects and the instance's status, at the API server
    cache,     \* each replica's informer copies of them
    stale,     \* each replica's objects with an undelivered watch event
    worker,    \* each replica's running Reconcile call
    pods,      \* the pods of the Deployment
    budget

vars == <<spec, secrets, store, cache, stale, worker, pods, budget>>

-----------------------------------------------------------------------------
(* Data *)

DirectorySpecs == Specs \ VaultSpecs

EmptyStatus == [url |-> FALSE, cond |-> NoCondition]

NoObjects == [creds |-> None, config |-> None, pvc |-> None, svc |-> None,
              dep |-> None, status |-> EmptyStatus]

\* keypair: the credentials the pass works with; config: what it built
Idle == [pc |-> "idle", spec |-> None, base |-> EmptyStatus, cur |-> EmptyStatus,
         keypair |-> None, config |-> None]

\* buildKeylineConfig: the database credentials and the Vault token enter the
\* file only in the modes that use them.
buildKeylineConfig(s, key, secret) ==
    [spec  |-> s,
     key   |-> key,
     db    |-> IF s \in PostgresSpecs THEN secret["db"] ELSE None,
     vault |-> IF s \in VaultSpecs THEN secret["vault"] ELSE None]

\* Recreate, so that the volume with the keys is released before it is needed.
RollingUpdate == "RollingUpdate"  \* mutant
Strategy == "Recreate"

-----------------------------------------------------------------------------
(* The API server *)

Spend(kind) ==
    /\ budget[kind] > 0
    /\ budget' = [budget EXCEPT ![kind] = @ - 1]

Faulty(call) == call \in Failable /\ Spend("fault")

\* Object o becomes v.  A write that changes nothing makes no new version.
Put(o, v) ==
    /\ store' = [store EXCEPT ![o] = v]
    /\ IF v = store[o] THEN UNCHANGED <<cache, stale>>
       ELSE IF o \in Lagging
       THEN /\ stale' = [r \in Replicas |-> stale[r] \cup {o}]
            /\ UNCHANGED cache
       ELSE /\ cache' = [r \in Replicas |-> [cache[r] EXCEPT ![o] = v]]
            /\ UNCHANGED stale

NoWrite == UNCHANGED <<store, cache, stale>>

\* The informer of r applies the event of object o.
Deliver(r, o) ==
    /\ o \in stale[r]
    /\ cache' = [cache EXCEPT ![r][o] = store[o]]
    /\ stale' = [stale EXCEPT ![r] = @ \ {o}]
    /\ UNCHANGED <<spec, secrets, store, worker, pods, budget>>

-----------------------------------------------------------------------------
(* Reconcile *)

SetNotReadyNoReason(r, reason) ==  \* mutant: the reason is lost
    worker' = [worker EXCEPT ![r].pc = "status",
                             ![r].cur = setNotReadyCondition(@, "")]

SetNotReady(r, reason) ==
    worker' = [worker EXCEPT ![r].pc = "status",
                             ![r].cur = setNotReadyCondition(@, reason)]

Goto(r, pc) == worker' = [worker EXCEPT ![r].pc = pc]

\* What no step of a pass changes.
PassFrame == UNCHANGED <<spec, secrets, pods>>

\* Every return of Reconcile asks for another run (RequeueAfter, or the
\* backoff after an error), so an idle replica can always begin a pass.
Begin(r) ==
    /\ worker[r].pc = "idle"
    /\ worker' = [worker EXCEPT ![r] =
                    [Idle EXCEPT !.pc = "creds", !.spec = spec,
                                 !.base = cache[r].status, !.cur = cache[r].status]]
    /\ NoWrite /\ UNCHANGED budget /\ PassFrame

WithKeypair(r, key) ==
    worker' = [worker EXCEPT ![r].pc = "build", ![r].keypair = key]

CredentialsExistIgnored(r, key) ==  \* mutant: goes on with the new pair
    WithKeypair(r, key) /\ NoWrite /\ UNCHANGED budget

\* The Secret is in the API server although the cache does not have it yet:
\* Create answers AlreadyExists.
CredentialsExist(r, key) ==
    /\ SetNotReady(r, "CredentialsError")
    /\ NoWrite /\ UNCHANGED budget

\* ensureCredentials: a pair is generated only when no Secret is found.
EnsureCredentials(r) ==
    /\ worker[r].pc = "creds"
    /\ \/ /\ cache[r].creds # None
          /\ WithKeypair(r, cache[r].creds)
          /\ NoWrite /\ UNCHANGED budget
       \/ /\ cache[r].creds = None
          /\ \E key \in Keys \ {store.creds} :
               \/ /\ store.creds = None
                  /\ Put("creds", key)
                  /\ WithKeypair(r, key)
                  /\ UNCHANGED budget
               \/ /\ store.creds # None
                  /\ CredentialsExist(r, key)
               \/ /\ store.creds = None
                  /\ Faulty("CredentialsResponse")
                  /\ Put("creds", key)
                  /\ SetNotReady(r, "CredentialsError")
       \/ /\ Faulty("Credentials")
          /\ SetNotReady(r, "CredentialsError")
          /\ NoWrite
    /\ PassFrame

\* Why resolveSecret or the checks around it end the pass: an empty set if
\* they do not.  The order is the code's: the database before the key store.
BuildFailures(s) ==
    IF s \in PostgresSpecs /\ s \in MissingPostgres THEN {"InvalidSpec"}
    ELSE IF s \in PostgresSpecs /\ secrets["db"] = None THEN {"DBCredentialsError"}
    ELSE IF s \in VaultSpecs /\ s \in MissingVault THEN {"InvalidSpec"}
    ELSE IF s \in VaultSpecs /\ secrets["vault"] = None THEN {"VaultTokenError"}
    ELSE {}

\* The referenced Secrets are read and the config is built.
BuildConfig(r) ==
    /\ worker[r].pc = "build"
    /\ IF BuildFailures(worker[r].spec) = {}
       THEN worker' = [worker EXCEPT
                ![r].pc = "config",
                ![r].config = buildKeylineConfig(worker[r].spec, worker[r].keypair, secrets)]
       ELSE \E reason \in BuildFailures(worker[r].spec) : SetNotReady(r, reason)
    /\ NoWrite /\ UNCHANGED budget /\ PassFrame

\* Create refuses an object that exists, Update one that was written since it
\* was cached.
Conflict(r, o) ==
    IF cache[r][o] = None THEN store[o] # None ELSE o \in stale[r]

\* One object of the pass: it is in place (pc), or the call failed (reason).
\* Update on an object that is gone answers NotFound.
Ensure(r, o, v, call, pc, reason) ==
    /\ \/ /\ ~Conflict(r, o)
          /\ Put(o, v)
          /\ Goto(r, pc)
          /\ UNCHANGED budget
       \/ /\ Conflict(r, o)
          /\ SetNotReady(r, reason)
          /\ NoWrite /\ UNCHANGED budget
       \/ /\ Faulty(call)
          /\ SetNotReady(r, reason)
          /\ NoWrite
    /\ PassFrame

\* The cached object is already what it should be: no call is made.
InPlace(r, pc) ==
    /\ Goto(r, pc)
    /\ NoWrite /\ UNCHANGED budget /\ PassFrame

AfterConfig(s) == IF s \in DirectorySpecs THEN "pvc" ELSE "svc"

\* mutant: an error of the call is ignored
EnsureConfigSecretAnyway(r) ==
    /\ worker[r].pc = "config"
    /\ \/ ~Conflict(r, "config") /\ Put("config", worker[r].config) /\ UNCHANGED budget
       \/ Conflict(r, "config") /\ NoWrite /\ UNCHANGED budget
       \/ Faulty("ConfigSecret") /\ NoWrite
    /\ Goto(r, AfterConfig(worker[r].spec))
    /\ PassFrame

EnsureConfigSecret(r) ==
    LET w == worker[r] IN
    /\ w.pc = "config"
    /\ IF cache[r].config = w.config
       THEN InPlace(r, AfterConfig(w.spec))
       ELSE Ensure(r, "config", w.config, "ConfigSecret", AfterConfig(w.spec),
                   "ConfigSecretError")

EnsurePVC(r) ==
    /\ worker[r].pc = "pvc"
    /\ IF cache[r].pvc # None THEN InPlace(r, "svc")
       ELSE Ensure(r, "pvc", "exists", "PVC", "svc", "PVCError")

\* The ports it sets lack the target port that the API server fills in, so the
\* Service always differs from the cached one and the Update is always sent.
EnsureService(r) ==
    /\ worker[r].pc = "svc"
    /\ Ensure(r, "svc", "exists", "Service", "dep", "ServiceError")

\* mutant: the hash of the config is left out of the pod template
DeploymentWithoutHash(d, config) ==
    [hash |-> None, available |-> d # None /\ d.available]

\* The Deployment's pod template carries the config's hash; its status is kept.
DeploymentFor(d, config) ==
    [hash |-> config, available |-> d # None /\ d.available]

\* The template lacks defaults too: the Update is always sent.
EnsureDeployment(r) ==
    /\ worker[r].pc = "dep"
    /\ Ensure(r, "dep", DeploymentFor(store.dep, worker[r].config), "Deployment",
              "available", "DeploymentError")

\* isDeploymentAvailable reads the cached Deployment, whatever generation its
\* status speaks of.  Status.URL is set before.
CheckAvailable(r) ==
    LET d == cache[r].dep
        cur == [worker[r].cur EXCEPT !.url = TRUE]
        reason == IF d = None THEN "DeploymentError" ELSE "DeploymentNotAvailable"
    IN  /\ worker[r].pc = "available"
        /\ worker' = [worker EXCEPT ![r] =
                IF d # None /\ d.available
                THEN [@ EXCEPT !.pc = "token", !.cur = cur]
                ELSE [@ EXCEPT !.pc = "status",
                               !.cur = setNotReadyCondition(cur, reason)]]
        /\ NoWrite /\ UNCHANGED budget /\ PassFrame

Running == {p \in pods : p.config # None}

\* ts.Token(): a pod behind the Service accepts the operator's key.
TokenAccepted(key) == store.svc # None /\ \E p \in Running : p.config.key = key

TokenExchange(r) ==
    /\ worker[r].pc = "token"
    /\ \/ /\ TokenAccepted(worker[r].keypair)
          /\ worker' = [worker EXCEPT ![r].pc = "status",
                                      ![r].cur = setReadyCondition(@, "Ready")]
          /\ UNCHANGED budget
       \/ /\ ~TokenAccepted(worker[r].keypair)
          /\ SetNotReady(r, "TokenExchangeFailed")
          /\ UNCHANGED budget
       \/ /\ Faulty("Token")
          /\ SetNotReady(r, "TokenExchangeFailed")
    /\ NoWrite /\ PassFrame

StatusPatch(r) ==
    /\ worker[r].pc = "status"
    /\ \/ /\ Put("status", MergeFrom(worker[r].base, worker[r].cur, store.status))
          /\ UNCHANGED budget
       \/ /\ Faulty("StatusPatch")
          /\ NoWrite
    /\ worker' = [worker EXCEPT ![r] = Idle]
    /\ PassFrame

-----------------------------------------------------------------------------
(* Kubernetes: the Deployment controller and the kubelet *)

ClusterFrame == UNCHANGED <<spec, secrets, worker>>

Current(p) == store.dep # None /\ p.hash = store.dep.hash

\* A pod of an older template, or of no Deployment, is deleted; a rolling
\* update waits until a pod of the new template runs.
DeletePod(p) ==
    /\ ~Current(p)
    /\ Strategy = "RollingUpdate" /\ store.dep # None => \E q \in Running : Current(q)
    /\ pods' = pods \ {p}
    /\ NoWrite /\ UNCHANGED budget /\ ClusterFrame

CreatePod ==
    /\ store.dep # None
    /\ ~\E p \in pods : Current(p)
    /\ Strategy = "Recreate" => pods = {}
    /\ pods' = pods \cup {[hash |-> store.dep.hash, config |-> None]}
    /\ NoWrite /\ UNCHANGED budget /\ ClusterFrame

\* A pod whose template mounts the keys starts once no other pod does: the
\* claim is ReadWriteOnce.
VolumeFree(p) ==
    (p.hash # None /\ p.hash.spec \in DirectorySpecs) =>
        store.pvc # None /\ Running \ {p} = {}

\* Keyline reads the mounted config.yaml once, when it starts.
StartPod(p) ==
    /\ p.config = None
    /\ store.config # None
    /\ VolumeFree(p)
    /\ pods' = (pods \ {p}) \cup {[p EXCEPT !.config = store.config]}
    /\ NoWrite /\ UNCHANGED budget /\ ClusterFrame

\* The container dies, or its node does, and is started again.
RestartPod(p) ==
    /\ Spend("restart")
    /\ p.config # None
    /\ pods' = (pods \ {p}) \cup {[p EXCEPT !.config = None]}
    /\ NoWrite /\ ClusterFrame

\* The Deployment's Available condition follows the pods, some time later.
ReportAvailable ==
    /\ store.dep # None
    /\ store.dep.available # (Running # {})
    /\ Put("dep", [store.dep EXCEPT !.available = (Running # {})])
    /\ UNCHANGED <<pods, budget>> /\ ClusterFrame

-----------------------------------------------------------------------------
(* The rest of the environment *)

EditSpec(new) ==
    /\ Spend("edit")
    /\ <<spec, new>> \in Edits
    /\ spec' = new
    /\ UNCHANGED <<secrets, store, cache, stale, worker, pods>>

\* The Secrets the spec refers to are not watched: the next pass sees them.
SecretChange(name, value) ==
    /\ Spend("secret")
    /\ secrets[name] # value
    /\ secrets' = [secrets EXCEPT ![name] = value]
    /\ UNCHANGED <<spec, store, cache, stale, worker, pods>>

DeleteOwned(o) ==
    /\ Spend("delete")
    /\ store[o] # None
    /\ Put(o, None)
    /\ UNCHANGED <<spec, secrets, worker, pods>>

\* A replica dies between two calls; its successor lists every object anew.
Crash(r) ==
    /\ Spend("crash")
    /\ worker' = [worker EXCEPT ![r] = Idle]
    /\ cache' = [cache EXCEPT ![r] = store]
    /\ stale' = [stale EXCEPT ![r] = {}]
    /\ UNCHANGED <<spec, secrets, store, pods>>

-----------------------------------------------------------------------------
(* Specification *)

Init ==
    /\ spec \in Specs
    /\ secrets = [n \in SecretNames |-> None]
    /\ store = NoObjects
    /\ cache = [r \in Replicas |-> NoObjects]
    /\ stale = [r \in Replicas |-> {}]
    /\ worker = [r \in Replicas |-> Idle]
    /\ pods = {}
    /\ budget = Budget

Reconcile(r) ==
    \/ Begin(r) \/ EnsureCredentials(r) \/ BuildConfig(r) \/ EnsureConfigSecret(r)
    \/ EnsurePVC(r) \/ EnsureService(r) \/ EnsureDeployment(r)
    \/ CheckAvailable(r) \/ TokenExchange(r) \/ StatusPatch(r)

\* The steps Kubernetes takes by itself.
Rollout == CreatePod \/ \E p \in pods : DeletePod(p) \/ StartPod(p)

Environment ==
    \/ \E new \in Specs : EditSpec(new)
    \/ \E n \in SecretNames, v \in SecretValues \cup {None} : SecretChange(n, v)
    \/ \E o \in OthersDelete : DeleteOwned(o)
    \/ \E r \in Replicas : Crash(r)
    \/ \E p \in pods : RestartPod(p)

Next ==
    \/ \E r \in Replicas : Reconcile(r)
    \/ \E r \in Replicas, o \in Objects : Deliver(r, o)
    \/ Rollout \/ ReportAvailable
    \/ Environment

\* A queued request is run and a running pass makes its next call, watches
\* deliver, and Kubernetes does its part; edits, deletions, failures, crashes
\* and restarts need not happen.
Fairness ==
    /\ \A r \in Replicas : WF_vars(Reconcile(r))
    /\ \A r \in Replicas, o \in Objects : WF_vars(Deliver(r, o))
    /\ WF_vars(Rollout)
    /\ WF_vars(ReportAvailable)

Spec == Init /\ [][Next]_vars /\ Fairness

-----------------------------------------------------------------------------
(* Properties *)

ConfigType == [spec : Specs, key : Keys, db : SecretValues \cup {None},
               vault : SecretValues \cup {None}]
StatusType == [url : BOOLEAN, cond : [ready : BOOLEAN, reason : Reasons]]
ObjectsType == [creds  : Keys \cup {None},
                config : ConfigType \cup {None},
                pvc    : {None, "exists"},
                svc    : {None, "exists"},
                dep    : [hash : ConfigType \cup {None}, available : BOOLEAN]
                             \cup {None},
                status : StatusType]
WorkerType == [pc      : {"idle", "creds", "build", "config", "pvc", "svc", "dep",
                          "available", "token", "status"},
               spec    : Specs \cup {None},
               base    : StatusType,
               cur     : StatusType,
               keypair : Keys \cup {None},
               config  : ConfigType \cup {None}]

\* The values of the variables.
TypeOK ==
    /\ spec \in Specs
    /\ secrets \in [SecretNames -> SecretValues \cup {None}]
    /\ store \in ObjectsType
    /\ cache \in [Replicas -> ObjectsType]
    /\ stale \in [Replicas -> SUBSET Objects]
    /\ worker \in [Replicas -> WorkerType]
    /\ pods \subseteq [hash : ConfigType \cup {None}, config : ConfigType \cup {None}]
    /\ budget \in [BudgetKinds -> Nat]

\* The key that Keyline is told to trust is the one in the credentials Secret
\* from which all other reconcilers sign their tokens: in the stored config,
\* in every pod, and in a config on its way there - also when the cache misses
\* the Secret, and when two operators create it at once.
ConfigUsesStoredKey ==
    /\ store.config # None => store.config.key = store.creds
    /\ \A p \in Running : p.config.key = store.creds
    /\ \A r \in Replicas :
        worker[r].config # None => worker[r].config.key = store.creds

\* ensureConfigSecret comes before ensureDeployment: a pod of a template never
\* runs an older config than the one whose hash made Kubernetes create it.
\* (Specs are numbered in the order of their submission.)
PodNotOlderThanHash ==
    \A p \in Running : p.hash # None => p.config.spec >= p.hash.spec

Serves ==
    IF BuildFailures(spec) = {}
    THEN /\ IsReady(store.status) /\ store.status.url
         /\ \E p \in Running :
                p.config = buildKeylineConfig(spec, store.creds, secrets)
    ELSE /\ ~IsReady(store.status)
         /\ store.status.cond.reason \in BuildFailures(spec)

\* "Reconcile deploys and configures a Keyline server for the given
\* KeylineInstance": once nothing else happens, a server runs with exactly the
\* config of the spec and its Secrets and the instance is Ready for good, or
\* its condition says which input is missing.
EventuallyServesSpec == <>[]Serves

\* The comment on the Recreate strategy: a rollout does not wait forever for a
\* volume that the pod it replaces holds.
RolloutCompletes ==
    <>[](store.dep # None => Running # {} /\ \A p \in pods : Current(p))

=============================================================================
