----------------------- MODULE InstanceControllerProofs -----------------------
(***************************************************************************)
(* Proofs about InstanceController, for every number of replicas and every *)
(* value of the other constants.                                           *)
(***************************************************************************)
EXTENDS InstanceController, TLAPS

\* A pass knows the spec it read, and builds its config with a key pair.
PassOK ==
    \A r \in Replicas :
        /\ worker[r].pc # "idle" => worker[r].spec \in Specs
        /\ worker[r].pc = "build" => worker[r].keypair \in Keys

TypeInv == TypeOK /\ PassOK

DepType == [hash : ConfigType \cup {None}, available : BOOLEAN]
PodType == [hash : ConfigType \cup {None}, config : ConfigType \cup {None}]

-----------------------------------------------------------------------------
(* Writes *)

\* What object o may hold.
ValueType(o) == CASE o = "creds"  -> Keys \cup {None}
                  [] o = "config" -> ConfigType \cup {None}
                  [] o = "pvc"    -> {None, "exists"}
                  [] o = "svc"    -> {None, "exists"}
                  [] o = "dep"    -> DepType \cup {None}
                  [] o = "status" -> StatusType

LEMMA ObjectsUpdate ==
    ASSUME NEW x \in ObjectsType, NEW o \in Objects, NEW v \in ValueType(o)
    PROVE  /\ [x EXCEPT ![o] = v] \in ObjectsType
           /\ x[o] \in ValueType(o)
           /\ \A q \in Objects : [x EXCEPT ![o] = v][q] = IF q = o THEN v ELSE x[q]
  BY DEF ObjectsType, ValueType, Objects, DepType

LEMMA ObjectsRead ==
    ASSUME NEW x \in ObjectsType, NEW o \in Objects
    PROVE  x[o] \in ValueType(o)
  BY DEF ObjectsType, ValueType, Objects, DepType

\* A write keeps the types of the stored and cached objects.
LEMMA PutType ==
    ASSUME TypeOK, NEW o \in Objects, NEW v \in ValueType(o), Put(o, v)
    PROVE  /\ store' \in ObjectsType
           /\ cache' \in [Replicas -> ObjectsType]
           /\ stale' \in [Replicas -> SUBSET Objects]
<1>1. store' \in ObjectsType
  BY ObjectsUpdate DEF Put, TypeOK
<1>2. \A r \in Replicas : [cache[r] EXCEPT ![o] = v] \in ObjectsType
  BY ObjectsUpdate DEF TypeOK
<1> QED
  BY <1>1, <1>2 DEF Put, TypeOK

-----------------------------------------------------------------------------
(* Type correctness *)

\* Replica r's worker becomes w, and w is what a pass may be.
BecomesPass(r, w) ==
    /\ worker' = [worker EXCEPT ![r] = w]
    /\ w \in WorkerType
    /\ w.pc # "idle" => w.spec \in Specs
    /\ w.pc = "build" => w.keypair \in Keys

LEMMA BecomesPassOK ==
    ASSUME TypeInv, NEW r \in Replicas, NEW w, BecomesPass(r, w)
    PROVE  worker' \in [Replicas -> WorkerType] /\ PassOK'
  BY DEF TypeInv, TypeOK, PassOK, BecomesPass

\* setNotReady keeps what the pass knows and ends it.
FailedPass(r, reason) ==
    [worker[r] EXCEPT !.pc = "status",
                      !.cur = setNotReadyCondition(worker[r].cur, reason)]

LEMMA SetNotReadyPass ==
    ASSUME TypeInv, NEW r \in Replicas, NEW reason \in Reasons,
           worker[r].pc # "idle", SetNotReady(r, reason)
    PROVE  /\ BecomesPass(r, FailedPass(r, reason))
           /\ FailedPass(r, reason).pc = "status"
           /\ FailedPass(r, reason).spec = worker[r].spec
           /\ FailedPass(r, reason).keypair = worker[r].keypair
           /\ FailedPass(r, reason).config = worker[r].config
<1>0. worker \in [Replicas -> WorkerType] /\ worker[r] \in WorkerType
      /\ worker[r].spec \in Specs
  BY DEF TypeInv, TypeOK, PassOK
<1>1. setNotReadyCondition(worker[r].cur, reason) \in StatusType
  BY <1>0 DEF setNotReadyCondition, WorkerType, StatusType
<1>2. worker' = [worker EXCEPT ![r] = FailedPass(r, reason)]
  BY <1>0 DEF SetNotReady, FailedPass, WorkerType
<1>3. /\ FailedPass(r, reason) \in WorkerType
      /\ FailedPass(r, reason).pc = "status"
      /\ FailedPass(r, reason).spec = worker[r].spec
      /\ FailedPass(r, reason).keypair = worker[r].keypair
      /\ FailedPass(r, reason).config = worker[r].config
  BY <1>0, <1>1 DEF FailedPass, WorkerType
<1> QED
  BY <1>0, <1>2, <1>3 DEF BecomesPass

\* Going on with the next object of the pass.
NextPcs == {"config", "pvc", "svc", "dep", "available", "token", "status"}

LEMMA GotoPass ==
    ASSUME TypeInv, NEW r \in Replicas, NEW pc \in NextPcs,
           worker[r].pc # "idle", Goto(r, pc)
    PROVE  BecomesPass(r, [worker[r] EXCEPT !.pc = pc])
<1>0. worker \in [Replicas -> WorkerType] /\ worker[r] \in WorkerType
      /\ worker[r].spec \in Specs
  BY DEF TypeInv, TypeOK, PassOK
<1> QED
  BY <1>0 DEF Goto, BecomesPass, WorkerType, NextPcs

\* What is left to show of a step of a pass.
LEMMA PassStep ==
    ASSUME TypeInv, NEW r \in Replicas, NEW w, BecomesPass(r, w), PassFrame,
           store' \in ObjectsType, cache' \in [Replicas -> ObjectsType],
           stale' \in [Replicas -> SUBSET Objects],
           budget' \in [BudgetKinds -> Nat]
    PROVE  TypeInv'
  BY BecomesPassOK DEF TypeInv, TypeOK, PassFrame

LEMMA NoWriteType ==
    ASSUME TypeInv, NoWrite
    PROVE  /\ store' \in ObjectsType /\ cache' \in [Replicas -> ObjectsType]
           /\ stale' \in [Replicas -> SUBSET Objects]
  BY DEF TypeInv, TypeOK, NoWrite

LEMMA BudgetType ==
    ASSUME TypeInv,
           \/ UNCHANGED budget
           \/ \E kind \in BudgetKinds : Spend(kind)
           \/ \E call \in Calls : Faulty(call)
    PROVE  budget' \in [BudgetKinds -> Nat]
  BY DEF TypeInv, TypeOK, Spend, Faulty, BudgetKinds

\* A pass that ends in setNotReady without a write.
LEMMA FailedStep ==
    ASSUME TypeInv, NEW r \in Replicas, NEW reason \in Reasons,
           worker[r].pc # "idle", SetNotReady(r, reason), NoWrite, PassFrame,
           budget' \in [BudgetKinds -> Nat]
    PROVE  TypeInv'
  BY SetNotReadyPass, NoWriteType, PassStep

LEMMA BeginType == ASSUME TypeInv, NEW r \in Replicas, Begin(r) PROVE TypeInv'
<1> DEFINE w == [Idle EXCEPT !.pc = "creds", !.spec = spec,
                             !.base = cache[r].status, !.cur = cache[r].status]
<1>1. spec \in Specs /\ cache[r].status \in StatusType
  BY DEF TypeInv, TypeOK, ObjectsType
<1>2. w \in WorkerType /\ w.pc = "creds" /\ w.spec \in Specs
  BY <1>1 DEF Idle, WorkerType
<1>3. worker' = [worker EXCEPT ![r] = w]
  BY DEF Begin
<1> HIDE DEF w
<1>4. BecomesPass(r, w)
  BY <1>2, <1>3 DEF BecomesPass
<1> QED
  BY <1>4, NoWriteType, BudgetType, PassStep DEF Begin

LEMMA WithKeypairPass ==
    ASSUME TypeInv, NEW r \in Replicas, NEW key \in Keys, worker[r].pc = "creds",
           WithKeypair(r, key)
    PROVE  /\ BecomesPass(r, [worker[r] EXCEPT !.pc = "build", !.keypair = key])
           /\ [worker[r] EXCEPT !.pc = "build", !.keypair = key].keypair = key
           /\ [worker[r] EXCEPT !.pc = "build", !.keypair = key].config
                = worker[r].config
<1>0. worker \in [Replicas -> WorkerType] /\ worker[r] \in WorkerType
      /\ worker[r].spec \in Specs
  BY DEF TypeInv, TypeOK, PassOK
<1> QED
  BY <1>0 DEF WithKeypair, BecomesPass, WorkerType

LEMMA CredentialsType ==
    ASSUME TypeInv, NEW r \in Replicas, EnsureCredentials(r)
    PROVE  TypeInv'
<1>0. worker[r].pc = "creds" /\ PassFrame /\ "CredentialsError" \in Reasons
  BY DEF EnsureCredentials, Reasons
<1>1. CASE cache[r].creds # None /\ WithKeypair(r, cache[r].creds)
           /\ NoWrite /\ UNCHANGED budget
  <2>1. cache[r].creds \in Keys
    BY <1>1 DEF TypeInv, TypeOK, ObjectsType
  <2> QED
    BY <1>0, <1>1, <2>1, WithKeypairPass, NoWriteType, BudgetType, PassStep
<1>2. ASSUME NEW key \in Keys, Put("creds", key)
      PROVE  /\ store' \in ObjectsType /\ cache' \in [Replicas -> ObjectsType]
             /\ stale' \in [Replicas -> SUBSET Objects]
  BY <1>2, PutType DEF TypeInv, Objects, ValueType
<1>3. ASSUME NEW key \in Keys, Put("creds", key), WithKeypair(r, key),
             UNCHANGED budget
      PROVE  TypeInv'
  BY <1>0, <1>2, <1>3, WithKeypairPass, BudgetType, PassStep
<1>4. ASSUME NEW key \in Keys, CredentialsExist(r, key)
      PROVE  TypeInv'
  BY <1>0, <1>4, FailedStep, BudgetType DEF CredentialsExist
<1>5. ASSUME NEW key \in Keys, Faulty("CredentialsResponse"), Put("creds", key),
             SetNotReady(r, "CredentialsError")
      PROVE  TypeInv'
  BY <1>0, <1>2, <1>5, SetNotReadyPass, BudgetType, PassStep DEF Calls
<1>6. CASE Faulty("Credentials") /\ SetNotReady(r, "CredentialsError") /\ NoWrite
  BY <1>0, <1>6, FailedStep, BudgetType DEF Calls
<1> QED
  BY <1>1, <1>3, <1>4, <1>5, <1>6 DEF EnsureCredentials

\* The config a pass builds.
BuiltPass(r) ==
    [worker[r] EXCEPT !.pc = "config",
        !.config = buildKeylineConfig(worker[r].spec, worker[r].keypair, secrets)]

LEMMA BuiltPassType ==
    ASSUME TypeInv, NEW r \in Replicas, worker[r].pc = "build"
    PROVE  /\ BuiltPass(r) \in WorkerType
           /\ BuiltPass(r).pc = "config"
           /\ BuiltPass(r).spec = worker[r].spec
           /\ BuiltPass(r).keypair = worker[r].keypair
           /\ BuiltPass(r).config \in ConfigType
           /\ BuiltPass(r).config.key = worker[r].keypair
<1> DEFINE c == buildKeylineConfig(worker[r].spec, worker[r].keypair, secrets)
<1>0. worker[r] \in WorkerType /\ worker[r].spec \in Specs /\ worker[r].keypair \in Keys
  BY DEF TypeInv, TypeOK, PassOK
<1>1. /\ secrets["db"] \in SecretValues \cup {None}
      /\ secrets["vault"] \in SecretValues \cup {None}
  BY DEF TypeInv, TypeOK, SecretNames
<1>2. c \in ConfigType /\ c.key = worker[r].keypair
  BY <1>0, <1>1 DEF buildKeylineConfig, ConfigType
<1> HIDE DEF c
<1>3. BuiltPass(r) = [worker[r] EXCEPT !.pc = "config", !.config = c]
  BY DEF BuiltPass, c
<1> QED
  BY <1>0, <1>2, <1>3 DEF WorkerType

LEMMA BuildType == ASSUME TypeInv, NEW r \in Replicas, BuildConfig(r) PROVE TypeInv'
<1>0. worker[r].pc = "build" /\ NoWrite /\ UNCHANGED budget /\ PassFrame
  BY DEF BuildConfig
<1>1. CASE BuildFailures(worker[r].spec) = {}
  <2>0. worker \in [Replicas -> WorkerType] /\ worker[r].spec \in Specs
    BY <1>0 DEF TypeInv, TypeOK, PassOK
  <2>1. worker' = [worker EXCEPT ![r] = BuiltPass(r)]
    BY <1>1, <2>0 DEF BuildConfig, BuiltPass, WorkerType
  <2>2. BecomesPass(r, BuiltPass(r))
    BY <1>0, <2>0, <2>1, BuiltPassType DEF BecomesPass
  <2> QED
    BY <1>0, <2>2, NoWriteType, BudgetType, PassStep
<1>2. ASSUME NEW reason \in BuildFailures(worker[r].spec), SetNotReady(r, reason)
      PROVE  TypeInv'
  <2>1. reason \in Reasons
    BY DEF BuildFailures, Reasons
  <2> QED
    BY <1>0, <1>2, <2>1, FailedStep, BudgetType
<1> QED
  BY <1>1, <1>2 DEF BuildConfig

LEMMA EnsureType ==
    ASSUME TypeInv, NEW r \in Replicas, NEW o \in Objects, NEW v \in ValueType(o),
           NEW call \in Calls, NEW pc \in NextPcs, NEW reason \in Reasons,
           worker[r].pc # "idle", Ensure(r, o, v, call, pc, reason)
    PROVE  TypeInv'
<1>0. PassFrame
  BY DEF Ensure
<1>1. CASE Put(o, v) /\ Goto(r, pc) /\ UNCHANGED budget
  <2>1. /\ store' \in ObjectsType /\ cache' \in [Replicas -> ObjectsType]
        /\ stale' \in [Replicas -> SUBSET Objects]
    BY <1>1, PutType DEF TypeInv
  <2> QED
    BY <1>0, <1>1, <2>1, GotoPass, BudgetType, PassStep
<1>2. CASE SetNotReady(r, reason) /\ NoWrite /\ UNCHANGED budget
  BY <1>0, <1>2, FailedStep, BudgetType
<1>3. CASE Faulty(call) /\ SetNotReady(r, reason) /\ NoWrite
  BY <1>0, <1>3, FailedStep, BudgetType
<1> QED
  BY <1>1, <1>2, <1>3 DEF Ensure

LEMMA InPlaceType ==
    ASSUME TypeInv, NEW r \in Replicas, NEW pc \in NextPcs,
           worker[r].pc # "idle", InPlace(r, pc)
    PROVE  TypeInv'
  BY GotoPass, NoWriteType, BudgetType, PassStep DEF InPlace

LEMMA ObjectStepsType ==
    ASSUME TypeInv, NEW r \in Replicas,
           \/ EnsureConfigSecret(r) \/ EnsurePVC(r)
           \/ EnsureService(r) \/ EnsureDeployment(r)
    PROVE  TypeInv'
<1>0. worker[r] \in WorkerType /\ store \in ObjectsType
  BY DEF TypeInv, TypeOK
<1>1. AfterConfig(worker[r].spec) \in NextPcs
  BY DEF AfterConfig, NextPcs
<1>2. CASE EnsureConfigSecret(r)
  <2>1. worker[r].pc = "config" /\ worker[r].config \in ValueType("config")
    BY <1>0, <1>2 DEF EnsureConfigSecret, WorkerType, ValueType
  <2>2. CASE InPlace(r, AfterConfig(worker[r].spec))
    BY <1>1, <2>1, <2>2, InPlaceType
  <2>3. CASE Ensure(r, "config", worker[r].config, "ConfigSecret",
                    AfterConfig(worker[r].spec), "ConfigSecretError")
    BY <1>1, <2>1, <2>3, EnsureType DEF Objects, Calls, Reasons
  <2> QED
    BY <1>2, <2>2, <2>3 DEF EnsureConfigSecret
<1>3. CASE EnsurePVC(r)
  <2>1. worker[r].pc = "pvc" /\ "exists" \in ValueType("pvc")
    BY <1>3 DEF EnsurePVC, ValueType
  <2>2. CASE InPlace(r, "svc")
    BY <2>1, <2>2, InPlaceType DEF NextPcs
  <2>3. CASE Ensure(r, "pvc", "exists", "PVC", "svc", "PVCError")
    BY <2>1, <2>3, EnsureType DEF Objects, Calls, Reasons, NextPcs
  <2> QED
    BY <1>3, <2>2, <2>3 DEF EnsurePVC
<1>4. CASE EnsureService(r)
  <2>1. worker[r].pc = "svc" /\ "exists" \in ValueType("svc")
    BY <1>4 DEF EnsureService, ValueType
  <2>2. Ensure(r, "svc", "exists", "Service", "dep", "ServiceError")
    BY <1>4 DEF EnsureService
  <2> QED
    BY <2>1, <2>2, EnsureType DEF Objects, Calls, Reasons, NextPcs
<1>5. CASE EnsureDeployment(r)
  <2> DEFINE d == DeploymentFor(store.dep, worker[r].config)
  <2>1. store.dep \in DepType \cup {None} /\ worker[r].config \in ConfigType \cup {None}
    BY <1>0 DEF ObjectsType, DepType, WorkerType
  <2>2. d \in DepType
    BY <2>1 DEF DeploymentFor, DepType
  <2>3. d \in ValueType("dep")
    BY <2>2 DEF ValueType
  <2> HIDE DEF d
  <2>4. worker[r].pc = "dep" /\ Ensure(r, "dep", d, "Deployment", "available",
                                       "DeploymentError")
    BY <1>5 DEF EnsureDeployment, d
  <2> QED
    BY <2>3, <2>4, EnsureType DEF Objects, Calls, Reasons, NextPcs
<1> QED
  BY <1>2, <1>3, <1>4, <1>5

LEMMA CheckAvailableType ==
    ASSUME TypeInv, NEW r \in Replicas, CheckAvailable(r)
    PROVE  /\ TypeInv'
           /\ worker'[r].pc \in {"token", "status"}
           /\ worker'[r].spec = worker[r].spec
           /\ worker'[r].keypair = worker[r].keypair
           /\ worker'[r].config = worker[r].config
<1> DEFINE d == cache[r].dep
           cur == [worker[r].cur EXCEPT !.url = TRUE]
           reason == IF d = None THEN "DeploymentError" ELSE "DeploymentNotAvailable"
           ready == [worker[r] EXCEPT !.pc = "token", !.cur = cur]
           failed == [worker[r] EXCEPT !.pc = "status",
                                       !.cur = setNotReadyCondition(cur, reason)]
           w == IF d # None /\ d.available THEN ready ELSE failed
<1>0. worker[r] \in WorkerType /\ worker[r].spec \in Specs
      /\ worker \in [Replicas -> WorkerType]
  BY DEF TypeInv, TypeOK, PassOK, CheckAvailable
<1>1. cur \in StatusType
  BY <1>0 DEF WorkerType, StatusType
<1>2. setNotReadyCondition(cur, reason) \in StatusType
  BY <1>1 DEF setNotReadyCondition, StatusType, Reasons
<1>3. /\ ready \in WorkerType /\ ready.pc = "token" /\ ready.spec = worker[r].spec
      /\ ready.keypair = worker[r].keypair /\ ready.config = worker[r].config
  BY <1>0, <1>1 DEF WorkerType
<1>4. /\ failed \in WorkerType /\ failed.pc = "status" /\ failed.spec = worker[r].spec
      /\ failed.keypair = worker[r].keypair /\ failed.config = worker[r].config
  BY <1>0, <1>2 DEF WorkerType
<1>5. worker' = [worker EXCEPT ![r] = w]
  BY <1>0 DEF CheckAvailable
<1> HIDE DEF ready, failed
<1>6. BecomesPass(r, w)
  BY <1>0, <1>3, <1>4, <1>5 DEF BecomesPass
<1>7. TypeInv'
  BY <1>6, NoWriteType, BudgetType, PassStep DEF CheckAvailable
<1>8. worker'[r] = w
  BY <1>0, <1>5
<1> QED
  BY <1>3, <1>4, <1>7, <1>8

LEMMA TokenType ==
    ASSUME TypeInv, NEW r \in Replicas, TokenExchange(r)
    PROVE  /\ TypeInv'
           /\ worker'[r].pc \in {"token", "status"}
           /\ worker'[r].spec = worker[r].spec
           /\ worker'[r].keypair = worker[r].keypair
           /\ worker'[r].config = worker[r].config
<1> DEFINE w == [worker[r] EXCEPT !.pc = "status",
                                  !.cur = setReadyCondition(worker[r].cur, "Ready")]
<1>0. /\ worker[r] \in WorkerType /\ worker[r].spec \in Specs
      /\ worker \in [Replicas -> WorkerType]
      /\ worker[r].pc = "token" /\ NoWrite /\ PassFrame
      /\ "TokenExchangeFailed" \in Reasons /\ "Token" \in Calls
  BY DEF TypeInv, TypeOK, PassOK, TokenExchange, Reasons, Calls
<1>1. CASE SetNotReady(r, "TokenExchangeFailed")
           /\ (UNCHANGED budget \/ Faulty("Token"))
  <2>1. TypeInv'
    BY <1>0, <1>1, FailedStep, BudgetType
  <2>2. worker'[r] = FailedPass(r, "TokenExchangeFailed")
    BY <1>0, <1>1, SetNotReadyPass DEF BecomesPass
  <2> QED
    BY <1>0, <1>1, <2>1, <2>2, SetNotReadyPass
<1>2. CASE /\ worker' = [worker EXCEPT ![r].pc = "status",
                                       ![r].cur = setReadyCondition(@, "Ready")]
           /\ UNCHANGED budget
  <2>1. setReadyCondition(worker[r].cur, "Ready") \in StatusType
    BY <1>0 DEF setReadyCondition, WorkerType, StatusType, Reasons
  <2>2. /\ w \in WorkerType /\ w.pc = "status" /\ w.spec = worker[r].spec
        /\ w.keypair = worker[r].keypair /\ w.config = worker[r].config
    BY <1>0, <2>1 DEF WorkerType
  <2>3. worker' = [worker EXCEPT ![r] = w]
    BY <1>0, <1>2 DEF WorkerType
  <2> HIDE DEF w
  <2>4. BecomesPass(r, w)
    BY <1>0, <2>2, <2>3 DEF BecomesPass
  <2>5. worker'[r] = w
    BY <1>0, <2>3
  <2> QED
    BY <1>0, <1>2, <2>2, <2>4, <2>5, NoWriteType, BudgetType, PassStep
<1> QED
  BY <1>1, <1>2 DEF TokenExchange

\* A merge patch between statuses makes a status.
LEMMA MergeFromType ==
    ASSUME NEW base \in StatusType, NEW obj \in StatusType, NEW stored \in StatusType
    PROVE  MergeFrom(base, obj, stored) \in StatusType
  BY DEF MergeFrom, StatusType

LEMMA IdlePass == Idle \in WorkerType /\ Idle.pc = "idle" /\ Idle.keypair = None
                  /\ Idle.config = None
  BY DEF Idle, WorkerType, EmptyStatus, NoCondition, StatusType, Reasons

LEMMA StatusPatchType ==
    ASSUME TypeInv, NEW r \in Replicas, StatusPatch(r)
    PROVE  TypeInv'
<1> DEFINE s == MergeFrom(worker[r].base, worker[r].cur, store.status)
<1>0. BecomesPass(r, Idle)
  BY IdlePass DEF BecomesPass, StatusPatch
<1>1. s \in ValueType("status")
  <2>1. /\ worker[r].base \in StatusType /\ worker[r].cur \in StatusType
        /\ store.status \in StatusType
    BY DEF TypeInv, TypeOK, WorkerType, ObjectsType
  <2> QED
    BY <2>1, MergeFromType DEF ValueType
<1> HIDE DEF s
<1>2. CASE Put("status", s) /\ UNCHANGED budget
  BY <1>0, <1>1, <1>2, PutType, BudgetType, PassStep
     DEF TypeInv, Objects, StatusPatch
<1>3. CASE Faulty("StatusPatch") /\ NoWrite
  BY <1>0, <1>3, NoWriteType, BudgetType, PassStep DEF Calls, StatusPatch
<1> QED
  BY <1>2, <1>3 DEF StatusPatch, s

\* What is left to show of a step that is no step of a pass.
LEMMA OtherStep ==
    ASSUME TypeInv, UNCHANGED worker, spec' \in Specs,
           secrets' \in [SecretNames -> SecretValues \cup {None}],
           store' \in ObjectsType, cache' \in [Replicas -> ObjectsType],
           stale' \in [Replicas -> SUBSET Objects], pods' \subseteq PodType,
           budget' \in [BudgetKinds -> Nat]
    PROVE  TypeInv'
  BY DEF TypeInv, TypeOK, PassOK, PodType

LEMMA DeliverType ==
    ASSUME TypeInv, NEW r \in Replicas, NEW o \in Objects, Deliver(r, o)
    PROVE  TypeInv'
<1>1. store \in ObjectsType /\ cache[r] \in ObjectsType
      /\ cache \in [Replicas -> ObjectsType]
  BY DEF TypeInv, TypeOK
<1>2. [cache[r] EXCEPT ![o] = store[o]] \in ObjectsType
  BY <1>1, ObjectsRead, ObjectsUpdate
<1>3. cache' = [cache EXCEPT ![r] = [cache[r] EXCEPT ![o] = store[o]]]
  BY <1>1 DEF Deliver
<1>4. cache' \in [Replicas -> ObjectsType]
  BY <1>1, <1>2, <1>3
<1>5. stale' \in [Replicas -> SUBSET Objects]
  BY DEF Deliver, TypeInv, TypeOK
<1> QED
  BY <1>1, <1>4, <1>5, OtherStep DEF Deliver, TypeInv, TypeOK, PodType

LEMMA PodStepsType ==
    ASSUME TypeInv,
           CreatePod \/ \E p \in pods : DeletePod(p) \/ StartPod(p) \/ RestartPod(p)
    PROVE  TypeInv'
<1>0. pods \subseteq PodType /\ store.config \in ConfigType \cup {None}
      /\ store.dep \in DepType \cup {None}
  BY DEF TypeInv, TypeOK, PodType, ObjectsType, DepType
<1>1. pods' \subseteq PodType
  <2>1. CASE CreatePod
    <3>1. store.dep.hash \in ConfigType \cup {None}
      BY <1>0, <2>1 DEF CreatePod, DepType
    <3>2. [hash |-> store.dep.hash, config |-> None] \in PodType
      BY <3>1 DEF PodType
    <3> QED
      BY <1>0, <2>1, <3>2 DEF CreatePod
  <2>2. ASSUME NEW p \in pods, DeletePod(p) PROVE pods' \subseteq PodType
    BY <1>0, <2>2 DEF DeletePod
  <2>3. ASSUME NEW p \in pods, StartPod(p) PROVE pods' \subseteq PodType
    <3>1. [p EXCEPT !.config = store.config] \in PodType
      BY <1>0 DEF PodType
    <3> QED
      BY <1>0, <2>3, <3>1 DEF StartPod
  <2>4. ASSUME NEW p \in pods, RestartPod(p) PROVE pods' \subseteq PodType
    <3>1. [p EXCEPT !.config = None] \in PodType
      BY <1>0 DEF PodType
    <3> QED
      BY <1>0, <2>4, <3>1 DEF RestartPod
  <2> QED
    BY <2>1, <2>2, <2>3, <2>4
<1>2. NoWrite /\ ClusterFrame /\ (UNCHANGED budget \/ Spend("restart"))
  BY DEF CreatePod, DeletePod, StartPod, RestartPod
<1>3. budget' \in [BudgetKinds -> Nat]
  BY <1>2, BudgetType DEF BudgetKinds
<1>4. UNCHANGED <<spec, secrets, worker>>
  BY <1>2 DEF ClusterFrame
<1> QED
  BY <1>1, <1>2, <1>3, <1>4, NoWriteType, OtherStep DEF TypeInv, TypeOK

LEMMA ReportAvailableType == ASSUME TypeInv, ReportAvailable PROVE TypeInv'
<1> DEFINE d == [store.dep EXCEPT !.available = (Running # {})]
<1>1. store.dep \in DepType
  BY DEF ReportAvailable, TypeInv, TypeOK, ObjectsType, DepType
<1>2. d \in DepType
  BY <1>1 DEF DepType
<1>3. d \in ValueType("dep")
  BY <1>2 DEF ValueType
<1>4. Put("dep", d) /\ UNCHANGED <<spec, secrets, worker, pods, budget>>
  BY DEF ReportAvailable, ClusterFrame
<1> HIDE DEF d
<1> QED
  BY <1>3, <1>4, PutType, OtherStep DEF TypeInv, TypeOK, Objects, PodType

LEMMA EnvironmentType == ASSUME TypeInv, Environment PROVE TypeInv'
<1>1. ASSUME NEW new \in Specs, EditSpec(new) PROVE TypeInv'
  <2>1. budget' \in [BudgetKinds -> Nat]
    BY <1>1, BudgetType DEF EditSpec, BudgetKinds
  <2> QED
    BY <1>1, <2>1, OtherStep DEF EditSpec, TypeInv, TypeOK, PodType
<1>2. ASSUME NEW n \in SecretNames, NEW v \in SecretValues \cup {None},
             SecretChange(n, v)
      PROVE  TypeInv'
  <2>1. budget' \in [BudgetKinds -> Nat]
    BY <1>2, BudgetType DEF SecretChange, BudgetKinds
  <2> QED
    BY <1>2, <2>1, OtherStep DEF SecretChange, TypeInv, TypeOK, PodType
<1>3. ASSUME NEW o \in OthersDelete, DeleteOwned(o) PROVE TypeInv'
  <2>1. budget' \in [BudgetKinds -> Nat]
    BY <1>3, BudgetType DEF DeleteOwned, BudgetKinds
  <2>2. o \in Objects /\ None \in ValueType(o)
    BY ValuesAssumption DEF Objects, ValueType
  <2>3. UNCHANGED <<spec, secrets, worker, pods>> /\ Put(o, None)
    BY <1>3 DEF DeleteOwned
  <2> QED
    BY <2>1, <2>2, <2>3, PutType, OtherStep DEF TypeInv, TypeOK, PodType
<1>4. ASSUME NEW r \in Replicas, Crash(r) PROVE TypeInv'
  <2>1. budget' \in [BudgetKinds -> Nat]
    BY <1>4, BudgetType DEF Crash, BudgetKinds
  <2>2. BecomesPass(r, Idle) /\ PassFrame
    BY <1>4, IdlePass DEF BecomesPass, Crash, PassFrame
  <2>3. /\ store' \in ObjectsType /\ cache' \in [Replicas -> ObjectsType]
        /\ stale' \in [Replicas -> SUBSET Objects]
    BY <1>4 DEF Crash, TypeInv, TypeOK
  <2> QED
    BY <2>1, <2>2, <2>3, PassStep
<1>5. ASSUME NEW p \in pods, RestartPod(p) PROVE TypeInv'
  BY <1>5, PodStepsType
<1> QED
  BY <1>1, <1>2, <1>3, <1>4, <1>5 DEF Environment

LEMMA InitType == Init => TypeInv
<1> SUFFICES ASSUME Init PROVE TypeInv
  OBVIOUS
<1>1. NoObjects \in ObjectsType
  BY DEF NoObjects, ObjectsType, EmptyStatus, NoCondition, StatusType, Reasons
<1>2. TypeOK
  BY <1>1, IdlePass, ValuesAssumption DEF Init, TypeOK
<1>3. PassOK
  BY IdlePass DEF Init, PassOK
<1> QED
  BY <1>2, <1>3 DEF TypeInv

LEMMA NextType == TypeInv /\ [Next]_vars => TypeInv'
<1> SUFFICES ASSUME TypeInv, [Next]_vars PROVE TypeInv'
  OBVIOUS
<1>1. ASSUME NEW r \in Replicas, Reconcile(r) PROVE TypeInv'
  BY <1>1, BeginType, CredentialsType, BuildType, ObjectStepsType,
     CheckAvailableType, TokenType, StatusPatchType DEF Reconcile
<1>2. CASE Rollout
  BY <1>2, PodStepsType DEF Rollout
<1>3. CASE UNCHANGED vars
  BY <1>3 DEF vars, TypeInv, TypeOK, PassOK
<1> QED
  BY <1>1, <1>2, <1>3, DeliverType, ReportAvailableType, EnvironmentType DEF Next

\* Every value stays in its type, however many replicas work on the instance.
THEOREM TypeCorrect == Spec => []TypeOK
<1>1. Spec => []TypeInv
  BY InitType, NextType, PTL DEF Spec
<1>2. TypeInv => TypeOK
  BY DEF TypeInv
<1> QED
  BY <1>1, <1>2, PTL

-----------------------------------------------------------------------------
(* The key that Keyline trusts *)

\* Nobody but the garbage collector deletes the credentials Secret.
CredentialsKept == "creds" \notin OthersDelete

\* ConfigUsesStoredKey is not inductive: the key of a config was in a pass
\* before, and in a cache before that.
KeyInv ==
    /\ \A r \in Replicas : cache[r].creds \in {None, store.creds}
    /\ \A r \in Replicas : worker[r].keypair \in {None, store.creds}
    /\ ConfigUsesStoredKey

IInv == TypeInv /\ KeyInv

\* The pass of each replica brings no new key.
WorkersKept ==
    \A q \in Replicas :
        /\ worker'[q].keypair \in {None, worker[q].keypair, store.creds}
        /\ \/ worker'[q].config \in {None, worker[q].config}
           \/ worker'[q].config.key = store.creds

\* Neither do the caches and the stored objects.
StoreKept ==
    /\ store'.creds = store.creds
    /\ \A q \in Replicas : cache'[q].creds \in {None, cache[q].creds, store.creds}
    /\ \/ store'.config \in {None, store.config}
       \/ store'.config.key = store.creds

\* And a pod only gets the stored config.
PodsKept ==
    \A p \in pods' : \/ p.config \in {None, store.config}
                     \/ \E q \in pods : p.config = q.config

LEMMA KeyKept ==
    ASSUME KeyInv, WorkersKept, StoreKept, PodsKept
    PROVE  KeyInv'
  BY DEF KeyInv, WorkersKept, StoreKept, PodsKept, ConfigUsesStoredKey, Running

LEMMA SameWorkers == ASSUME TypeInv, UNCHANGED worker PROVE WorkersKept
  BY DEF WorkersKept

LEMMA SamePods == ASSUME UNCHANGED pods PROVE PodsKept
  BY DEF PodsKept

LEMMA SameStore == ASSUME NoWrite PROVE StoreKept
  BY DEF StoreKept, NoWrite

\* A write of any object but the credentials, and of a config with their key.
LEMMA PutKept ==
    ASSUME TypeInv, NEW o \in Objects \ {"creds"}, NEW v \in ValueType(o), Put(o, v),
           o = "config" /\ v # None => v.key = store.creds
    PROVE  StoreKept
<1>1. /\ store \in ObjectsType /\ store' = [store EXCEPT ![o] = v]
      /\ cache \in [Replicas -> ObjectsType]
  BY DEF TypeInv, TypeOK, Put
<1>2. store'.creds = store.creds /\ store'.config = IF o = "config" THEN v ELSE store.config
  BY <1>1, ObjectsUpdate DEF Objects
<1>3. \A q \in Replicas : [cache[q] EXCEPT ![o] = v].creds = cache[q].creds
  BY <1>1, ObjectsUpdate DEF Objects
<1>4. \A q \in Replicas : cache'[q].creds = cache[q].creds
  BY <1>1, <1>3 DEF Put
<1> QED
  BY <1>2, <1>4 DEF StoreKept

LEMMA PassKept ==
    ASSUME TypeInv, NEW r \in Replicas, NEW w, BecomesPass(r, w),
           w.keypair \in {None, worker[r].keypair, store.creds},
           w.config \in {None, worker[r].config} \/ w.config.key = store.creds
    PROVE  WorkersKept
  BY DEF WorkersKept, BecomesPass, TypeInv, TypeOK

LEMMA FailedKept ==
    ASSUME TypeInv, NEW r \in Replicas, NEW reason \in Reasons,
           worker[r].pc # "idle", SetNotReady(r, reason)
    PROVE  WorkersKept
  BY SetNotReadyPass, PassKept

LEMMA GotoKept ==
    ASSUME TypeInv, NEW r \in Replicas, NEW pc \in NextPcs,
           worker[r].pc # "idle", Goto(r, pc)
    PROVE  WorkersKept
<1>1. worker[r] \in WorkerType
  BY DEF TypeInv, TypeOK
<1>2. /\ [worker[r] EXCEPT !.pc = pc].keypair = worker[r].keypair
      /\ [worker[r] EXCEPT !.pc = pc].config = worker[r].config
  BY <1>1 DEF WorkerType
<1> QED
  BY <1>2, GotoPass, PassKept

LEMMA IdleKept ==
    ASSUME TypeInv, NEW r \in Replicas, worker' = [worker EXCEPT ![r] = Idle]
    PROVE  WorkersKept
  BY IdlePass, PassKept DEF BecomesPass

LEMMA BeginKeys == ASSUME IInv, NEW r \in Replicas, Begin(r) PROVE KeyInv'
<1> DEFINE w == [Idle EXCEPT !.pc = "creds", !.spec = spec,
                             !.base = cache[r].status, !.cur = cache[r].status]
<1>1. w.keypair = None /\ w.config = None /\ worker' = [worker EXCEPT ![r] = w]
  BY DEF Idle, Begin
<1> HIDE DEF w
<1>2. WorkersKept
  BY <1>1 DEF WorkersKept, IInv, TypeInv, TypeOK
<1> QED
  BY <1>2, SameStore, SamePods, KeyKept DEF Begin, PassFrame, IInv

\* The first key pair: until it is stored, no config and no pass has one.
LEMMA FirstKey ==
    ASSUME IInv, NEW r \in Replicas, NEW key \in Keys, store.creds = None,
           Put("creds", key), UNCHANGED pods, NEW w,
           BecomesPass(r, w), w.keypair \in {worker[r].keypair, key},
           w.config = worker[r].config
    PROVE  KeyInv'
<1>1. /\ store \in ObjectsType /\ store' = [store EXCEPT !["creds"] = key]
      /\ cache \in [Replicas -> ObjectsType]
      /\ worker \in [Replicas -> WorkerType]
      /\ pods \subseteq PodType
  BY DEF IInv, TypeInv, TypeOK, Put, PodType
<1>2. "creds" \in Objects /\ key \in ValueType("creds")
  BY DEF Objects, ValueType
<1>3. store'.creds = key /\ store'.config = store.config
  BY <1>1, <1>2, ObjectsUpdate DEF Objects
<1>4. \A q \in Replicas : [cache[q] EXCEPT !["creds"] = key].creds = key
  BY <1>1 DEF ObjectsType
<1>5. \A q \in Replicas : cache'[q].creds \in {None, key}
  BY <1>1, <1>4 DEF Put, IInv, KeyInv
<1>6. store.config = None
  BY <1>1, ValuesAssumption DEF IInv, KeyInv, ConfigUsesStoredKey, ObjectsType, ConfigType
<1>7. \A p \in pods : p.config = None
  BY <1>1, ValuesAssumption
     DEF IInv, KeyInv, ConfigUsesStoredKey, Running, PodType, ConfigType
<1>8. \A q \in Replicas : worker[q].config = None /\ worker[q].keypair = None
  BY <1>1, ValuesAssumption DEF IInv, KeyInv, ConfigUsesStoredKey, WorkerType, ConfigType
<1>9. \A q \in Replicas : worker'[q].config = None /\ worker'[q].keypair \in {None, key}
  BY <1>1, <1>8 DEF BecomesPass
<1> QED
  BY <1>3, <1>5, <1>6, <1>7, <1>9 DEF KeyInv, ConfigUsesStoredKey, Running

LEMMA CredentialsKeys ==
    ASSUME IInv, NEW r \in Replicas, EnsureCredentials(r)
    PROVE  KeyInv'
<1>0. worker[r].pc = "creds" /\ UNCHANGED pods /\ "CredentialsError" \in Reasons
      /\ TypeInv /\ KeyInv
  BY DEF EnsureCredentials, Reasons, PassFrame, IInv
<1>1. CASE cache[r].creds # None /\ WithKeypair(r, cache[r].creds) /\ NoWrite
  <2>1. cache[r].creds \in Keys /\ cache[r].creds = store.creds
    BY <1>1 DEF IInv, TypeInv, KeyInv, TypeOK, ObjectsType
  <2>2. WorkersKept
    BY <1>0, <1>1, <2>1, WithKeypairPass, PassKept
  <2> QED
    BY <1>0, <1>1, <2>2, SameStore, SamePods, KeyKept
<1>2. ASSUME NEW key \in Keys, store.creds = None, Put("creds", key),
             WithKeypair(r, key)
      PROVE  KeyInv'
  <2> DEFINE w == [worker[r] EXCEPT !.pc = "build", !.keypair = key]
  <2>1. BecomesPass(r, w) /\ w.keypair = key /\ w.config = worker[r].config
    BY <1>0, <1>2, WithKeypairPass
  <2> HIDE DEF w
  <2> QED
    BY <1>0, <1>2, <2>1, FirstKey
<1>3. ASSUME NEW key \in Keys, store.creds = None, Put("creds", key),
             SetNotReady(r, "CredentialsError")
      PROVE  KeyInv'
  BY <1>0, <1>3, SetNotReadyPass, FirstKey
<1>4. CASE SetNotReady(r, "CredentialsError") /\ NoWrite
  BY <1>0, <1>4, FailedKept, SameStore, SamePods, KeyKept
<1> QED
  BY <1>1, <1>2, <1>3, <1>4 DEF EnsureCredentials, CredentialsExist

LEMMA BuildKeys == ASSUME IInv, NEW r \in Replicas, BuildConfig(r) PROVE KeyInv'
<1>0. worker[r].pc = "build" /\ NoWrite /\ UNCHANGED pods /\ TypeInv /\ KeyInv
  BY DEF BuildConfig, PassFrame, IInv
<1>1. CASE BuildFailures(worker[r].spec) = {}
  <2>0. worker \in [Replicas -> WorkerType] /\ worker[r].spec \in Specs
        /\ worker[r].keypair \in Keys
    BY <1>0 DEF TypeInv, TypeOK, PassOK
  <2>1. worker' = [worker EXCEPT ![r] = BuiltPass(r)]
    BY <1>1, <2>0 DEF BuildConfig, BuiltPass, WorkerType
  <2>2. BecomesPass(r, BuiltPass(r))
    BY <1>0, <2>0, <2>1, BuiltPassType DEF BecomesPass
  <2>3. worker[r].keypair = store.creds
    BY <1>0, <2>0, ValuesAssumption DEF KeyInv
  <2>4. WorkersKept
    BY <1>0, <2>2, <2>3, BuiltPassType, PassKept
  <2> QED
    BY <1>0, <2>4, SameStore, SamePods, KeyKept
<1>2. ASSUME NEW reason \in BuildFailures(worker[r].spec), SetNotReady(r, reason)
      PROVE  KeyInv'
  <2>1. reason \in Reasons
    BY DEF BuildFailures, Reasons
  <2> QED
    BY <1>0, <1>2, <2>1, FailedKept, SameStore, SamePods, KeyKept
<1> QED
  BY <1>1, <1>2 DEF BuildConfig

LEMMA EnsureKeys ==
    ASSUME IInv, NEW r \in Replicas, NEW o \in Objects \ {"creds"},
           NEW v \in ValueType(o), o = "config" /\ v # None => v.key = store.creds,
           NEW call \in Calls, NEW pc \in NextPcs, NEW reason \in Reasons,
           worker[r].pc # "idle", Ensure(r, o, v, call, pc, reason)
    PROVE  KeyInv'
<1>0. PodsKept /\ TypeInv /\ KeyInv
  BY SamePods DEF Ensure, PassFrame, IInv
<1>1. CASE Put(o, v) /\ Goto(r, pc)
  BY <1>0, <1>1, PutKept, GotoKept, KeyKept
<1>2. CASE SetNotReady(r, reason) /\ NoWrite
  BY <1>0, <1>2, FailedKept, SameStore, KeyKept
<1> QED
  BY <1>1, <1>2 DEF Ensure

LEMMA InPlaceKeys ==
    ASSUME IInv, NEW r \in Replicas, NEW pc \in NextPcs,
           worker[r].pc # "idle", InPlace(r, pc)
    PROVE  KeyInv'
  BY GotoKept, SameStore, SamePods, KeyKept DEF InPlace, PassFrame, IInv

LEMMA ObjectStepsKeys ==
    ASSUME IInv, NEW r \in Replicas,
           \/ EnsureConfigSecret(r) \/ EnsurePVC(r)
           \/ EnsureService(r) \/ EnsureDeployment(r)
    PROVE  KeyInv'
<1>0. worker[r] \in WorkerType /\ store \in ObjectsType
  BY DEF IInv, TypeInv, TypeOK
<1>1. AfterConfig(worker[r].spec) \in NextPcs
  BY DEF AfterConfig, NextPcs
<1>2. CASE EnsureConfigSecret(r)
  <2>1. worker[r].pc = "config" /\ worker[r].config \in ValueType("config")
    BY <1>0, <1>2 DEF EnsureConfigSecret, WorkerType, ValueType
  <2>2. worker[r].config # None => worker[r].config.key = store.creds
    BY DEF IInv, KeyInv, ConfigUsesStoredKey
  <2>3. CASE InPlace(r, AfterConfig(worker[r].spec))
    BY <1>1, <2>1, <2>3, InPlaceKeys
  <2>4. CASE Ensure(r, "config", worker[r].config, "ConfigSecret",
                    AfterConfig(worker[r].spec), "ConfigSecretError")
    BY <1>1, <2>1, <2>2, <2>4, EnsureKeys DEF Objects, Calls, Reasons
  <2> QED
    BY <1>2, <2>3, <2>4 DEF EnsureConfigSecret
<1>3. CASE EnsurePVC(r)
  <2>1. worker[r].pc = "pvc" /\ "exists" \in ValueType("pvc")
    BY <1>3 DEF EnsurePVC, ValueType
  <2>2. CASE InPlace(r, "svc")
    BY <2>1, <2>2, InPlaceKeys DEF NextPcs
  <2>3. CASE Ensure(r, "pvc", "exists", "PVC", "svc", "PVCError")
    BY <2>1, <2>3, EnsureKeys DEF Objects, Calls, Reasons, NextPcs
  <2> QED
    BY <1>3, <2>2, <2>3 DEF EnsurePVC
<1>4. CASE EnsureService(r)
  <2>1. worker[r].pc = "svc" /\ "exists" \in ValueType("svc")
    BY <1>4 DEF EnsureService, ValueType
  <2>2. Ensure(r, "svc", "exists", "Service", "dep", "ServiceError")
    BY <1>4 DEF EnsureService
  <2> QED
    BY <2>1, <2>2, EnsureKeys DEF Objects, Calls, Reasons, NextPcs
<1>5. CASE EnsureDeployment(r)
  <2> DEFINE d == DeploymentFor(store.dep, worker[r].config)
  <2>1. store.dep \in DepType \cup {None} /\ worker[r].config \in ConfigType \cup {None}
    BY <1>0 DEF ObjectsType, DepType, WorkerType
  <2>2. d \in DepType
    BY <2>1 DEF DeploymentFor, DepType
  <2>3. d \in ValueType("dep")
    BY <2>2 DEF ValueType
  <2> HIDE DEF d
  <2>4. worker[r].pc = "dep" /\ Ensure(r, "dep", d, "Deployment", "available",
                                       "DeploymentError")
    BY <1>5 DEF EnsureDeployment, d
  <2> QED
    BY <2>3, <2>4, EnsureKeys DEF Objects, Calls, Reasons, NextPcs
<1> QED
  BY <1>2, <1>3, <1>4, <1>5

\* The steps that end a pass write at most its status.
LEMMA LastStepsKeys ==
    ASSUME IInv, NEW r \in Replicas,
           CheckAvailable(r) \/ TokenExchange(r) \/ StatusPatch(r)
    PROVE  KeyInv'
<1>0. UNCHANGED pods /\ TypeInv /\ KeyInv
  BY DEF CheckAvailable, TokenExchange, StatusPatch, PassFrame, IInv
<1>1. CASE CheckAvailable(r)
  <2>1. \A q \in Replicas \ {r} : worker'[q] = worker[q]
    BY <1>1 DEF CheckAvailable, IInv, TypeInv, TypeOK
  <2>2. WorkersKept
    BY <1>0, <1>1, <2>1, CheckAvailableType DEF WorkersKept
  <2> QED
    BY <1>0, <1>1, <2>2, SameStore, SamePods, KeyKept DEF CheckAvailable
<1>2. CASE TokenExchange(r)
  <2>1. \A q \in Replicas \ {r} : worker'[q] = worker[q]
    BY <1>2 DEF TokenExchange, SetNotReady, IInv, TypeInv, TypeOK
  <2>2. WorkersKept
    BY <1>0, <1>2, <2>1, TokenType DEF WorkersKept
  <2> QED
    BY <1>0, <1>2, <2>2, SameStore, SamePods, KeyKept DEF TokenExchange
<1>3. CASE StatusPatch(r)
  <2> DEFINE s == MergeFrom(worker[r].base, worker[r].cur, store.status)
  <2>1. /\ worker[r].base \in StatusType /\ worker[r].cur \in StatusType
        /\ store.status \in StatusType
    BY <1>0 DEF TypeInv, TypeOK, WorkerType, ObjectsType
  <2>2. s \in ValueType("status")
    BY <2>1, MergeFromType DEF ValueType
  <2> HIDE DEF s
  <2>3. Put("status", s) \/ NoWrite
    BY <1>3 DEF StatusPatch, s
  <2>4. StoreKept
    BY <1>0, <2>2, <2>3, PutKept, SameStore DEF Objects
  <2>5. WorkersKept
    BY <1>0, <1>3, IdleKept DEF StatusPatch
  <2> QED
    BY <1>0, <2>4, <2>5, SamePods, KeyKept
<1> QED
  BY <1>1, <1>2, <1>3

LEMMA DeliverKeys ==
    ASSUME IInv, NEW r \in Replicas, NEW o \in Objects, Deliver(r, o)
    PROVE  KeyInv'
<1>0. UNCHANGED <<store, worker, pods>> /\ TypeInv /\ KeyInv
  BY DEF Deliver, IInv
<1>1. /\ store \in ObjectsType /\ cache[r] \in ObjectsType
      /\ cache \in [Replicas -> ObjectsType]
  BY <1>0 DEF TypeInv, TypeOK
<1>2. [cache[r] EXCEPT ![o] = store[o]].creds \in {cache[r].creds, store.creds}
  BY <1>1, ObjectsRead, ObjectsUpdate DEF Objects
<1>3. cache' = [cache EXCEPT ![r] = [cache[r] EXCEPT ![o] = store[o]]]
  BY <1>1 DEF Deliver
<1>4. StoreKept
  BY <1>0, <1>1, <1>2, <1>3 DEF StoreKept
<1> QED
  BY <1>0, <1>4, SameWorkers, SamePods, KeyKept

LEMMA PodStepsKeys ==
    ASSUME IInv,
           CreatePod \/ \E p \in pods : DeletePod(p) \/ StartPod(p) \/ RestartPod(p)
    PROVE  KeyInv'
<1>0. NoWrite /\ UNCHANGED worker /\ TypeInv /\ KeyInv /\ pods \subseteq PodType
  BY DEF CreatePod, DeletePod, StartPod, RestartPod, ClusterFrame, IInv, TypeInv,
         TypeOK, PodType
<1>1. ASSUME CreatePod PROVE PodsKept
  BY <1>1 DEF CreatePod, PodsKept
<1>2. ASSUME NEW p \in pods, DeletePod(p) \/ StartPod(p) \/ RestartPod(p)
      PROVE  PodsKept
  <2>1. /\ [p EXCEPT !.config = store.config].config = store.config
        /\ [p EXCEPT !.config = None].config = None
    BY <1>0 DEF PodType
  <2> QED
    BY <1>2, <2>1 DEF DeletePod, StartPod, RestartPod, PodsKept
<1>3. PodsKept
  BY <1>1, <1>2
<1> QED
  BY <1>0, <1>3, SameStore, SameWorkers, KeyKept

LEMMA ReportAvailableKeys == ASSUME IInv, ReportAvailable PROVE KeyInv'
<1> DEFINE d == [store.dep EXCEPT !.available = (Running # {})]
<1>1. store.dep \in DepType
  BY DEF ReportAvailable, IInv, TypeInv, TypeOK, ObjectsType, DepType
<1>2. d \in DepType
  BY <1>1 DEF DepType
<1>3. d \in ValueType("dep")
  BY <1>2 DEF ValueType
<1>4. Put("dep", d) /\ UNCHANGED <<worker, pods>>
  BY DEF ReportAvailable, ClusterFrame
<1> HIDE DEF d
<1> QED
  BY <1>3, <1>4, PutKept, SameWorkers, SamePods, KeyKept DEF IInv, Objects

LEMMA EnvironmentKeys == ASSUME CredentialsKept, IInv, Environment PROVE KeyInv'
<1>0. TypeInv /\ KeyInv
  BY DEF IInv
<1>1. ASSUME NEW new \in Specs, EditSpec(new) PROVE KeyInv'
  BY <1>0, <1>1, SameWorkers, SamePods, SameStore, KeyKept DEF EditSpec, NoWrite
<1>2. ASSUME NEW n \in SecretNames, NEW v \in SecretValues \cup {None},
             SecretChange(n, v)
      PROVE  KeyInv'
  BY <1>0, <1>2, SameWorkers, SamePods, SameStore, KeyKept DEF SecretChange, NoWrite
<1>3. ASSUME NEW o \in OthersDelete, DeleteOwned(o) PROVE KeyInv'
  <2>1. o \in Objects \ {"creds"} /\ None \in ValueType(o)
    BY ValuesAssumption DEF Objects, ValueType, CredentialsKept
  <2>2. StoreKept
    BY <1>0, <1>3, <2>1, PutKept DEF DeleteOwned
  <2> QED
    BY <1>0, <1>3, <2>2, SameWorkers, SamePods, KeyKept DEF DeleteOwned
<1>4. ASSUME NEW r \in Replicas, Crash(r) PROVE KeyInv'
  <2>1. WorkersKept
    BY <1>0, <1>4, IdleKept DEF Crash
  <2>2. StoreKept
    BY <1>4 DEF Crash, StoreKept, IInv, TypeInv, TypeOK
  <2> QED
    BY <1>0, <1>4, <2>1, <2>2, SamePods, KeyKept DEF Crash
<1>5. ASSUME NEW p \in pods, RestartPod(p) PROVE KeyInv'
  BY <1>5, PodStepsKeys
<1> QED
  BY <1>1, <1>2, <1>3, <1>4, <1>5 DEF Environment

LEMMA InitKeys == Init => KeyInv
  BY IdlePass DEF Init, KeyInv, ConfigUsesStoredKey, Running, NoObjects

LEMMA NextKeys == ASSUME CredentialsKept PROVE IInv /\ [Next]_vars => KeyInv'
<1> SUFFICES ASSUME IInv, [Next]_vars PROVE KeyInv'
  OBVIOUS
<1>1. ASSUME NEW r \in Replicas, Reconcile(r) PROVE KeyInv'
  BY <1>1, BeginKeys, CredentialsKeys, BuildKeys, ObjectStepsKeys, LastStepsKeys
     DEF Reconcile
<1>2. CASE Rollout
  BY <1>2, PodStepsKeys DEF Rollout
<1>3. CASE UNCHANGED vars
  BY <1>3 DEF vars, IInv, KeyInv, ConfigUsesStoredKey, Running
<1> QED
  BY <1>1, <1>2, <1>3, DeliverKeys, ReportAvailableKeys, EnvironmentKeys DEF Next

\* However many replicas race to create the credentials Secret, however late
\* their caches are and wherever they fail, the config they store and the pods
\* that run it trust exactly the stored key, unless somebody deletes it.
THEOREM KeylineTrustsStoredKey ==
    ASSUME CredentialsKept
    PROVE  Spec => []ConfigUsesStoredKey
<1>1. Init => IInv
  BY InitType, InitKeys DEF IInv
<1>2. IInv /\ [Next]_vars => IInv'
  BY NextType, NextKeys DEF IInv
<1>3. IInv => ConfigUsesStoredKey
  BY DEF IInv, KeyInv
<1> QED
  BY <1>1, <1>2, <1>3, PTL DEF Spec

=============================================================================
