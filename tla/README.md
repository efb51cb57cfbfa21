# Verification of keyline-operator

keyline-operator is a Kubernetes operator: it deploys a Keyline identity server
for a `KeylineInstance` and keeps virtual servers, projects, applications,
roles, users and role assignments in Keyline in step with custom resources.
This directory holds TLA+ models of its reconcilers, the TLC runs that check
them on small instances, and TLAPS proofs for every value of the constants.

Run TLC with `tlc -config <run>.cfg <MC module>` and check the proofs with
`tlapm <module>`. `PROJECT.json` lists the runs, the source lines that each
definition models, the hazards, the findings and the theorems.

## The system

Seven reconcilers run in one process (`cmd/main.go`), each with one worker and
one work queue. A reconciler reads from the informer cache, writes to the API
server directly, and talks to Keyline over HTTP with a token that it signs with
the key in the instance's credentials Secret. Nothing is locked across calls,
no object has a finalizer, and no status patch carries a resourceVersion. Every
pass that found its object ends in `setReady` or `setNotReady`, which patch the
status and ask for another pass after 30 seconds; a failed patch is retried
with backoff.

| Component | State | Operations | Depends on |
|---|---|---|---|
| KeylineInstance (`keylineinstance_controller.go`, `keylineconfig.go`) | `status.url`, Ready; owns a credentials Secret, a config Secret, a PVC, a Service and a Deployment | ensureCredentials, buildKeylineConfig, ensureConfigSecret, ensurePVC, ensureService, ensureDeployment, isDeploymentAvailable, token exchange | referenced Secrets |
| KeylineVirtualServer | Ready | get, patch the fields that the spec sets | instance Ready |
| KeylineProject | Ready | get by slug, create | virtual server Ready |
| KeylineApplication | `status.applicationId`, Ready | list by name, get, patch, create | project and virtual server Ready |
| KeylineRole | `status.roleId`, Ready | get, patch, list by name, create | project and virtual server Ready |
| KeylineUser | `status.userId`, `status.managedKeyIds`, Ready | get, list by name, create, patch the display name, associate and remove keys | virtual server Ready |
| KeylineRoleAssignment | Ready | list the role's users, assign | role, user, project and virtual server Ready |
| helpers, results | none | status merge patch, conditions, credentials lookup, requeue | |

What is hard about it:

* **Stale reads.** The cache may be older than the operator's own last write;
  merge patches computed from it overwrite lists.
* **Several calls, no transaction.** A pass makes up to a dozen calls; any of
  them may fail, lose its answer, or be the last one before a crash.
* **Two sources of truth.** Keyline can be changed behind the operator's back,
  and loses everything when it runs with the in-memory database.
* **Kubernetes in the loop.** Config reaches a pod only when the pod starts,
  and a volume can be mounted by one pod at a time.

What makes each component correct: a user's reconciler must not create a second
user, must not touch keys of others, must remember what it added, and must
converge; the instance's reconciler must make Keyline trust the key that the
other reconcilers sign with, must never run a pod on an older config than its
template names, and must converge to serving the spec; the other reconcilers
must bind to one Keyline object each and converge to the spec's fields. Users,
roles and applications are created in Keyline under a name, and all three are
held to the same promise, `NamedResource`.

## Modules

* `StatusPatcher` - `helpers.go`: conditions and the merge patch.
* `NamedResource` - the abstract specification that the user's, the role's and
  the application's reconcilers implement. What it amounts to is proved in
  `NamedResourceProofs`.
* `UserController` - the KeylineUser reconciler, the object and its informer
  copy, and Keyline's users. Used through `MCUserController`, proved about in
  `UserControllerProofs` (types and claims), `UserAccountProofs` (the user) and
  `UserKeysProofs` (its keys and what the status says of them).
* `InstanceController` - the KeylineInstance reconciler in any number of
  replicas, the owned objects and their caches, and the Deployment's pods. Used
  through `MCInstanceController`, proved about in `InstanceControllerProofs`
  (types and keys) and `InstancePodProofs` (configs and pods).
* `ResourceChain` - the reconcilers of a KeylineVirtualServer, a KeylineProject in
  it and a KeylineApplication in that, composed with Keyline. Used through
  `MCResourceChain`, proved about in `ResourceChainProofs`.
* `RoleBinding` - the reconcilers of a KeylineRole and of a KeylineRoleAssignment
  composed with Keyline's roles and users. Used through `MCRoleBinding`, proved
  about in `RoleBindingProofs`.

Operators marked `mutant` are plausible mistakes; each property of a passing
run is violated when the definition next to it is replaced by one of them.

### NamedResource

The object in Keyline that a custom resource stands for: `objects` says which
ids are unused, gone or living under a name, `bound` is the id in the resource's
stored status. Its steps are the only things that may ever happen: an object is
created under an unused id and only if no object has the name, objects
disappear, the status forgets its id or, when it names no living object, takes
one that was handed out. `Provided` is the progress: a resource that stays
`wanted` ends up bound to a living object. `Safety` and `Provided` together say
that a lost answer, a lost or outdated status and a crash cost nothing but time.

| Refined by | objects | bound | wanted |
|---|---|---|---|
| `UserController!Account` | state and name of each user | `userId` of the stored status | the object exists and `deps` is ok |
| `RoleBinding!Binding` | state and name of each role | `roleId` of the stored status | the object exists and nothing blocks it |
| `ResourceChain!Registration` | state and name of each application | `applicationId` of the stored status | the three objects and the instance are there and Keyline has the virtual server |

The refinement holds for specs of one name, which the runs and the theorems
assume: no reconciler can follow a rename (see Known limits).

### UserController

`crLog` is the sequence of versions of the object: its head is what the cache
returns, its last element what the API server stores. `worker` is the running
Reconcile call: the program counter, the snapshot (`base`) and the working copy
(`cur`) of the status, the spec it read, the id and the kids it removed.
`pending` is the work queue together with the requeue timers; controller-runtime
never runs two passes of one object at a time. `users` is Keyline. `added` is a
history variable.

`Begin` covers `Reconcile` up to the Keyline client; `deps` says whether the
virtual server, the instance and the Secret are there, or the reason for which
Reconcile gives up. `Get`, `List` and `CreateServiceUser` are
`ensureServiceUser`, `Associate`, `Remove` and `FinishKeys` are
`reconcileKeys`, `StatusPatch` is the patch and the requeue. Each Keyline call
may succeed, be refused, fail without effect (`Failable` has its name) or take
effect and lose its answer (`...Response`). The error paths that need a UUID in
the status which does not parse are left out: only the operator writes it.

### ResourceChain

The reconcilers of the three levels between the instance and what applications
use, each with its own pass (`vsWorker`, `projWorker`, `appWorker`): a Begin, one
action per Keyline call (`GetVS`, `PatchVS`; `GetProject`, `CreateProject`;
`ListApps`, `GetApp`, `PatchApp`, `CreateApp`) and the status patch. They meet in
the Ready conditions, which `VSBlockers` and `AppBlockers` read as the code does,
in its order, and in Keyline: `realm` (the settings of the virtual server, or
None), `project` and `apps`. Keyline creates a project where it has the virtual
server, and an application where it has the project and not the name; losing one
of them loses what is below it.

Fields are functions from field names to opaque values, None where the code has
a nil pointer or nothing. `RealmDiff` and `AppDiff` are the comparisons after
which a request is made, `Sent` is what the request says, `CreatedFields` what
the request to create says. The project's name and description are left out: it
is created with them and never compared again.

The application has a log of versions, as the user has, because its status holds
an id that a late cache would lose. The virtual server and the project have only
a condition; a reconciler that reads an old one behaves as if it had run a
little earlier, so their cache is not late. As in `RoleBinding`, every return asks
for another pass, so an idle worker may begin at any time.

### InstanceController

`store` has the owned objects and the status, `cache[r]` replica r's copies,
`stale[r]` the objects of which r has not seen the last write: an Update of one
of these is a conflict, a Create of an object that exists is AlreadyExists. A
config is a record of what distinguishes one config.yaml from another: the
spec, the operator's public key, the database credentials and the Vault token.
The hash is taken to be injective. A spec is a number; sets of specs say which
modes it selects and whether the section of a mode is missing. Errors that no
input can cause (marshalling, key generation, owner references) are left out.

The pods are Kubernetes' part, modelled from what the code relies on: Recreate
deletes all pods of the old template before it creates one, RollingUpdate waits
for the new pod first (only used as a mutant), a pod that mounts the keys needs
the volume for itself, and Keyline reads its config when it starts and accepts
the operator's key that is in it. The Deployment's Available condition follows
the pods with a delay and says nothing about the template.

### RoleBinding

Both reconcilers run in one process and meet in three places: the role object
and its informer copy (`roleLog`, as `crLog` above), which the assignment's pass
reads, Keyline's roles and members (`roles`, `liveUsers`), and the project,
virtual server, instance and Secret (`deps`). `roleWorker` and `worker` are the
two running passes. `BeginRole`, `GetRole`, `PatchRole`, `ListRoles`,
`CreateRole` and `PatchRoleStatus` are the calls of
`KeylineRoleReconciler.Reconcile`; `Begin`, `ListUsers`, `Assign` and
`StatusPatch` those of `KeylineRoleAssignmentReconciler.Reconcile`. `Blockers`
is the chain of early returns before the first call, in the code's order. The
KeylineUser is the variable `user`: missing, not ready, or ready with an id that
Keyline had when the user's reconciler recorded it. There is no work queue:
every return asks for another pass, so a pass may begin whenever none runs.
The role is a NamedResource (`Binding`). A page of members may hide some behind
others (`MemberPages`), so that a member is assigned again; Keyline is taken to
accept that, as the code does. A page of roles is taken to hold all of them.

## Runs

| Run | Checks | Bounds |
|---|---|---|
| UserSafety | TypeOK, ClaimsOnlyOwnKeys, NoDuplicateUsers, RemovesOnlyAddedKids, ImplementsNamedResource, EventuallySettled | 2 kids, 2 ids, 2 specs that differ in kid and display name, lag 1, one fault of any call, one edit, one deletion of the object, one crash, one readiness change, one out-of-band step (a user deleted, a key associated); Keyline accepts a kid twice |
| UserKeys | NoOrphanKeys, ClaimedKeysExist, LeavesOutOfBandKeys, EventuallyKeysInSync | 3 kids (one of others), a page that other users may fill, 2 faults, 2 edits, no lag, no crash; removals and status patches do not fail and answers about keys are not lost |
| UserStaleCache | NoOrphanKeys is violated | lag 1, 2 edits, nothing fails |
| UserRemoveFails | EventuallyKeysInSync is violated | one failed removal, 2 edits |
| UserRecreated | EventuallyKeysInSync is violated | one out-of-band deletion |
| InstanceRollout | TypeOK, PodNotOlderThanHash, RolloutCompletes | 2 specs, one fault of any call, one edit, a crash, a pod restart, late Deployment events |
| InstanceReplicas | ConfigUsesStoredKey | 2 replicas, 2 key pairs, late Secret events, one fault, one crash |
| InstanceServes | EventuallyServesSpec | 4 specs over all modes and missing sections, one fault, edit, Secret change, crash, deletion of an owned object and pod restart, late config events |
| InstanceReverted | EventuallyServesSpec is violated | an edit and its reversal, a failed Deployment update, a pod restart |
| RoleBinding | TypeOK, NoDuplicateRoles, ImplementsNamedResource, EventuallyAssigned | one name with 2 descriptions, 2 role ids, 2 user ids, a page of one member that another may fill, lag 1, one fault of any call, any 2 of: edit or deletion of the role object, crash, readiness change, role or user deleted in Keyline, change of the KeylineUser |
| ResourceChain | TypeOK, ImplementsNamedResource, EventuallySynced | one name, 2 application specs (an optional field set or not), 2 virtual server specs, 2 ids, lag 1, one fault of any call and one change: an edit, creation or deletion of any of the objects, a crash, the instance's readiness, an application, project or virtual server lost in Keyline, or a virtual server created there |
| AppOverride | EventuallyAsSpecified is violated | one edit, nothing fails |

Two kids are enough for a pass that stops in the middle of a loop, two ids for
a second user or a recreated one (three where two creations may be lost), two specs for an edit during a pass, and one
step of each kind of disturbance for each of the races above to happen at every
point of a pass; larger budgets only repeat them. `ResourceChain` is already the
largest run (1.1 million states), so it takes one change of any kind after or
before one fault of any kind; sequences of two changes are checked in `RoleBinding`,
whose role's pass has the same shape as the application's. `UserSafety` has no deadlock
check because an object that is deleted ends its work. The restrictions of
`UserKeys` are the preconditions under which the status can be trusted: the
three violation runs lift one each, and a key whose association succeeds while
its answer, its status patch or the operator itself is lost is an orphan until
the association is repeated (or for good, if the kid leaves the spec first).

Fairness: a queued request is run and a running pass makes its next call
(controller-runtime's workers and timers; every call has a timeout), a watch
delivers its events, and Kubernetes' controllers act. All of it is weak
fairness of enabled steps. Faults, edits, deletions, crashes and restarts are
never assumed to happen, and their budgets make them stop.

## Findings

* **UserStaleCache.** The spec is edited from k1 to k2 while the pass that
  associates k1 runs. The next pass sees the new spec and the status before
  k1 was recorded; its patch replaces `managedKeyIds` with `[k2]`. k1 stays in
  Keyline and will never be removed.
* **UserRemoveFails.** k1 and k2 leave the spec, k1 is removed, the removal of
  k2 fails: both stay in `managedKeyIds`. If k1 is listed again, it is taken
  for associated and never is.
* **UserRecreated.** The user disappears from Keyline (someone deletes it, or a
  pod with the in-memory database restarts). It is created anew, but its keys
  are still claimed and so are not associated.
* **InstanceReverted.** A spec edit reaches the config Secret but not the
  Deployment, a pod restarts and reads the Secret, the edit is taken back: the
  template's hash never changed, so the pod keeps the withdrawn config.
* **AppOverride.** `signingAlgorithm` is taken out of an application's spec.
  `buildApplicationPatch` finds Keyline's value different from none and makes a
  request, but a request says nothing about a field that is nil, so the
  override stays, each pass sends the same empty request, and the application is
  Ready. `postLogoutUris` is the same.

Known limits of the code that no run is about: `spec.username` and an
application's `spec.name` are ignored once the object exists; an application's
type, and a project's name and description, are sent when they are created and
never again; a new PEM under an old kid never reaches Keyline; a virtual server
that Keyline does not have is never created by the operator (`ResourceChain`
shows that everything below it waits and says so); and only the first 1000
users, roles, applications or members are searched by name, so that beyond them
a user whose id was lost is created again (`UserKeys` allows it: the keys of the
user in the status stay right).

## Proofs

`NamedResourceProofs` proves what the abstract specification is good for, from the
assumption that "unused" and "gone" are no names and None is no id:

* `OneObjectPerName`: `Safety` implies that no two living objects ever have one name
  and that the status names no id that was never handed out;
* `BoundToTheLiving`: `Safety` implies that a status never leaves a living object for
  another one, and that a lost object's id never names an object again.

`AccountSafe`, `BindingSafe` and `RegistrationSafe` below carry this over to the
three reconcilers.

`UserControllerProofs` proves, for every value of the constants that satisfies
the modules' assumptions:

* `TypeCorrect`: `Spec => []TypeOK`;
* `ClaimsAreOwn`: `Spec => []ClaimsOnlyOwnKeys`;
* `ForeignKidsUntouched`: `Spec => RemovesOnlyAddedKids`.

The inductive invariant is `TypeOK /\ ClaimsOnlyOwnKeys`. `ClaimsOnlyOwnKeys`
speaks of every version in the log and of both of the worker's copies because
a status travels cache -> base and cur -> merge patch -> log: a merge patch
takes each field from `cur` or from what is stored (lemma `MergeFromStatus`),
so claims never appear from nowhere, and a claim enters `cur` only in the step
that puts the kid into `added`. The action property follows since `Remove` is
the only step that takes a key from a live user and takes only kids in
`cur.managed`.

`UserAccountProofs` proves

* `OneUserPerName`: if the page that the search asks for holds all users
  (`PageHoldsAll`) then `Spec => []NoDuplicateUsers`. The inductive invariant
  adds `NameFree`: while a pass is about to create a user, no living user has the
  name. It holds when a search found nothing (`OnePage`: the search saw
  everything), only `List` leads to the creation (`ReachesCreate`), and until then
  no other step brings a user to life or names one.

The assumption is needed: beyond the page a second user is created.

* `AccountSafe`: if also all specs have one name (`OneName`) then
  `Spec => Account!Safety`, the safety part of the user's refinement. The
  invariant `AInv` adds the same three facts as `RInv` below (`LogOK`, `UsersOK`,
  `PassOK`), and `StoredVersion` collects what a client or a status patch may
  store.

`ResourceChainProofs` proves

* `TypeCorrect`: `Spec => []TypeOK`. It says more than it seems: Keyline's fields
  keep their types because `RealmDiff` and `Sent` pick only fields that the spec
  sets, so the invariant `IInv` has that of the difference a pass carries.
* `RegistrationSafe`: if all specs have one name (`OneName`) then
  `Spec => Registration!Safety`, the safety part of the refinement. The inductive
  invariant `RInv` adds that every id in a status has been handed out (`LogOK`),
  that Keyline has one application at most (`AppsOK`), and that a running pass
  which will change the id in the status holds that of the living application, if
  the stored status still has it (`PassOK`). The last conjunct is what makes a
  pass that started from an old cache harmless. `NextRefines` then has one lemma
  for each kind of step that does not stutter: `CreateRefines`, `StatusRefines`,
  `EditRefines` and `LossRefines`.

`UserKeysProofs` proves what the status and Keyline promise each other about
the keys. It holds only while certain mishaps do not occur, and each theorem names
the ones it excludes:

| | `OutOfBandKeysUntouched` | `NoKeyIsOrphaned` | `ClaimsExist` |
|---|---|---|---|
| states | `Spec => LeavesOutOfBandKeys` | `Spec => []NoOrphanKeys` | `Spec => []ClaimedKeysExist` |
| `NoLag`: a pass starts from an up-to-date cache | x | x | x |
| `ObjectKept`: nobody deletes the KeylineUser | x | x | x |
| `UsersKept`: nobody deletes the user in Keyline | x | | x |
| `StatusStored`: no crash, and no failed status patch | | x | x |
| `AssociateAnswered`: no answer to an association is lost | | x | |
| `RemovalsSucceed`: no removal fails | | | x |
| `KidsApart`: others use no kid of a spec | | x | |

The hypotheses are about the environment only, and none can be dropped: TLC finds
a violation of each property, with two names, two or three ids and two faults, when any
single hypothesis of its column is lifted (6 to 18 states long). Everything
else may happen any number of times: edits (renames too), other calls that fail or
lose their answers, full pages, missing Secrets, keys that others add.

All three share `SyncInv`: there is one version of the object, a running pass
started from its status (so that its merge patch stores the status that it
holds: lemma `PatchedIsOwn`), and kids are removed only after all were associated.
The lemmas `GetDoes` ... `OthersDo` say what each step does to the pass and to the
keys in a handful of shapes (`Finds`, `Fails`, `Adds`, `Removes`, ...), and then
each invariant is preserved shape by shape:

* `OwnInv`: both copies of the status name a living user or none, and claim only
  kids associated with that very user. So `Remove` takes a key only from a user
  with which it was associated (`OwnRemoved`).
* `OrphanInv`: of the keys that the operator associated with living users, all are
  of the user that it knows of, and those left are in what it knows to be claimed,
  without what the running pass removed. `Known` is the stored status between
  passes and `worker.cur` during one.
* `ExistInv`: what it knows to be claimed, without what the pass removed, exists;
  and when only the status patch is left, nothing removed is claimed.

`InstanceControllerProofs` proves

* `TypeCorrect`: `Spec => []TypeOK`, from `TypeOK /\ PassOK` (`PassOK`: a
  running pass knows its spec, and builds its config with a key pair);
* `KeylineTrustsStoredKey`: if `"creds" \notin OthersDelete` then
  `Spec => []ConfigUsesStoredKey`, for any number of replicas, from `KeyInv`: a
  cache has the stored credentials or none, a pass works with the stored pair
  or none, and every config in a pass, in the Secret or in a pod has its key.
  Its one delicate step is `FirstKey`: as long as no credentials are stored, no
  pass, config or pod has a key, so the first pair contradicts nothing; after
  that Create refuses every other pair.

The assumption is needed: once somebody deletes the Secret, a new pair is
generated and for a while Keyline trusts the old one. `InstanceServes` checks
that it comes to trust the new one.

`InstancePodProofs` proves

* `PodsFollowConfig`: with one replica at work (`OneReplica`) and specs numbered in
  the order in which they are submitted (`Forward`, without which "older" means
  nothing), `Spec => []PodNotOlderThanHash`. The property is not inductive, as a
  pod starts with whatever the config Secret has by then. The invariant `PodInv`
  adds that the Secret is as new as every hash in the Deployment or in a pod
  (`HashesInv`), as every cached config (`ConfigsInv`), and, once a pass is past
  ensureConfigSecret, as that pass's config (`SpecsInv`) - and that every config that
  is about was `Reached`: its spec was submitted, and the running pass read it or
  a later one. Reached is what makes the Secret safe to overwrite, or to create
  again after somebody deleted it. Each action is shown to be one of `Moves`, the
  ways in which a step may move specs, passes, objects and pods, and `MovesKeep` is
  the one proof that they keep the invariant.

With two replicas at work TLC finds the property violated: a deposed leader that
goes on with its pass puts back the config of the spec that it read, under the
hash of the newer one. The code relies on leader election for this.

`RoleBindingProofs` proves

* `TypeCorrect`: `Spec => []TypeOK`;
* `OneRolePerName`: for specs of one name (`OneName`), `Spec => []NoDuplicateRoles`;
* `BindingSafe`: under the same assumption `Spec => Binding!Safety`, the safety part
  of the role's refinement.

The inductive invariant `AInv` is that of `AccountSafe` with one more conjunct that
only the role needs: a pass creates a role only if it has no id and no role is
alive. The patch of a role names it (`PatchKeepsNames`: with the name it has), and
what the assignment does to members never touches a role's name or state.

Every invariant and every action property that a passing run checks is a theorem.
Only model-checked are the liveness properties (fairness and ENABLED are outside
the prover's reach): `EventuallySettled`, `EventuallyKeysInSync`,
`RolloutCompletes`, `EventuallyServesSpec`, `EventuallyAssigned`,
`EventuallySynced`, and `Provided`, the progress part of the three refinements.
No definition of the models is recursive, so no proof stops at induction over data.

## Plan

Done: the user's, instance's, role's and role assignment's reconcilers; the
virtual server's, project's and application's, with the readiness that they
read of each other; `NamedResource` and its three refinements; the proofs of every
safety property of the runs.

Left, in this order:

1. Proofs: action properties of the compositions that no run states yet, such as
   that a virtual server's pass only ever changes fields that its spec sets, and
   that an assignment that is Ready named a role and a user that Keyline had.
2. `OneRolePerName` and the refinements for specs of several names, with the
   condition on renames that they need.
3. Renames and full pages of roles in `RoleBinding`. A rename that a pass sees together
   with a status that lacks the id makes it create a second role, which is why
   the run varies the description only.
4. Key material and usernames in `UserController`.

## Not modelled

`cmd/main.go` (flags and wiring; leader election is the number of replicas), the
generated deep copies, CRDs, RBAC, charts and manifests, and the tests. Of the
instance: its own deletion and the garbage collection of what it owns, and what
is inside config.yaml. Of projects: the texts that are sent once. Deleting a
custom resource does nothing in Keyline, which the models show by what they
leave unchanged.
