----------------------------- MODULE ResourceChain -----------------------------
(***************************************************************************)
(* internal/controller/keylinevirtualserver_controller.go,                 *)
(* keylineproject_controller.go and keylineapplication_controller.go: the  *)
(* reconcilers of a KeylineVirtualServer, of a KeylineProject in it and of *)
(* a KeylineApplication in that, running side by side against Keyline.     *)
(*                                                                         *)
(* Each works only while the Ready conditions above it hold, and those are *)
(* reports of earlier passes: Keyline may have lost the virtual server's   *)
(* settings, the project or everything (database mode memory) since.       *)
(*                                                                         *)
(* One action is one call with the local work up to the next.  Every       *)
(* return of a pass that found its object asks for another one, so an idle *)
(* reconciler can always begin.  Only the application, whose status holds  *)
(* an id, has a late cache: a late condition of the two others is a pass   *)
(* of theirs that came later.  What is read of the KeylineInstance and its *)
(* credentials Secret is the variable instance.                            *)
(*                                                                         *)
(* Values of fields are opaque; None is a nil pointer, a nil list or "".   *)
(* A request leaves out what is nil, as the code relies on for every field *)
(* it does not mean to change.                                             *)
(***************************************************************************)
EXTENDS Naturals, Sequences, FiniteSets, StatusPatcher

CONSTANTS
    Names,          \* of applications
    Values, None,   \* of fields
    RealmSpecs,     \* the specs of the virtual server a client may submit
    AppSpecs,       \* the specs of the application a client may submit
    FirstRealmSpecs, FirstAppSpecs,  \* those with which the two start
    RealmDefault,   \* a virtual server that Keyline has just created
    AppDefault,     \* an application's field that the creation leaves out
    Ids,            \* the UUIDs Keyline can hand out for applications
    InstanceStates, \* those of "ok" and NotOk that occur
    Failable,       \* the calls that may fail: see Calls
    MaxLag,         \* bound on undelivered watch events of the application
    Budget          \* bound on each kind of environment step

RealmFields == {"displayName", "registrationEnabled", "require2fa",
                "requireEmailVerification", "primarySigningAlgorithm",
                "additionalSigningAlgorithms"}

\* buildApplicationPatch compares some fields always, some if the spec sets
\* them, and the type never.
AlwaysCompared == {"displayName", "deviceFlowEnabled", "redirectUris",
                   "postLogoutUris", "signingAlgorithm"}
ComparedIfSet == {"claimsMappingScript", "accessTokenHeaderType"}
AppFields == AlwaysCompared \cup ComparedIfSet \cup {"type"}

Optional == {"claimsMappingScript", "accessTokenHeaderType", "postLogoutUris",
             "signingAlgorithm"}

Calls == {"GetRealm", "PatchRealm", "RealmStatusPatch",
          "GetProject", "CreateProject", "ProjectStatusPatch",
          "ListApps", "GetApp", "PatchApp", "CreateApp", "AppStatusPatch"}
BudgetKinds == {"fault", "change"}
NotOk == {"InstanceNotFound", "InstanceNotReady", "SecretNotFound"}
Reasons == NotOk \cup
           {"NoCondition", "ProjectNotFound", "ProjectNotReady",
            "VirtualServerNotFound", "VirtualServerNotReady", "GetFailed",
            "ListFailed", "PatchFailed", "CreateFailed", "Synced"}

RealmSpecType == [RealmFields -> Values \cup {None}]
AppSpecType == [name : Names, fields : [AppFields -> Values \cup {None}]]

ASSUME SpecsAssumption ==
    /\ RealmSpecs \subseteq RealmSpecType /\ AppSpecs \subseteq AppSpecType
    /\ FirstRealmSpecs # {} /\ FirstRealmSpecs \subseteq RealmSpecs
    /\ FirstAppSpecs # {} /\ FirstAppSpecs \subseteq AppSpecs
    /\ \A s \in AppSpecs : \A f \in AppFields \ Optional : s.fields[f] # None
    /\ RealmDefault \in [RealmFields -> Values]
    /\ AppDefault \in [AppFields -> Values \cup {None}]
ASSUME NoneAssumption == None \notin Values \cup Names \cup Ids
ASSUME NamesAssumption == Names \cap {"unused", "gone"} = {}
ASSUME BoundsAssumption ==
    /\ "ok" \in InstanceStates /\ InstanceStates \subseteq {"ok"} \cup NotOk
    /\ Failable \subseteq Calls
    /\ MaxLag \in Nat
    /\ Budget \in [BudgetKinds -> Nat]

VARIABLES
    vs,          \* the KeylineVirtualServer
    vsWorker,    \* the running pass over it
    proj,        \* the KeylineProject
    projWorker,
    appLog,      \* versions of the KeylineApplication: the head is the
                 \* informer's copy, the last the API server's
    appWorker,
    instance,    \* "ok", or why there is no client
    realm,       \* Keyline's virtual server, or None
    project,     \* whether Keyline has the project
    apps,        \* Keyline's applications
    budget

vsVars == <<vs, vsWorker>>
projVars == <<proj, projWorker>>
appVars == <<appLog, appWorker>>
keylineVars == <<realm, project, apps>>
vars == <<vs, vsWorker, proj, projWorker, appLog, appWorker, instance,
          realm, project, apps, budget>>

-----------------------------------------------------------------------------
(* Data *)

NewStatus == [cond |-> NoCondition]
NewAppStatus == [appId |-> None, cond |-> NoCondition]

NoFields == [f \in AppFields |-> None]
NoAppSpec == [name |-> None, fields |-> NoFields]
NoRealmSpec == [f \in RealmFields |-> None]

NewRealm(s) == [present |-> TRUE, spec |-> s, status |-> NewStatus]
NoRealm == [present |-> FALSE, spec |-> NoRealmSpec, status |-> NewStatus]
NewProject == [present |-> TRUE, status |-> NewStatus]
NoProject == [present |-> FALSE, status |-> NewStatus]
NewApp(s) == [present |-> TRUE, spec |-> s, status |-> NewAppStatus]
NoApp == [present |-> FALSE, spec |-> NoAppSpec, status |-> NewAppStatus]

\* diff: the fields for which the Patch request is made
IdleVS == [pc |-> "idle", spec |-> NoRealmSpec, base |-> NewStatus,
           cur |-> NewStatus, diff |-> {}]
IdleProject == [pc |-> "idle", base |-> NewStatus, cur |-> NewStatus]
IdleApp == [pc |-> "idle", spec |-> NoAppSpec, base |-> NewAppStatus,
            cur |-> NewAppStatus, diff |-> {}]

Unused == [state |-> "unused", name |-> None, fields |-> NoFields]

Cached == Head(appLog)
Stored == appLog[Len(appLog)]
Live == {id \in Ids : apps[id].state = "live"}

Spend(kind) ==
    /\ budget[kind] > 0
    /\ budget' = [budget EXCEPT ![kind] = @ - 1]

Faulty(call) == call \in Failable /\ Spend("fault")

\* A version is stored; a watch that is MaxLag events behind delivers one.
Publish(v) ==
    appLog' = IF Len(appLog) > MaxLag THEN Append(Tail(appLog), v)
                                      ELSE Append(appLog, v)

SetNotReadyNoReason(w, reason) ==  \* mutant: the reason is lost
    [w EXCEPT !.pc = "status", !.cur = setNotReadyCondition(w.cur, "")]

\* What is left of a pass is the status patch.
SetNotReady(w, reason) ==
    [w EXCEPT !.pc = "status", !.cur = setNotReadyCondition(w.cur, reason)]

SetReady(w) ==
    [w EXCEPT !.pc = "status", !.cur = setReadyCondition(w.cur, "Synced")]

-----------------------------------------------------------------------------
(* The pass over the virtual server *)

VSFrame == UNCHANGED <<projVars, appVars, instance, project, apps>>

BeginVS ==
    /\ vsWorker.pc = "idle"
    /\ vs.present
    /\ LET w == [IdleVS EXCEPT !.spec = vs.spec, !.base = vs.status, !.cur = vs.status]
       IN vsWorker' = IF instance # "ok" THEN SetNotReady(w, instance)
                      ELSE [w EXCEPT !.pc = "get"]
    /\ UNCHANGED <<vs, realm, budget>> /\ VSFrame

RealmDiff(current, spec) ==
    {f \in RealmFields : spec[f] # None /\ spec[f] # current[f]}

\* A virtual server that Keyline does not have is an error like any other.
GetVS ==
    /\ vsWorker.pc = "get"
    /\ \/ /\ realm # None
          /\ LET diff == RealmDiff(realm, vsWorker.spec) IN
             vsWorker' = IF diff = {} THEN SetReady(vsWorker)
                         ELSE [vsWorker EXCEPT !.pc = "patch", !.diff = diff]
          /\ UNCHANGED budget
       \/ /\ realm = None
          /\ vsWorker' = SetNotReady(vsWorker, "GetFailed")
          /\ UNCHANGED budget
       \/ /\ Faulty("GetRealm")
          /\ vsWorker' = SetNotReady(vsWorker, "GetFailed")
    /\ UNCHANGED <<vs, realm>> /\ VSFrame

PatchedRealm ==
    [f \in RealmFields |-> IF f \in vsWorker.diff THEN vsWorker.spec[f] ELSE realm[f]]

\* A call that fails may have taken effect.
PatchVS ==
    /\ vsWorker.pc = "patch"
    /\ \/ /\ realm # None
          /\ realm' = PatchedRealm
          /\ vsWorker' = SetReady(vsWorker)
          /\ UNCHANGED budget
       \/ /\ realm = None
          /\ vsWorker' = SetNotReady(vsWorker, "PatchFailed")
          /\ UNCHANGED <<realm, budget>>
       \/ /\ Faulty("PatchRealm")
          /\ realm' \in {realm} \cup IF realm = None THEN {} ELSE {PatchedRealm}
          /\ vsWorker' = SetNotReady(vsWorker, "PatchFailed")
    /\ UNCHANGED vs /\ VSFrame

StatusVS ==
    /\ vsWorker.pc = "status"
    /\ \/ /\ vs' = IF ~vs.present THEN vs
                   ELSE [vs EXCEPT !.status = MergeFrom(vsWorker.base, vsWorker.cur, @)]
          /\ UNCHANGED budget
       \/ /\ Faulty("RealmStatusPatch")
          /\ UNCHANGED vs
    /\ vsWorker' = IdleVS
    /\ UNCHANGED realm /\ VSFrame

-----------------------------------------------------------------------------
(* The pass over the project *)

ProjectFrame == UNCHANGED <<vsVars, appVars, instance, realm, apps>>

\* Why a pass below the virtual server stops before its first call to Keyline,
\* in the code's order.  The instance's own condition is not looked at.
VSBlockers ==
    IF ~vs.present THEN {"VirtualServerNotFound"}
    ELSE IF ~IsReady(vs.status) THEN {"VirtualServerNotReady"}
    ELSE {instance} \cap {"InstanceNotFound", "SecretNotFound"}

BeginProject ==
    /\ projWorker.pc = "idle"
    /\ proj.present
    /\ LET w == [IdleProject EXCEPT !.base = proj.status, !.cur = proj.status]
       IN \/ /\ VSBlockers = {}
             /\ projWorker' = [w EXCEPT !.pc = "get"]
          \/ \E reason \in VSBlockers : projWorker' = SetNotReady(w, reason)
    /\ UNCHANGED <<proj, project, budget>> /\ ProjectFrame

GetProject ==
    /\ projWorker.pc = "get"
    /\ \/ /\ projWorker' = IF project THEN SetReady(projWorker)
                           ELSE [projWorker EXCEPT !.pc = "create"]
          /\ UNCHANGED budget
       \/ /\ Faulty("GetProject")
          /\ projWorker' = SetNotReady(projWorker, "GetFailed")
    /\ UNCHANGED <<proj, project>> /\ ProjectFrame

\* Keyline creates the project where it has the virtual server.
CreateProject ==
    /\ projWorker.pc = "create"
    /\ \/ /\ realm # None
          /\ project' = TRUE
          /\ projWorker' = SetReady(projWorker)
          /\ UNCHANGED budget
       \/ /\ realm = None
          /\ projWorker' = SetNotReady(projWorker, "CreateFailed")
          /\ UNCHANGED <<project, budget>>
       \/ /\ Faulty("CreateProject")
          /\ project' \in {project, realm # None}
          /\ projWorker' = SetNotReady(projWorker, "CreateFailed")
    /\ UNCHANGED proj /\ ProjectFrame

StatusProject ==
    /\ projWorker.pc = "status"
    /\ \/ /\ proj' = IF ~proj.present THEN proj
                     ELSE [proj EXCEPT !.status =
                              MergeFrom(projWorker.base, projWorker.cur, @)]
          /\ UNCHANGED budget
       \/ /\ Faulty("ProjectStatusPatch")
          /\ UNCHANGED proj
    /\ projWorker' = IdleProject
    /\ UNCHANGED project /\ ProjectFrame

-----------------------------------------------------------------------------
(* The pass over the application *)

AppFrame == UNCHANGED <<vsVars, projVars, instance, realm, project>>

AppBlockers ==
    IF ~proj.present THEN {"ProjectNotFound"}
    ELSE IF ~IsReady(proj.status) THEN {"ProjectNotReady"}
    ELSE VSBlockers

BeginApp ==
    /\ appWorker.pc = "idle"
    /\ Cached.present
    /\ LET w == [IdleApp EXCEPT !.spec = Cached.spec, !.base = Cached.status,
                                !.cur = Cached.status]
       IN \/ /\ AppBlockers = {}
             /\ appWorker' = [w EXCEPT !.pc = IF w.cur.appId = None THEN "list"
                                              ELSE "get"]
          \/ \E reason \in AppBlockers : appWorker' = SetNotReady(w, reason)
    /\ UNCHANGED <<appLog, apps, budget>> /\ AppFrame

Matches(name) == {id \in Live : apps[id].name = name}

\* Search by name to recover after status loss.
ListApps ==
    /\ appWorker.pc = "list"
    /\ \/ /\ project
          /\ IF Matches(appWorker.spec.name) = {}
             THEN appWorker' = [appWorker EXCEPT !.pc = "create"]
             ELSE \E id \in Matches(appWorker.spec.name) :
                    appWorker' = [appWorker EXCEPT !.pc = "get", !.cur.appId = id]
          /\ UNCHANGED budget
       \/ /\ ~project
          /\ appWorker' = SetNotReady(appWorker, "ListFailed")
          /\ UNCHANGED budget
       \/ /\ Faulty("ListApps")
          /\ appWorker' = SetNotReady(appWorker, "ListFailed")
    /\ UNCHANGED <<appLog, apps>> /\ AppFrame

\* mutant: what the creation left out is forgotten
AppDiffAlways(existing, spec) == {f \in AlwaysCompared : existing[f] # spec[f]}

\* buildApplicationPatch: the fields for which it makes a request, ...
AppDiff(existing, spec) ==
    {f \in AlwaysCompared : existing[f] # spec[f]}
        \cup {f \in ComparedIfSet : spec[f] # None /\ existing[f] # spec[f]}

\* ... and what the request says of them: nil says nothing.
Sent(diff, spec) == {f \in diff : spec[f] # None}

KeepAppId(w) == [w EXCEPT !.pc = "create"]  \* mutant: the stale id is kept

\* 404: fall through to create.
ForgetAppId(w) == [w EXCEPT !.pc = "create", !.cur.appId = None]

GetApp ==
    LET id == appWorker.cur.appId
        diff == AppDiff(apps[id].fields, appWorker.spec.fields)
    IN  /\ appWorker.pc = "get"
        /\ \/ /\ appWorker' =
                    IF id \notin Live THEN ForgetAppId(appWorker)
                    ELSE IF diff = {} THEN SetReady(appWorker)
                    ELSE [appWorker EXCEPT !.pc = "patch", !.diff = diff]
              /\ UNCHANGED budget
           \/ /\ Faulty("GetApp")
              /\ appWorker' = SetNotReady(appWorker, "GetFailed")
        /\ UNCHANGED <<appLog, apps>> /\ AppFrame

PatchedApps ==
    [apps EXCEPT ![appWorker.cur.appId].fields = [f \in AppFields |->
        IF f \in Sent(appWorker.diff, appWorker.spec.fields)
        THEN appWorker.spec.fields[f] ELSE @[f]]]

PatchApp ==
    LET live == appWorker.cur.appId \in Live IN
    /\ appWorker.pc = "patch"
    /\ \/ /\ live
          /\ apps' = PatchedApps
          /\ appWorker' = SetReady(appWorker)
          /\ UNCHANGED budget
       \/ /\ ~live
          /\ appWorker' = SetNotReady(appWorker, "PatchFailed")
          /\ UNCHANGED <<apps, budget>>
       \/ /\ Faulty("PatchApp")
          /\ apps' \in {apps} \cup IF live THEN {PatchedApps} ELSE {}
          /\ appWorker' = SetNotReady(appWorker, "PatchFailed")
    /\ UNCHANGED appLog /\ AppFrame

\* The request to create does not carry the claims mapping script.
CreatedFields(spec) ==
    [f \in AppFields |-> IF f = "claimsMappingScript" \/ spec[f] = None
                         THEN AppDefault[f] ELSE spec[f]]

\* "Name is the unique application identifier in Keyline": Keyline refuses a
\* name that it has.
CanCreate == project /\ Matches(appWorker.spec.name) = {}

CreateAt(id) ==
    /\ CanCreate
    /\ apps[id].state = "unused"
    /\ apps' = [apps EXCEPT ![id] =
                    [state |-> "live", name |-> appWorker.spec.name,
                     fields |-> CreatedFields(appWorker.spec.fields)]]

CreateApp ==
    /\ appWorker.pc = "create"
    /\ \/ /\ \E id \in Ids :
                /\ CreateAt(id)
                /\ appWorker' = SetReady([appWorker EXCEPT !.cur.appId = id])
          /\ UNCHANGED budget
       \/ /\ ~CanCreate
          /\ appWorker' = SetNotReady(appWorker, "CreateFailed")
          /\ UNCHANGED <<apps, budget>>
       \/ /\ Faulty("CreateApp")
          /\ UNCHANGED apps \/ \E id \in Ids : CreateAt(id)
          /\ appWorker' = SetNotReady(appWorker, "CreateFailed")
    /\ UNCHANGED appLog /\ AppFrame

PatchedStatus == MergeFrom(appWorker.base, appWorker.cur, Stored.status)

StatusApp ==
    /\ appWorker.pc = "status"
    /\ \/ /\ IF Stored.present /\ PatchedStatus # Stored.status
             THEN Publish([Stored EXCEPT !.status = PatchedStatus])
             ELSE UNCHANGED appLog
          /\ UNCHANGED budget
       \/ /\ Faulty("AppStatusPatch")
          /\ UNCHANGED appLog
    /\ appWorker' = IdleApp
    /\ UNCHANGED apps /\ AppFrame

-----------------------------------------------------------------------------
(* The environment *)

Deliver ==
    /\ Len(appLog) > 1
    /\ appLog' = Tail(appLog)
    /\ UNCHANGED <<vsVars, projVars, appWorker, instance, keylineVars, budget>>

\* A client creates, updates or deletes one of the three objects.
EditVS ==
    /\ Spend("change")
    /\ \/ \E s \in RealmSpecs \ {vs.spec} :
            vs' = IF vs.present THEN [vs EXCEPT !.spec = s] ELSE NewRealm(s)
       \/ vs.present /\ vs' = NoRealm
    /\ UNCHANGED <<vsWorker, projVars, appVars, instance, keylineVars>>

EditProject ==
    /\ Spend("change")
    /\ proj' = IF proj.present THEN NoProject ELSE NewProject
    /\ UNCHANGED <<vsVars, projWorker, appVars, instance, keylineVars>>

EditApp ==
    /\ Spend("change")
    /\ \/ \E s \in AppSpecs \ {Stored.spec} :
            Publish(IF Stored.present THEN [Stored EXCEPT !.spec = s] ELSE NewApp(s))
       \/ Stored.present /\ Publish(NoApp)
    /\ UNCHANGED <<vsVars, projVars, appWorker, instance, keylineVars>>

\* The process dies with its passes; the new informer lists the objects.
Crash ==
    /\ Spend("change")
    /\ vsWorker' = IdleVS /\ projWorker' = IdleProject /\ appWorker' = IdleApp
    /\ appLog' = <<Stored>>
    /\ UNCHANGED <<vs, proj, instance, keylineVars>>

InstanceChange(i) ==
    /\ Spend("change")
    /\ i # instance
    /\ instance' = i
    /\ UNCHANGED <<vsVars, projVars, appVars, keylineVars>>

WithoutApps(S) ==
    [id \in Ids |-> IF id \in S THEN [Unused EXCEPT !.state = "gone"] ELSE apps[id]]

\* In Keyline someone deletes an application, the project with all of them, or
\* the virtual server with everything in it; or creates the latter.  A Keyline
\* with the in-memory database loses everything when its pod is restarted, and
\* creates a virtual server of its own, which may be this one.
KeylineChange ==
    /\ Spend("change")
    /\ \/ /\ \E id \in Live : apps' = WithoutApps({id})
          /\ UNCHANGED <<realm, project>>
       \/ /\ project /\ project' = FALSE
          /\ apps' = WithoutApps(Live)
          /\ UNCHANGED realm
       \/ /\ realm' \in {None, RealmDefault}
          /\ project' = FALSE
          /\ apps' = WithoutApps(Live)
    /\ UNCHANGED <<vsVars, projVars, appVars, instance>>

-----------------------------------------------------------------------------
(* Specification *)

Init ==
    /\ \E s \in FirstRealmSpecs : vs = NewRealm(s)
    /\ vsWorker = IdleVS
    /\ proj = NewProject
    /\ projWorker = IdleProject
    /\ \E s \in FirstAppSpecs : appLog = <<NewApp(s)>>
    /\ appWorker = IdleApp
    /\ instance = "ok"
    /\ realm \in {None, RealmDefault}
    /\ project = FALSE
    /\ apps = [id \in Ids |-> Unused]
    /\ budget = Budget

ReconcileVS == BeginVS \/ GetVS \/ PatchVS \/ StatusVS

ReconcileProject == BeginProject \/ GetProject \/ CreateProject \/ StatusProject

ReconcileApp ==
    BeginApp \/ ListApps \/ GetApp \/ PatchApp \/ CreateApp \/ StatusApp

Environment ==
    \/ EditVS \/ EditProject \/ EditApp
    \/ Crash
    \/ \E i \in InstanceStates : InstanceChange(i)
    \/ KeylineChange

Next == ReconcileVS \/ ReconcileProject \/ ReconcileApp \/ Deliver \/ Environment

\* Each reconciler's worker goes on and the watch delivers.
Fairness ==
    /\ WF_vars(ReconcileVS) /\ WF_vars(ReconcileProject) /\ WF_vars(ReconcileApp)
    /\ WF_vars(Deliver)

Spec == Init /\ [][Next]_vars /\ Fairness

-----------------------------------------------------------------------------
(* Properties *)

CondType == [ready : BOOLEAN, reason : Reasons]
StatusType == [cond : CondType]
RealmObject == [present : BOOLEAN, spec : RealmSpecType, status : StatusType]
VSWorkerType == [pc : {"idle", "get", "patch", "status"}, spec : RealmSpecType,
                 base : StatusType, cur : StatusType, diff : SUBSET RealmFields]
ProjectObject == [present : BOOLEAN, status : StatusType]
ProjectWorkerType == [pc : {"idle", "get", "create", "status"},
                      base : StatusType, cur : StatusType]
AppStatusType == [appId : Ids \cup {None}, cond : CondType]
AppSpecOrNone == AppSpecType \cup {NoAppSpec}
AppVersion == [present : BOOLEAN, spec : AppSpecOrNone, status : AppStatusType]
AppWorkerType == [pc : {"idle", "list", "get", "patch", "create", "status"},
                  spec : AppSpecOrNone, base : AppStatusType,
                  cur : AppStatusType, diff : SUBSET AppFields]
KeylineApp == [state : {"unused", "live", "gone"}, name : Names \cup {None},
               fields : [AppFields -> Values \cup {None}]]

\* The values of the variables.
TypeOK ==
    /\ vs \in RealmObject /\ vsWorker \in VSWorkerType
    /\ proj \in ProjectObject /\ projWorker \in ProjectWorkerType
    /\ appLog \in Seq(AppVersion) /\ Len(appLog) \in 1 .. MaxLag + 1
    /\ appWorker \in AppWorkerType
    /\ instance \in InstanceStates
    /\ realm \in [RealmFields -> Values] \cup {None}
    /\ project \in BOOLEAN
    /\ apps \in [Ids -> KeylineApp]
    /\ budget \in [BudgetKinds -> Nat]

\* An empty set if the reconciler has what it needs: else why not.
VSMissing ==
    IF instance # "ok" THEN {instance} ELSE IF realm = None THEN {"GetFailed"} ELSE {}

RealmInSync == \A f \in RealmFields : vs.spec[f] \in {None, realm[f]}

VSSettled ==
    vs.present =>
        IF VSMissing = {} THEN IsReady(vs.status) /\ RealmInSync
        ELSE ~IsReady(vs.status) /\ vs.status.cond.reason \in VSMissing

ProjectSettled ==
    proj.present =>
        IF VSBlockers = {} THEN IsReady(proj.status) /\ project
        ELSE ~IsReady(proj.status) /\ proj.status.cond.reason \in VSBlockers

AppInSync(id) ==
    /\ id \in Live
    /\ \A f \in AppFields \ {"type"} :
        Stored.spec.fields[f] \in {None, apps[id].fields[f]}

AppSettled ==
    Stored.present =>
        IF AppBlockers = {} THEN IsReady(Stored.status) /\ AppInSync(Stored.status.appId)
        ELSE ~IsReady(Stored.status) /\ Stored.status.cond.reason \in AppBlockers

\* Whatever was edited, failed, crashed or was lost in Keyline - up to all of
\* its data, with the conditions still Ready - the three reconcilers end up
\* with the virtual server's and the application's fields as the specs set
\* them and the project between them, or each names what it waits for.
EventuallySynced == <>[](VSSettled /\ ProjectSettled /\ AppSettled)

\* The application is a NamedResource.
Registration == INSTANCE NamedResource WITH
    objects <- [id \in Ids |-> IF id \in Live THEN apps[id].name ELSE apps[id].state],
    bound <- Stored.status.appId,
    wanted <- /\ Stored.present /\ proj.present /\ vs.present
              /\ instance = "ok" /\ realm # None

\* The application's id in the status never leaves an application that Keyline
\* still has, and leads, in the end, to one that it has: a creation that
\* Keyline refuses because an earlier one got through is recovered from.
ImplementsNamedResource == Registration!Spec

\* "SigningAlgorithm overrides the virtual server's signing algorithm": an
\* application whose spec does not override it ends up without an override,
\* and with no other value that its spec does not have.
EventuallyAsSpecified ==
    <>[]((Stored.present /\ IsReady(Stored.status)) =>
            \A f \in AlwaysCompared :
                apps[Stored.status.appId].fields[f] = Stored.spec.fields[f])

=============================================================================
