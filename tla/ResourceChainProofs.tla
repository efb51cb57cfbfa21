-------------------------- MODULE ResourceChainProofs --------------------------
(***************************************************************************)
(* Proofs about ResourceChain, for every value of its constants.           *)
(***************************************************************************)
EXTENDS ResourceChain, TLAPS

\* Recording a condition keeps each of the three kinds of pass well typed, and
\* the snapshot and the id as they are.
LEMMA ConditionTypes ==
    ASSUME NEW reason \in Reasons
    PROVE  /\ \A w \in VSWorkerType :
                /\ SetNotReady(w, reason) \in VSWorkerType
                /\ SetReady(w) \in VSWorkerType
                /\ SetNotReady(w, reason).spec = w.spec /\ SetReady(w).spec = w.spec
                /\ SetNotReady(w, reason).diff = w.diff /\ SetReady(w).diff = w.diff
           /\ \A w \in ProjectWorkerType :
                /\ SetNotReady(w, reason) \in ProjectWorkerType
                /\ SetReady(w) \in ProjectWorkerType
           /\ \A w \in AppWorkerType :
                /\ SetNotReady(w, reason) \in AppWorkerType
                /\ SetReady(w) \in AppWorkerType
<1> USE DEF SetNotReady, SetReady, setNotReadyCondition, setReadyCondition,
            CondType, Reasons
<1>1. \A w \in VSWorkerType :
        /\ SetNotReady(w, reason) \in VSWorkerType
        /\ SetReady(w) \in VSWorkerType
        /\ SetNotReady(w, reason).spec = w.spec /\ SetReady(w).spec = w.spec
        /\ SetNotReady(w, reason).diff = w.diff /\ SetReady(w).diff = w.diff
  BY DEF VSWorkerType, StatusType
<1>2. \A w \in ProjectWorkerType :
        SetNotReady(w, reason) \in ProjectWorkerType /\ SetReady(w) \in ProjectWorkerType
  BY DEF ProjectWorkerType, StatusType
<1>3. \A w \in AppWorkerType :
        SetNotReady(w, reason) \in AppWorkerType /\ SetReady(w) \in AppWorkerType
  BY DEF AppWorkerType, AppStatusType
<1> QED
  BY <1>1, <1>2, <1>3

\* A merge patch of a status makes a status.
LEMMA MergeFromTypes ==
    /\ \A b, c, s \in StatusType : MergeFrom(b, c, s) \in StatusType
    /\ \A b, c, s \in AppStatusType : MergeFrom(b, c, s) \in AppStatusType
  BY DEF MergeFrom, StatusType, AppStatusType

\* The constant values of the model have the types TypeOK gives them.
LEMMA ConstantTypes ==
    /\ NoRealm \in RealmObject /\ IdleVS \in VSWorkerType
    /\ \A s \in RealmSpecs : NewRealm(s) \in RealmObject
    /\ NewProject \in ProjectObject /\ NoProject \in ProjectObject
    /\ IdleProject \in ProjectWorkerType
    /\ NoApp \in AppVersion /\ IdleApp \in AppWorkerType
    /\ \A s \in AppSpecs : NewApp(s) \in AppVersion
    /\ Unused \in KeylineApp
    /\ [Unused EXCEPT !.state = "gone"] \in KeylineApp
<1> USE DEF NoCondition, CondType, Reasons
<1>1. NewStatus \in StatusType /\ NewAppStatus \in AppStatusType
  BY DEF NewStatus, NewAppStatus, StatusType, AppStatusType
<1>2. NoRealmSpec \in RealmSpecType /\ NoAppSpec \in AppSpecOrNone
  BY DEF NoRealmSpec, RealmSpecType, AppSpecOrNone
<1>3. RealmSpecs \subseteq RealmSpecType /\ AppSpecs \subseteq AppSpecOrNone
  BY SpecsAssumption DEF AppSpecOrNone
<1>4. /\ NoRealm \in RealmObject /\ IdleVS \in VSWorkerType
      /\ \A s \in RealmSpecs : NewRealm(s) \in RealmObject
  BY <1>1, <1>2, <1>3 DEF NoRealm, IdleVS, NewRealm, RealmObject, VSWorkerType
<1>5. /\ NewProject \in ProjectObject /\ NoProject \in ProjectObject
      /\ IdleProject \in ProjectWorkerType
  BY <1>1 DEF NewProject, NoProject, IdleProject, ProjectObject, ProjectWorkerType
<1>6. /\ NoApp \in AppVersion /\ IdleApp \in AppWorkerType
      /\ \A s \in AppSpecs : NewApp(s) \in AppVersion
  BY <1>1, <1>2, <1>3 DEF NoApp, IdleApp, NewApp, AppVersion, AppWorkerType
<1>7. Unused \in KeylineApp /\ [Unused EXCEPT !.state = "gone"] \in KeylineApp
  BY DEF Unused, NoFields, KeylineApp
<1> QED
  BY <1>4, <1>5, <1>6, <1>7

-----------------------------------------------------------------------------
(* The log of the application's versions *)

LogType == appLog \in Seq(AppVersion) /\ Len(appLog) \in 1 .. MaxLag + 1

\* Every version of the log after a step is an old one or v, and v is last.
LogGets(v) ==
    /\ appLog'[Len(appLog')] = v
    /\ \A i \in DOMAIN appLog' :
        appLog'[i] = v \/ \E j \in DOMAIN appLog : appLog'[i] = appLog[j]

LEMMA PublishLog ==
    ASSUME LogType, NEW v \in AppVersion, Publish(v)
    PROVE  LogType' /\ LogGets(v)
<1> USE BoundsAssumption DEF LogType, LogGets
<1>1. CASE Len(appLog) > MaxLag
  <2>1. /\ Tail(appLog) \in Seq(AppVersion)
        /\ Len(Tail(appLog)) = Len(appLog) - 1
        /\ \A i \in 1 .. Len(appLog) - 1 : Tail(appLog)[i] = appLog[i + 1]
    OBVIOUS
  <2>2. appLog' = Append(Tail(appLog), v)
    BY <1>1 DEF Publish
  <2>3. Len(appLog') = Len(appLog) /\ appLog' \in Seq(AppVersion)
    BY <2>1, <2>2
  <2>4. \A i \in 1 .. Len(appLog) - 1 : appLog'[i] = appLog[i + 1]
    BY <2>1, <2>2
  <2>5. appLog'[Len(appLog)] = v
    BY <2>1, <2>2
  <2> QED
    BY <2>3, <2>4, <2>5
<1>2. CASE ~(Len(appLog) > MaxLag)
  <2>1. appLog' = Append(appLog, v)
    BY <1>2 DEF Publish
  <2>2. Len(appLog') = Len(appLog) + 1 /\ appLog' \in Seq(AppVersion)
    BY <2>1
  <2>3. \A i \in 1 .. Len(appLog) : appLog'[i] = appLog[i]
    BY <2>1
  <2>4. appLog'[Len(appLog) + 1] = v
    BY <2>1
  <2> QED
    BY <1>2, <2>2, <2>3, <2>4
<1> QED
  BY <1>1, <1>2

\* A delivery drops the head only.
LEMMA DeliverLog ==
    ASSUME LogType, Deliver
    PROVE  /\ LogType' /\ Stored' = Stored
           /\ \A i \in DOMAIN appLog' :
                \E j \in DOMAIN appLog : appLog'[i] = appLog[j]
<1>1. /\ Tail(appLog) \in Seq(AppVersion)
      /\ Len(Tail(appLog)) = Len(appLog) - 1
      /\ \A i \in 1 .. Len(appLog) - 1 : Tail(appLog)[i] = appLog[i + 1]
  BY DEF LogType, Deliver
<1>2. LogType'
  BY <1>1, BoundsAssumption DEF Deliver, LogType
<1>3. \A i \in DOMAIN appLog' : i + 1 \in DOMAIN appLog /\ appLog'[i] = appLog[i + 1]
  BY <1>1 DEF Deliver, LogType
<1>4. Stored' = Stored
  BY <1>1, <1>2, <1>3 DEF Deliver, LogType, Stored
<1> QED
  BY <1>2, <1>3, <1>4

\* Both ends of the log are versions of it.
LEMMA EndsOfLog ==
    ASSUME LogType
    PROVE  /\ 1 \in DOMAIN appLog /\ Cached = appLog[1] /\ Cached \in AppVersion
           /\ Len(appLog) \in DOMAIN appLog /\ Stored \in AppVersion
  BY BoundsAssumption DEF LogType, Cached, Stored

-----------------------------------------------------------------------------
(* The inductive invariant behind TypeOK *)

\* The request to patch the virtual server names fields that the spec sets, so
\* that Keyline's fields always have a value.
VSTyped == /\ vs \in RealmObject /\ vsWorker \in VSWorkerType
           /\ \A f \in vsWorker.diff : vsWorker.spec[f] # None

ProjTyped == proj \in ProjectObject /\ projWorker \in ProjectWorkerType

AppTyped == LogType /\ appWorker \in AppWorkerType

KeylineTyped == /\ realm \in [RealmFields -> Values] \cup {None}
                /\ project \in BOOLEAN
                /\ apps \in [Ids -> KeylineApp]

RestTyped == instance \in InstanceStates /\ budget \in [BudgetKinds -> Nat]

IInv == VSTyped /\ ProjTyped /\ AppTyped /\ KeylineTyped /\ RestTyped

LEMMA InitIInv == Init => IInv
<1> SUFFICES ASSUME Init PROVE IInv
  OBVIOUS
<1> USE ConstantTypes, SpecsAssumption, BoundsAssumption
<1>1. VSTyped
  BY DEF Init, VSTyped, IdleVS
<1>2. ProjTyped
  BY DEF Init, ProjTyped
<1>3. AppTyped
  <2> PICK s \in FirstAppSpecs : appLog = <<NewApp(s)>>
    BY DEF Init
  <2>1. NewApp(s) \in AppVersion
    OBVIOUS
  <2> QED
    BY <2>1 DEF Init, AppTyped, LogType
<1>4. KeylineTyped /\ RestTyped
  BY DEF Init, KeylineTyped, RestTyped
<1> QED
  BY <1>1, <1>2, <1>3, <1>4 DEF IInv

\* The counters of faults and changes stay natural numbers.
LEMMA SpendType ==
    ASSUME IInv, NEW kind \in BudgetKinds, Spend(kind)
    PROVE  budget' \in [BudgetKinds -> Nat]
  BY DEF Spend, IInv, RestTyped

LEMMA FaultyType ==
    ASSUME IInv, NEW call, Faulty(call)
    PROVE  budget' \in [BudgetKinds -> Nat]
  BY SpendType DEF Faulty, BudgetKinds

\* What is left to show of a step of one of the three reconcilers.
LEMMA VSPart ==
    ASSUME IInv, VSFrame, VSTyped', realm' \in [RealmFields -> Values] \cup {None},
           budget' \in [BudgetKinds -> Nat]
    PROVE  IInv'
  BY DEF IInv, VSFrame, projVars, appVars, ProjTyped, AppTyped, LogType,
         KeylineTyped, RestTyped

LEMMA ProjectPart ==
    ASSUME IInv, ProjectFrame, ProjTyped', project' \in BOOLEAN,
           budget' \in [BudgetKinds -> Nat]
    PROVE  IInv'
  BY DEF IInv, ProjectFrame, vsVars, appVars, VSTyped, AppTyped, LogType,
         KeylineTyped, RestTyped

LEMMA AppPart ==
    ASSUME IInv, AppFrame, AppTyped', apps' \in [Ids -> KeylineApp],
           budget' \in [BudgetKinds -> Nat]
    PROVE  IInv'
  BY DEF IInv, AppFrame, vsVars, projVars, VSTyped, ProjTyped, KeylineTyped,
         RestTyped

\* A pass over the virtual server that has nothing left but its status patch.
LEMMA VSReturns ==
    ASSUME IInv, UNCHANGED vs, NEW reason \in Reasons,
           vsWorker' \in {SetNotReady(vsWorker, reason), SetReady(vsWorker)}
    PROVE  VSTyped'
  BY ConditionTypes DEF IInv, VSTyped

LEMMA BeginVSIInv == IInv /\ BeginVS => IInv'
<1> SUFFICES ASSUME IInv, BeginVS PROVE IInv'
  OBVIOUS
<1> DEFINE w == [IdleVS EXCEPT !.spec = vs.spec, !.base = vs.status, !.cur = vs.status]
<1>1. w \in VSWorkerType /\ w.diff = {}
  BY ConstantTypes DEF IInv, VSTyped, RealmObject, VSWorkerType, IdleVS
<1>2. vsWorker' = IF instance # "ok" THEN SetNotReady(w, instance)
                  ELSE [w EXCEPT !.pc = "get"]
  BY DEF BeginVS
<1> HIDE DEF w
<1>3. CASE instance # "ok"
  <2>1. instance \in Reasons
    BY <1>3, BoundsAssumption DEF IInv, RestTyped, Reasons
  <2>2. vsWorker' \in VSWorkerType /\ vsWorker'.diff = {}
    BY <1>1, <1>2, <1>3, <2>1, ConditionTypes
  <2> QED
    BY <2>2, VSPart DEF BeginVS, IInv, VSTyped, KeylineTyped, RestTyped
<1>4. CASE instance = "ok"
  <2>1. vsWorker' \in VSWorkerType /\ vsWorker'.diff = {}
    BY <1>1, <1>2, <1>4 DEF VSWorkerType
  <2> QED
    BY <2>1, VSPart DEF BeginVS, IInv, VSTyped, KeylineTyped, RestTyped
<1> QED
  BY <1>3, <1>4

LEMMA GetVSIInv == IInv /\ GetVS => IInv'
<1> SUFFICES ASSUME IInv, GetVS PROVE IInv'
  OBVIOUS
<1> DEFINE diff == RealmDiff(realm, vsWorker.spec)
<1>1. VSTyped'
  <2>1. CASE vsWorker' = [vsWorker EXCEPT !.pc = "patch", !.diff = diff]
    BY <2>1 DEF GetVS, IInv, VSTyped, VSWorkerType, RealmDiff
  <2>2. CASE vsWorker' = SetReady(vsWorker)
    BY <2>2, VSReturns DEF GetVS, Reasons
  <2>3. CASE vsWorker' = SetNotReady(vsWorker, "GetFailed")
    BY <2>3, VSReturns DEF GetVS, Reasons
  <2> QED
    BY <2>1, <2>2, <2>3 DEF GetVS
<1>2. budget' \in [BudgetKinds -> Nat]
  BY FaultyType DEF GetVS, IInv, RestTyped
<1> QED
  BY <1>1, <1>2, VSPart DEF GetVS, IInv, KeylineTyped

LEMMA PatchVSIInv == IInv /\ PatchVS => IInv'
<1> SUFFICES ASSUME IInv, PatchVS PROVE IInv'
  OBVIOUS
<1>1. VSTyped'
  BY VSReturns DEF PatchVS, Reasons
<1>2. budget' \in [BudgetKinds -> Nat]
  BY FaultyType DEF PatchVS, IInv, RestTyped
<1>3. ASSUME realm # None
      PROVE  PatchedRealm \in [RealmFields -> Values]
  <2>1. /\ realm \in [RealmFields -> Values]
        /\ vsWorker.spec \in [RealmFields -> Values \cup {None}]
        /\ \A f \in vsWorker.diff : vsWorker.spec[f] # None
    BY <1>3 DEF IInv, KeylineTyped, VSTyped, VSWorkerType, RealmSpecType
  <2> QED
    BY <2>1 DEF PatchedRealm
<1>4. realm' \in [RealmFields -> Values] \cup {None}
  BY <1>3 DEF PatchVS, IInv, KeylineTyped
<1> QED
  BY <1>1, <1>2, <1>4, VSPart DEF PatchVS

LEMMA StatusVSIInv == IInv /\ StatusVS => IInv'
<1> SUFFICES ASSUME IInv, StatusVS PROVE IInv'
  OBVIOUS
<1>1. vs' \in RealmObject
  <2>1. /\ vs \in RealmObject /\ vs.status \in StatusType
        /\ vsWorker.base \in StatusType /\ vsWorker.cur \in StatusType
    BY DEF IInv, VSTyped, RealmObject, VSWorkerType
  <2>2. MergeFrom(vsWorker.base, vsWorker.cur, vs.status) \in StatusType
    BY <2>1, MergeFromTypes
  <2> QED
    BY <2>1, <2>2 DEF StatusVS, RealmObject
<1>2. VSTyped'
  BY <1>1, ConstantTypes DEF StatusVS, VSTyped, IdleVS
<1>3. budget' \in [BudgetKinds -> Nat]
  BY FaultyType DEF StatusVS, IInv, RestTyped
<1> QED
  BY <1>2, <1>3, VSPart DEF StatusVS, IInv, KeylineTyped

-----------------------------------------------------------------------------
(* The project's passes *)

\* Every reason to stop early is one that a condition may have.
LEMMA BlockersType ==
    ASSUME IInv
    PROVE  VSBlockers \subseteq Reasons /\ AppBlockers \subseteq Reasons
  BY DEF VSBlockers, AppBlockers, Reasons, NotOk

LEMMA BeginProjectIInv == IInv /\ BeginProject => IInv'
<1> SUFFICES ASSUME IInv, BeginProject PROVE IInv'
  OBVIOUS
<1> DEFINE w == [IdleProject EXCEPT !.base = proj.status, !.cur = proj.status]
<1>1. w \in ProjectWorkerType
  BY ConstantTypes DEF IInv, ProjTyped, ProjectObject, ProjectWorkerType
<1>2. \/ projWorker' = [w EXCEPT !.pc = "get"]
      \/ \E reason \in VSBlockers : projWorker' = SetNotReady(w, reason)
  BY DEF BeginProject
<1> HIDE DEF w
<1>3. projWorker' \in ProjectWorkerType
  <2>1. CASE projWorker' = [w EXCEPT !.pc = "get"]
    BY <1>1, <2>1 DEF ProjectWorkerType
  <2>2. CASE \E reason \in VSBlockers : projWorker' = SetNotReady(w, reason)
    BY <1>1, <2>2, BlockersType, ConditionTypes
  <2> QED
    BY <1>2, <2>1, <2>2
<1> QED
  BY <1>3, ProjectPart DEF BeginProject, IInv, ProjTyped, KeylineTyped, RestTyped

LEMMA GetProjectIInv == IInv /\ GetProject => IInv'
<1> SUFFICES ASSUME IInv, GetProject PROVE IInv'
  OBVIOUS
<1>1. projWorker' \in ProjectWorkerType
  <2>1. projWorker \in ProjectWorkerType
    BY DEF IInv, ProjTyped
  <2>2. CASE projWorker' = [projWorker EXCEPT !.pc = "create"]
    BY <2>1, <2>2 DEF ProjectWorkerType
  <2>3. CASE projWorker' \in {SetReady(projWorker), SetNotReady(projWorker, "GetFailed")}
    BY <2>1, <2>3, ConditionTypes DEF Reasons
  <2> QED
    BY <2>2, <2>3 DEF GetProject
<1>2. budget' \in [BudgetKinds -> Nat]
  BY FaultyType DEF GetProject, IInv, RestTyped
<1> QED
  BY <1>1, <1>2, ProjectPart DEF GetProject, IInv, ProjTyped, KeylineTyped

LEMMA CreateProjectIInv == IInv /\ CreateProject => IInv'
<1> SUFFICES ASSUME IInv, CreateProject PROVE IInv'
  OBVIOUS
<1>1. projWorker' \in ProjectWorkerType
  BY ConditionTypes DEF CreateProject, IInv, ProjTyped, Reasons
<1>2. budget' \in [BudgetKinds -> Nat] /\ project' \in BOOLEAN
  BY FaultyType DEF CreateProject, IInv, RestTyped, KeylineTyped
<1> QED
  BY <1>1, <1>2, ProjectPart DEF CreateProject, IInv, ProjTyped

LEMMA StatusProjectIInv == IInv /\ StatusProject => IInv'
<1> SUFFICES ASSUME IInv, StatusProject PROVE IInv'
  OBVIOUS
<1>1. proj' \in ProjectObject
  <2>1. /\ proj \in ProjectObject /\ proj.status \in StatusType
        /\ projWorker.base \in StatusType /\ projWorker.cur \in StatusType
    BY DEF IInv, ProjTyped, ProjectObject, ProjectWorkerType
  <2>2. MergeFrom(projWorker.base, projWorker.cur, proj.status) \in StatusType
    BY <2>1, MergeFromTypes
  <2> QED
    BY <2>1, <2>2 DEF StatusProject, ProjectObject
<1>2. budget' \in [BudgetKinds -> Nat]
  BY FaultyType DEF StatusProject, IInv, RestTyped
<1> QED
  BY <1>1, <1>2, ProjectPart, ConstantTypes
  DEF StatusProject, IInv, ProjTyped, KeylineTyped

-----------------------------------------------------------------------------
(* The application's passes *)

LEMMA BeginAppIInv == IInv /\ BeginApp => IInv'
<1> SUFFICES ASSUME IInv, BeginApp PROVE IInv'
  OBVIOUS
<1> DEFINE w == [IdleApp EXCEPT !.spec = Cached.spec, !.base = Cached.status,
                                !.cur = Cached.status]
<1>1. Cached \in AppVersion
  BY EndsOfLog DEF IInv, AppTyped
<1>2. w \in AppWorkerType
  BY <1>1, ConstantTypes DEF AppVersion, AppWorkerType
<1>3. \/ appWorker' = [w EXCEPT !.pc = IF w.cur.appId = None THEN "list" ELSE "get"]
      \/ \E reason \in AppBlockers : appWorker' = SetNotReady(w, reason)
  BY DEF BeginApp
<1> HIDE DEF w
<1>4. appWorker' \in AppWorkerType
  <2>1. CASE appWorker' = [w EXCEPT !.pc = IF w.cur.appId = None THEN "list" ELSE "get"]
    BY <1>2, <2>1 DEF AppWorkerType
  <2>2. CASE \E reason \in AppBlockers : appWorker' = SetNotReady(w, reason)
    BY <1>2, <2>2, BlockersType, ConditionTypes
  <2> QED
    BY <1>3, <2>1, <2>2
<1> QED
  BY <1>4, AppPart DEF BeginApp, IInv, AppTyped, LogType, KeylineTyped, RestTyped

\* A pass that takes an id of Keyline's, or forgets the one it had.
LEMMA IdTypes ==
    ASSUME NEW w \in AppWorkerType, NEW id \in Ids \cup {None}
    PROVE  /\ [w EXCEPT !.cur.appId = id] \in AppWorkerType
           /\ [w EXCEPT !.pc = "get", !.cur.appId = id] \in AppWorkerType
           /\ [w EXCEPT !.pc = "create", !.cur.appId = id] \in AppWorkerType
<1> DEFINE c == [w.cur EXCEPT !.appId = id]
<1>1. c \in AppStatusType
  BY DEF AppWorkerType, AppStatusType
<1>2. /\ [w EXCEPT !.cur.appId = id] = [w EXCEPT !.cur = c]
      /\ [w EXCEPT !.pc = "get", !.cur.appId = id] = [w EXCEPT !.pc = "get", !.cur = c]
      /\ [w EXCEPT !.pc = "create", !.cur.appId = id]
            = [w EXCEPT !.pc = "create", !.cur = c]
  BY DEF AppWorkerType, AppStatusType
<1> HIDE DEF c
<1> QED
  BY <1>1, <1>2 DEF AppWorkerType

LEMMA ListAppsIInv == IInv /\ ListApps => IInv'
<1> SUFFICES ASSUME IInv, ListApps PROVE IInv'
  OBVIOUS
<1>1. appWorker' \in AppWorkerType
  <2>1. appWorker \in AppWorkerType
    BY DEF IInv, AppTyped
  <2>2. CASE appWorker' = [appWorker EXCEPT !.pc = "create"]
    BY <2>1, <2>2 DEF AppWorkerType
  <2>3. CASE \E id \in Matches(appWorker.spec.name) :
                appWorker' = [appWorker EXCEPT !.pc = "get", !.cur.appId = id]
    BY <2>1, <2>3, IdTypes DEF Matches, Live
  <2>4. CASE appWorker' = SetNotReady(appWorker, "ListFailed")
    BY <2>1, <2>4, ConditionTypes DEF Reasons
  <2> QED
    BY <2>2, <2>3, <2>4 DEF ListApps
<1>2. budget' \in [BudgetKinds -> Nat]
  BY FaultyType DEF ListApps, IInv, RestTyped
<1> QED
  BY <1>1, <1>2, AppPart DEF ListApps, IInv, AppTyped, LogType, KeylineTyped

LEMMA GetAppIInv == IInv /\ GetApp => IInv'
<1> SUFFICES ASSUME IInv, GetApp PROVE IInv'
  OBVIOUS
<1> DEFINE diff == AppDiff(apps[appWorker.cur.appId].fields, appWorker.spec.fields)
<1>1. appWorker' \in AppWorkerType
  <2>1. appWorker \in AppWorkerType
    BY DEF IInv, AppTyped
  <2>2. CASE appWorker' = ForgetAppId(appWorker)
    BY <2>1, <2>2, IdTypes DEF ForgetAppId
  <2>3. CASE appWorker' = SetReady(appWorker)
    BY <2>1, <2>3, ConditionTypes DEF Reasons
  <2>4. CASE appWorker' = [appWorker EXCEPT !.pc = "patch", !.diff = diff]
    <3>1. diff \subseteq AppFields
      BY DEF AppDiff, AppFields
    <3> HIDE DEF diff
    <3> QED
      BY <2>1, <2>4, <3>1 DEF AppWorkerType
  <2>5. CASE appWorker' = SetNotReady(appWorker, "GetFailed")
    BY <2>1, <2>5, ConditionTypes DEF Reasons
  <2> QED
    BY <2>2, <2>3, <2>4, <2>5 DEF GetApp
<1>2. budget' \in [BudgetKinds -> Nat]
  BY FaultyType DEF GetApp, IInv, RestTyped
<1> QED
  BY <1>1, <1>2, AppPart DEF GetApp, IInv, AppTyped, LogType, KeylineTyped

\* A pass over the application that has nothing left but its status patch.
LEMMA AppReturns ==
    ASSUME IInv, UNCHANGED appLog, NEW reason \in Reasons,
           appWorker' \in {SetNotReady(appWorker, reason), SetReady(appWorker)}
    PROVE  AppTyped'
  BY ConditionTypes DEF IInv, AppTyped, LogType

\* What a patch leaves of an application: its state, its name, and values.
LEMMA PatchedAppsType ==
    ASSUME IInv, appWorker.cur.appId \in Live
    PROVE  /\ PatchedApps \in [Ids -> KeylineApp]
           /\ \A id \in Ids : /\ PatchedApps[id].state = apps[id].state
                              /\ PatchedApps[id].name = apps[id].name
<1> DEFINE id == appWorker.cur.appId
           new == [f \in AppFields |->
                    IF f \in Sent(appWorker.diff, appWorker.spec.fields)
                    THEN appWorker.spec.fields[f] ELSE apps[id].fields[f]]
<1>1. id \in Ids /\ apps \in [Ids -> KeylineApp] /\ apps[id] \in KeylineApp
  BY DEF Live, IInv, KeylineTyped
<1>2. appWorker.spec.fields \in [AppFields -> Values \cup {None}]
  BY DEF IInv, AppTyped, AppWorkerType, AppSpecOrNone, AppSpecType, NoAppSpec, NoFields
<1>3. new \in [AppFields -> Values \cup {None}]
  BY <1>1, <1>2 DEF KeylineApp
<1>4. PatchedApps = [apps EXCEPT ![id] = [apps[id] EXCEPT !.fields = new]]
  BY <1>1 DEF PatchedApps, KeylineApp
<1> HIDE DEF new
<1>5. /\ [apps[id] EXCEPT !.fields = new] \in KeylineApp
      /\ [apps[id] EXCEPT !.fields = new].state = apps[id].state
      /\ [apps[id] EXCEPT !.fields = new].name = apps[id].name
  BY <1>1, <1>3 DEF KeylineApp
<1> QED
  BY <1>1, <1>4, <1>5

LEMMA PatchAppIInv == IInv /\ PatchApp => IInv'
<1> SUFFICES ASSUME IInv, PatchApp PROVE IInv'
  OBVIOUS
<1>1. AppTyped'
  BY AppReturns DEF PatchApp, Reasons
<1>2. budget' \in [BudgetKinds -> Nat]
  BY FaultyType DEF PatchApp, IInv, RestTyped
<1>3. apps' \in [Ids -> KeylineApp]
  BY PatchedAppsType DEF PatchApp, IInv, KeylineTyped
<1> QED
  BY <1>1, <1>2, <1>3, AppPart DEF PatchApp

\* Keyline's answer to a request to create.
LEMMA CreatedType ==
    ASSUME IInv, NEW id \in Ids, CreateAt(id)
    PROVE  /\ apps' \in [Ids -> KeylineApp]
           /\ apps'[id].state = "live" /\ apps'[id].name = appWorker.spec.name
           /\ \A i \in Ids \ {id} : apps'[i] = apps[i]
<1> DEFINE new == [state |-> "live", name |-> appWorker.spec.name,
                   fields |-> CreatedFields(appWorker.spec.fields)]
<1>1. /\ appWorker.spec.name \in Names \cup {None}
      /\ appWorker.spec.fields \in [AppFields -> Values \cup {None}]
  BY DEF IInv, AppTyped, AppWorkerType, AppSpecOrNone, AppSpecType, NoAppSpec, NoFields
<1>2. CreatedFields(appWorker.spec.fields) \in [AppFields -> Values \cup {None}]
  BY <1>1, SpecsAssumption DEF CreatedFields
<1>3. new \in KeylineApp /\ new.state = "live" /\ new.name = appWorker.spec.name
  BY <1>1, <1>2 DEF KeylineApp
<1>4. apps' = [apps EXCEPT ![id] = new]
  BY DEF CreateAt
<1> HIDE DEF new
<1> QED
  BY <1>3, <1>4 DEF IInv, KeylineTyped

LEMMA CreateAppIInv == IInv /\ CreateApp => IInv'
<1> SUFFICES ASSUME IInv, CreateApp PROVE IInv'
  OBVIOUS
<1>1. AppTyped'
  <2>1. CASE appWorker' = SetNotReady(appWorker, "CreateFailed")
    BY <2>1, AppReturns DEF CreateApp, Reasons
  <2>2. ASSUME NEW id \in Ids,
               appWorker' = SetReady([appWorker EXCEPT !.cur.appId = id])
        PROVE  AppTyped'
    <3>1. [appWorker EXCEPT !.cur.appId = id] \in AppWorkerType
      BY IdTypes DEF IInv, AppTyped
    <3>2. appWorker' \in AppWorkerType
      BY <2>2, <3>1, ConditionTypes DEF Reasons
    <3> QED
      BY <3>2 DEF CreateApp, IInv, AppTyped, LogType
  <2> QED
    BY <2>1, <2>2 DEF CreateApp
<1>2. budget' \in [BudgetKinds -> Nat]
  BY FaultyType DEF CreateApp, IInv, RestTyped
<1>3. apps' \in [Ids -> KeylineApp]
  BY CreatedType DEF CreateApp, IInv, KeylineTyped
<1> QED
  BY <1>1, <1>2, <1>3, AppPart DEF CreateApp

LEMMA StatusAppIInv == IInv /\ StatusApp => IInv'
<1> SUFFICES ASSUME IInv, StatusApp PROVE IInv'
  OBVIOUS
<1> DEFINE v == [Stored EXCEPT !.status = PatchedStatus]
<1>1. v \in AppVersion
  <2>1. Stored \in AppVersion /\ appWorker \in AppWorkerType
    BY EndsOfLog DEF IInv, AppTyped
  <2>2. PatchedStatus \in AppStatusType
    BY <2>1, MergeFromTypes DEF PatchedStatus, AppVersion, AppWorkerType
  <2> QED
    BY <2>1, <2>2 DEF AppVersion
<1>2. LogType'
  <2>1. LogType
    BY DEF IInv, AppTyped
  <2>2. Publish(v) \/ UNCHANGED appLog
    BY DEF StatusApp
  <2> HIDE DEF v
  <2> QED
    BY <1>1, <2>1, <2>2, PublishLog DEF LogType
<1>3. budget' \in [BudgetKinds -> Nat]
  BY FaultyType DEF StatusApp, IInv, RestTyped
<1> QED
  BY <1>2, <1>3, AppPart, ConstantTypes DEF StatusApp, IInv, AppTyped, KeylineTyped

-----------------------------------------------------------------------------
(* The environment's steps *)

LEMMA DeliverIInv == IInv /\ Deliver => IInv'
<1> SUFFICES ASSUME IInv, Deliver PROVE IInv'
  OBVIOUS
<1>1. LogType'
  BY DeliverLog DEF IInv, AppTyped
<1> QED
  BY <1>1 DEF Deliver, vsVars, projVars, keylineVars, IInv, VSTyped, ProjTyped,
              AppTyped, KeylineTyped, RestTyped

LEMMA EditVSIInv == IInv /\ EditVS => IInv'
<1> SUFFICES ASSUME IInv, EditVS PROVE IInv'
  OBVIOUS
<1>1. vs' \in RealmObject
  BY ConstantTypes, SpecsAssumption DEF EditVS, IInv, VSTyped, RealmObject
<1>2. budget' \in [BudgetKinds -> Nat]
  BY SpendType DEF EditVS, BudgetKinds
<1> QED
  BY <1>1, <1>2 DEF EditVS, projVars, appVars, keylineVars, IInv, VSTyped,
                    ProjTyped, AppTyped, LogType, KeylineTyped, RestTyped

LEMMA EditProjectIInv == IInv /\ EditProject => IInv'
<1> SUFFICES ASSUME IInv, EditProject PROVE IInv'
  OBVIOUS
<1>1. proj' \in ProjectObject
  BY ConstantTypes DEF EditProject
<1>2. budget' \in [BudgetKinds -> Nat]
  BY SpendType DEF EditProject, BudgetKinds
<1> QED
  BY <1>1, <1>2 DEF EditProject, vsVars, appVars, keylineVars, IInv, VSTyped,
                    ProjTyped, AppTyped, LogType, KeylineTyped, RestTyped

\* What a client makes of the application is a version of it.
LEMMA EditedType ==
    ASSUME IInv, NEW s \in AppSpecs
    PROVE  [Stored EXCEPT !.spec = s] \in AppVersion
<1>1. Stored \in AppVersion /\ s \in AppSpecOrNone
  BY EndsOfLog, SpecsAssumption DEF IInv, AppTyped, AppSpecOrNone
<1> QED
  BY <1>1 DEF AppVersion

LEMMA EditAppIInv == IInv /\ EditApp => IInv'
<1> SUFFICES ASSUME IInv, EditApp PROVE IInv'
  OBVIOUS
<1>1. LogType'
  <2>1. \E v \in AppVersion : Publish(v)
    BY EditedType, ConstantTypes DEF EditApp
  <2> QED
    BY <2>1, PublishLog DEF IInv, AppTyped
<1>2. budget' \in [BudgetKinds -> Nat]
  BY SpendType DEF EditApp, BudgetKinds
<1> QED
  BY <1>1, <1>2 DEF EditApp, vsVars, projVars, keylineVars, IInv, VSTyped,
                    ProjTyped, AppTyped, KeylineTyped, RestTyped

LEMMA CrashIInv == IInv /\ Crash => IInv'
<1> SUFFICES ASSUME IInv, Crash PROVE IInv'
  OBVIOUS
<1>1. LogType'
  <2>1. Stored \in AppVersion
    BY EndsOfLog DEF IInv, AppTyped
  <2> QED
    BY <2>1, BoundsAssumption DEF Crash, LogType
<1>2. vsWorker'.diff = {}
  BY DEF Crash, IdleVS
<1>3. budget' \in [BudgetKinds -> Nat]
  BY SpendType DEF Crash, BudgetKinds
<1> QED
  BY <1>1, <1>2, <1>3, ConstantTypes DEF Crash, keylineVars, IInv, VSTyped,
     ProjTyped, AppTyped, KeylineTyped, RestTyped

LEMMA InstanceChangeIInv ==
    ASSUME NEW i \in InstanceStates, IInv, InstanceChange(i) PROVE IInv'
<1>1. budget' \in [BudgetKinds -> Nat]
  BY SpendType DEF InstanceChange, BudgetKinds
<1> QED
  BY <1>1 DEF InstanceChange, vsVars, projVars, appVars, keylineVars, IInv,
              VSTyped, ProjTyped, AppTyped, LogType, KeylineTyped, RestTyped

LEMMA KeylineChangeIInv == IInv /\ KeylineChange => IInv'
<1> SUFFICES ASSUME IInv, KeylineChange PROVE IInv'
  OBVIOUS
<1>1. \A S : WithoutApps(S) \in [Ids -> KeylineApp]
  BY ConstantTypes DEF WithoutApps, IInv, KeylineTyped
<1>2. KeylineTyped'
  BY <1>1, SpecsAssumption DEF KeylineChange, IInv, KeylineTyped
<1>3. budget' \in [BudgetKinds -> Nat]
  BY SpendType DEF KeylineChange, BudgetKinds
<1> QED
  BY <1>2, <1>3 DEF KeylineChange, vsVars, projVars, appVars, IInv,
                    VSTyped, ProjTyped, AppTyped, LogType, RestTyped

\* The invariant is preserved by every step.
LEMMA NextIInv == IInv /\ [Next]_vars => IInv'
<1> SUFFICES ASSUME IInv, [Next]_vars PROVE IInv'
  OBVIOUS
<1>1. CASE ReconcileVS
  BY <1>1, BeginVSIInv, GetVSIInv, PatchVSIInv, StatusVSIInv DEF ReconcileVS
<1>2. CASE ReconcileProject
  BY <1>2, BeginProjectIInv, GetProjectIInv, CreateProjectIInv, StatusProjectIInv
  DEF ReconcileProject
<1>3. CASE ReconcileApp
  BY <1>3, BeginAppIInv, ListAppsIInv, GetAppIInv, PatchAppIInv, CreateAppIInv,
     StatusAppIInv DEF ReconcileApp
<1>4. CASE Deliver
  BY <1>4, DeliverIInv
<1>5. CASE Environment
  BY <1>5, EditVSIInv, EditProjectIInv, EditAppIInv, CrashIInv,
     InstanceChangeIInv, KeylineChangeIInv DEF Environment
<1>6. CASE UNCHANGED vars
  BY <1>6 DEF vars, IInv, VSTyped, ProjTyped, AppTyped, LogType, KeylineTyped,
              RestTyped
<1> QED
  BY <1>1, <1>2, <1>3, <1>4, <1>5, <1>6 DEF Next

LEMMA Invariance == Spec => []IInv
  BY InitIInv, NextIInv, PTL DEF Spec

\* Every variable keeps its type, whatever is edited, fails, is late or is lost
\* in Keyline; among them that no request clears a field of the virtual server.
THEOREM TypeCorrect == Spec => []TypeOK
<1>1. IInv => TypeOK
  BY DEF IInv, VSTyped, ProjTyped, AppTyped, LogType, KeylineTyped, RestTyped, TypeOK
<1> QED
  BY <1>1, Invariance, PTL

-----------------------------------------------------------------------------
(* The application is a NamedResource, as far as safety goes *)

\* Nothing in the operator renames an application, and the id of an application
\* of the old name would be left behind if a client did: the theorem is about
\* clients that do not.
OneName == \A s, t \in AppSpecs : s.name = t.name

HandedOut == {None} \cup {id \in Ids : apps[id].state # "unused"}

VersionOK(v) == /\ v.present => v.spec \in AppSpecs
                /\ v.status.appId \in HandedOut

LogOK == \A i \in DOMAIN appLog : VersionOK(appLog[i])

\* Keyline has one application at most, and one that a spec names.
AppsOK == /\ \A id \in Live : \E s \in AppSpecs : apps[id].name = s.name
          /\ \A i, j \in Live : i = j

\* A pass that found or created an application, so that its status patch will
\* replace the id, holds the id of the application that lives, if one does.
PassOK ==
    appWorker.pc # "idle" =>
        /\ appWorker.spec \in AppSpecs
        /\ appWorker.cur.appId \in HandedOut
        /\ appWorker.pc \in {"list", "create"} => appWorker.cur.appId = None
        /\ (/\ appWorker.cur.appId \notin {None, appWorker.base.appId}
            /\ Stored.status.appId \in Live)
              => Stored.status.appId = appWorker.cur.appId

RInv == IInv /\ LogOK /\ AppsOK /\ PassOK

LEMMA InitRInv == Init => RInv
<1> SUFFICES ASSUME Init PROVE RInv
  OBVIOUS
<1>1. LogOK
  BY SpecsAssumption DEF Init, LogOK, VersionOK, HandedOut, NewApp, NewAppStatus
<1>2. AppsOK
  BY DEF Init, AppsOK, Live, Unused
<1>3. PassOK
  BY DEF Init, PassOK, IdleApp
<1> QED
  BY <1>1, <1>2, <1>3, InitIInv DEF RInv

\* Ids are not taken back.
LEMMA LogOKKept ==
    ASSUME LogOK, HandedOut \subseteq HandedOut',
           \A i \in DOMAIN appLog' : \E j \in DOMAIN appLog : appLog'[i] = appLog[j]
    PROVE  LogOK'
  BY DEF LogOK, VersionOK

LEMMA LogOKGets ==
    ASSUME LogOK, HandedOut \subseteq HandedOut', NEW v, LogGets(v), VersionOK(v)'
    PROVE  LogOK'
  BY DEF LogOK, LogGets, VersionOK

\* Both ends of the log are such versions.
LEMMA EndsOK ==
    ASSUME IInv, LogOK
    PROVE  VersionOK(Cached) /\ VersionOK(Stored)
  BY EndsOfLog DEF IInv, AppTyped, LogOK, Stored

\* A step that changes neither the application, nor Keyline's, nor its pass.
LEMMA Elsewhere ==
    ASSUME RInv, IInv', UNCHANGED <<appLog, appWorker, apps>>
    PROVE  RInv'
  BY DEF RInv, LogOK, VersionOK, HandedOut, AppsOK, PassOK, Live, Stored

\* What recording a condition leaves as it is.
LEMMA ConditionKeeps ==
    ASSUME NEW w \in AppWorkerType, NEW reason
    PROVE  /\ SetNotReady(w, reason).pc = "status" /\ SetReady(w).pc = "status"
           /\ SetNotReady(w, reason).spec = w.spec /\ SetReady(w).spec = w.spec
           /\ SetNotReady(w, reason).base = w.base /\ SetReady(w).base = w.base
           /\ SetNotReady(w, reason).cur.appId = w.cur.appId
           /\ SetReady(w).cur.appId = w.cur.appId
  BY DEF SetNotReady, SetReady, setNotReadyCondition, setReadyCondition,
         AppWorkerType, AppStatusType

\* A step of the pass that changes neither its id nor anything outside it.
LEMMA PassGoesOn ==
    ASSUME RInv, IInv', UNCHANGED <<appLog, apps>>, appWorker.pc # "idle",
           appWorker'.spec = appWorker.spec, appWorker'.base = appWorker.base,
           appWorker'.cur.appId = appWorker.cur.appId,
           appWorker'.pc \in {"list", "create"} => appWorker.cur.appId = None
    PROVE  RInv'
<1>1. LogOK' /\ AppsOK'
  BY DEF RInv, LogOK, VersionOK, HandedOut, AppsOK, Live
<1>2. PassOK'
  BY DEF RInv, PassOK, HandedOut, Live, Stored
<1> QED
  BY <1>1, <1>2 DEF RInv

LEMMA BeginAppRInv == RInv /\ IInv' /\ BeginApp => RInv'
<1> SUFFICES ASSUME RInv, IInv', BeginApp PROVE RInv'
  OBVIOUS
<1> DEFINE w == [IdleApp EXCEPT !.spec = Cached.spec, !.base = Cached.status,
                                !.cur = Cached.status]
<1>0. Cached \in AppVersion /\ VersionOK(Cached) /\ Cached.present
  BY EndsOfLog, EndsOK DEF RInv, IInv, AppTyped, BeginApp
<1>1. /\ w \in AppWorkerType /\ w.spec = Cached.spec
      /\ w.base = Cached.status /\ w.cur = Cached.status
  BY <1>0, ConstantTypes DEF AppVersion, AppWorkerType, IdleApp
<1>2. \/ appWorker' = [w EXCEPT !.pc = IF w.cur.appId = None THEN "list" ELSE "get"]
      \/ \E reason \in AppBlockers : appWorker' = SetNotReady(w, reason)
  BY DEF BeginApp
<1> HIDE DEF w
<1>3. /\ appWorker'.spec = w.spec /\ appWorker'.cur.appId = w.cur.appId
      /\ appWorker'.base = w.base
      /\ appWorker'.pc \in {"list", "create"} => w.cur.appId = None
  <2>1. CASE appWorker' = [w EXCEPT !.pc = IF w.cur.appId = None THEN "list" ELSE "get"]
    BY <1>1, <2>1 DEF AppWorkerType
  <2>2. CASE \E reason \in AppBlockers : appWorker' = SetNotReady(w, reason)
    BY <1>1, <2>2, ConditionKeeps
  <2> QED
    BY <1>2, <2>1, <2>2
<1>4. UNCHANGED <<appLog, apps>>
  BY DEF BeginApp
<1>5. LogOK' /\ AppsOK'
  BY <1>4 DEF RInv, LogOK, VersionOK, HandedOut, AppsOK, Live
<1>6. PassOK'
  BY <1>0, <1>1, <1>3, <1>4 DEF VersionOK, PassOK, HandedOut
<1> QED
  BY <1>5, <1>6 DEF RInv

\* A found application is the only one there is.
LEMMA ListAppsRInv == RInv /\ IInv' /\ ListApps => RInv'
<1> SUFFICES ASSUME RInv, IInv', ListApps PROVE RInv'
  OBVIOUS
<1>0. /\ appWorker \in AppWorkerType /\ appWorker.pc = "list"
      /\ appWorker.cur.appId = None /\ UNCHANGED <<appLog, apps>>
  BY DEF RInv, IInv, AppTyped, PassOK, ListApps
<1>1. CASE appWorker' = [appWorker EXCEPT !.pc = "create"]
  BY <1>0, <1>1, PassGoesOn DEF AppWorkerType
<1>2. CASE appWorker' = SetNotReady(appWorker, "ListFailed")
  BY <1>0, <1>2, PassGoesOn, ConditionKeeps
<1>3. ASSUME NEW id \in Matches(appWorker.spec.name),
             appWorker' = [appWorker EXCEPT !.pc = "get", !.cur.appId = id]
      PROVE  RInv'
  <2>1. id \in Live /\ id \in HandedOut
    BY DEF Matches, Live, HandedOut
  <2>2. /\ appWorker'.spec = appWorker.spec /\ appWorker'.cur.appId = id
        /\ appWorker'.pc = "get"
    BY <1>0, <1>3 DEF AppWorkerType, AppStatusType
  <2>3. LogOK' /\ AppsOK'
    BY <1>0 DEF RInv, LogOK, VersionOK, HandedOut, AppsOK, Live
  <2>4. PassOK'
    BY <1>0, <2>1, <2>2 DEF RInv, AppsOK, PassOK, HandedOut, Live, Stored
  <2> QED
    BY <2>3, <2>4 DEF RInv
<1> QED
  BY <1>1, <1>2, <1>3 DEF ListApps

LEMMA GetAppRInv == RInv /\ IInv' /\ GetApp => RInv'
<1> SUFFICES ASSUME RInv, IInv', GetApp PROVE RInv'
  OBVIOUS
<1> DEFINE diff == AppDiff(apps[appWorker.cur.appId].fields, appWorker.spec.fields)
<1>0. /\ appWorker \in AppWorkerType /\ appWorker.pc = "get"
      /\ UNCHANGED <<appLog, apps>>
  BY DEF RInv, IInv, AppTyped, GetApp
<1>1. CASE appWorker' = ForgetAppId(appWorker)
  <2>1. /\ appWorker'.spec = appWorker.spec /\ appWorker'.cur.appId = None
    BY <1>0, <1>1 DEF ForgetAppId, AppWorkerType, AppStatusType
  <2>2. LogOK' /\ AppsOK'
    BY <1>0 DEF RInv, LogOK, VersionOK, HandedOut, AppsOK, Live
  <2>3. PassOK'
    BY <1>0, <2>1 DEF RInv, PassOK, HandedOut
  <2> QED
    BY <2>2, <2>3 DEF RInv
<1>2. CASE appWorker' = [appWorker EXCEPT !.pc = "patch", !.diff = diff]
  <2> HIDE DEF diff
  <2> QED
    BY <1>0, <1>2, PassGoesOn DEF AppWorkerType
<1>3. CASE appWorker' \in {SetReady(appWorker), SetNotReady(appWorker, "GetFailed")}
  BY <1>0, <1>3, PassGoesOn, ConditionKeeps
<1> QED
  BY <1>1, <1>2, <1>3 DEF GetApp

\* A patch changes no application's name and leaves it alive.
LEMMA PatchAppRInv == RInv /\ IInv' /\ PatchApp => RInv'
<1> SUFFICES ASSUME RInv, IInv', PatchApp PROVE RInv'
  OBVIOUS
<1>1. \A id \in Ids : apps'[id].state = apps[id].state /\ apps'[id].name = apps[id].name
  BY PatchedAppsType DEF PatchApp, RInv
<1>2. /\ appWorker \in AppWorkerType /\ appWorker.pc = "patch" /\ UNCHANGED appLog
      /\ appWorker' \in {SetReady(appWorker), SetNotReady(appWorker, "PatchFailed")}
  BY DEF PatchApp, RInv, IInv, AppTyped
<1>3. /\ appWorker'.pc = "status" /\ appWorker'.spec = appWorker.spec
      /\ appWorker'.base = appWorker.base
      /\ appWorker'.cur.appId = appWorker.cur.appId
  BY <1>2, ConditionKeeps
<1>4. HandedOut' = HandedOut /\ Live' = Live /\ Stored' = Stored
  BY <1>1, <1>2 DEF HandedOut, Live, Stored
<1>5. LogOK'
  BY <1>2, <1>4 DEF RInv, LogOK, VersionOK
<1>6. AppsOK'
  BY <1>1, <1>4 DEF RInv, AppsOK, Live
<1>7. PassOK'
  BY <1>2, <1>3, <1>4 DEF RInv, PassOK
<1> QED
  BY <1>5, <1>6, <1>7 DEF RInv

\* Keyline creates an application only where it has none of the name, and there
\* is but one name.
LEMMA CreatedAlone ==
    ASSUME OneName, RInv, appWorker.pc = "create", NEW id \in Ids, CreateAt(id)
    PROVE  /\ Live = {} /\ Live' = {id} /\ AppsOK'
           /\ HandedOut \subseteq HandedOut' /\ id \in HandedOut'
<1>1. /\ apps'[id].state = "live" /\ apps'[id].name = appWorker.spec.name
      /\ \A i \in Ids \ {id} : apps'[i] = apps[i]
  BY CreatedType DEF RInv
<1>2. appWorker.spec \in AppSpecs
  BY DEF RInv, PassOK
<1>3. Live = {}
  <2>1. Matches(appWorker.spec.name) = {}
    BY DEF CreateAt, CanCreate
  <2>2. \A i \in Live : apps[i].name = appWorker.spec.name
    BY <1>2 DEF OneName, RInv, AppsOK
  <2> QED
    BY <2>1, <2>2 DEF Matches
<1>4. Live' = {id}
  BY <1>1, <1>3 DEF Live
<1>5. AppsOK'
  BY <1>1, <1>2, <1>4 DEF AppsOK
<1>6. HandedOut \subseteq HandedOut' /\ id \in HandedOut'
  BY <1>1 DEF HandedOut
<1> QED
  BY <1>3, <1>4, <1>5, <1>6

LEMMA CreateAppRInv == ASSUME OneName, RInv, IInv', CreateApp PROVE RInv'
<1>0. /\ appWorker \in AppWorkerType /\ appWorker.pc = "create"
      /\ appWorker.cur.appId = None /\ UNCHANGED appLog
      /\ appWorker.spec \in AppSpecs
  BY DEF RInv, IInv, AppTyped, PassOK, CreateApp
<1>1. ASSUME NEW id \in Ids, CreateAt(id),
             appWorker' = SetReady([appWorker EXCEPT !.cur.appId = id])
      PROVE  RInv'
  <2> DEFINE w == [appWorker EXCEPT !.cur.appId = id]
  <2>1. w \in AppWorkerType /\ w.spec = appWorker.spec /\ w.cur.appId = id
    <3>1. w \in AppWorkerType
      BY <1>0, IdTypes
    <3>2. w.spec = appWorker.spec /\ w.cur.appId = id
      BY <1>0 DEF AppWorkerType, AppStatusType
    <3> QED
      BY <3>1, <3>2
  <2> HIDE DEF w
  <2>2. /\ appWorker'.pc = "status" /\ appWorker'.spec = appWorker.spec
        /\ appWorker'.cur.appId = id
    BY <1>1, <2>1, ConditionKeeps DEF w
  <2>3. Live' = {id} /\ AppsOK' /\ HandedOut \subseteq HandedOut' /\ id \in HandedOut'
    BY <1>0, <1>1, CreatedAlone
  <2>4. LogOK'
    BY <1>0, <2>3 DEF RInv, LogOK, VersionOK
  <2>5. PassOK'
    BY <1>0, <2>2, <2>3 DEF PassOK
  <2> QED
    BY <2>3, <2>4, <2>5 DEF RInv
<1>2. CASE appWorker' = SetNotReady(appWorker, "CreateFailed")
  <2>1. /\ appWorker'.pc = "status" /\ appWorker'.spec = appWorker.spec
        /\ appWorker'.cur.appId = None
    BY <1>0, <1>2, ConditionKeeps
  <2>2. AppsOK' /\ HandedOut \subseteq HandedOut'
    <3>1. CASE UNCHANGED apps
      BY <3>1 DEF RInv, AppsOK, Live, HandedOut
    <3>2. CASE \E id \in Ids : CreateAt(id)
      BY <1>0, <3>2, CreatedAlone
    <3> QED
      BY <3>1, <3>2 DEF CreateApp
  <2>3. LogOK'
    BY <1>0, <2>2 DEF RInv, LogOK, VersionOK
  <2>4. PassOK'
    BY <1>0, <2>1, <2>2 DEF PassOK, HandedOut
  <2> QED
    BY <2>2, <2>3, <2>4 DEF RInv
<1> QED
  BY <1>1, <1>2 DEF CreateApp

\* The patched status has the pass's id if the pass changed it, else the
\* stored one.
LEMMA PatchedId ==
    ASSUME IInv
    PROVE  PatchedStatus.appId =
                IF appWorker.cur.appId # appWorker.base.appId
                THEN appWorker.cur.appId ELSE Stored.status.appId
  BY EndsOfLog DEF IInv, AppTyped, AppVersion, AppStatusType, PatchedStatus, MergeFrom

LEMMA StatusAppRInv == RInv /\ IInv' /\ StatusApp => RInv'
<1> SUFFICES ASSUME RInv, IInv', StatusApp PROVE RInv'
  OBVIOUS
<1> DEFINE v == [Stored EXCEPT !.status = PatchedStatus]
<1>1. /\ Stored \in AppVersion /\ VersionOK(Stored) /\ PatchedStatus \in AppStatusType
      /\ LogType /\ appWorker.pc = "status" /\ appWorker' = IdleApp
      /\ UNCHANGED apps
  <2>1. Stored \in AppVersion /\ appWorker \in AppWorkerType /\ LogType
    BY EndsOfLog DEF RInv, IInv, AppTyped
  <2>2. PatchedStatus \in AppStatusType
    BY <2>1, MergeFromTypes DEF PatchedStatus, AppVersion, AppWorkerType
  <2> QED
    BY <2>1, <2>2, EndsOK DEF RInv, StatusApp
<1>2. /\ v \in AppVersion /\ v.status = PatchedStatus
      /\ v.spec = Stored.spec /\ v.present = Stored.present
  BY <1>1 DEF AppVersion
<1>3. VersionOK(v)
  BY <1>1, <1>2, PatchedId DEF RInv, PassOK, VersionOK
<1>4. HandedOut' = HandedOut /\ AppsOK'
  BY <1>1 DEF HandedOut, RInv, AppsOK, Live
<1>5. LogOK'
  <2> HIDE DEF v
  <2>1. CASE Publish(v)
    BY <1>1, <1>2, <1>3, <1>4, <2>1, PublishLog, LogOKGets DEF RInv, VersionOK
  <2>2. CASE UNCHANGED appLog
    BY <1>4, <2>2 DEF RInv, LogOK, VersionOK
  <2> QED
    BY <2>1, <2>2 DEF StatusApp, v
<1> QED
  BY <1>1, <1>4, <1>5 DEF RInv, PassOK, IdleApp

LEMMA DeliverRInv == RInv /\ IInv' /\ Deliver => RInv'
<1> SUFFICES ASSUME RInv, IInv', Deliver PROVE RInv'
  OBVIOUS
<1>1. /\ Stored' = Stored
      /\ \A i \in DOMAIN appLog' : \E j \in DOMAIN appLog : appLog'[i] = appLog[j]
  BY DeliverLog DEF RInv, IInv, AppTyped
<1>2. UNCHANGED <<appWorker, apps>>
  BY DEF Deliver, keylineVars
<1>3. LogOK'
  BY <1>1, <1>2, LogOKKept DEF RInv, HandedOut
<1> QED
  BY <1>1, <1>2, <1>3 DEF RInv, AppsOK, PassOK, Live, HandedOut

\* What a client stores keeps the stored id, or loses it with the object.
LEMMA EditedVersion ==
    ASSUME IInv, EditApp
    PROVE  \E v \in AppVersion :
            /\ Publish(v)
            /\ v.status.appId \in {None, Stored.status.appId}
            /\ v.present => v.spec \in AppSpecs
<1>1. Stored \in AppVersion
  BY EndsOfLog DEF IInv, AppTyped
<1>2. CASE Publish(NoApp)
  BY <1>2, ConstantTypes DEF NoApp, NewAppStatus
<1>3. ASSUME NEW s \in AppSpecs,
             Publish(IF Stored.present THEN [Stored EXCEPT !.spec = s] ELSE NewApp(s))
      PROVE  \E v \in AppVersion :
                /\ Publish(v)
                /\ v.status.appId \in {None, Stored.status.appId}
                /\ v.present => v.spec \in AppSpecs
  <2>1. CASE Stored.present
    <3> DEFINE v == [Stored EXCEPT !.spec = s]
    <3>1. v \in AppVersion /\ v.status = Stored.status /\ v.spec = s
      BY <1>1, EditedType DEF AppVersion
    <3>2. Publish(v)
      BY <1>3, <2>1
    <3> HIDE DEF v
    <3> QED
      BY <3>1, <3>2
  <2>2. CASE ~Stored.present
    BY <1>3, <2>2, ConstantTypes DEF NewApp, NewAppStatus
  <2> QED
    BY <2>1, <2>2
<1> QED
  BY <1>2, <1>3 DEF EditApp

LEMMA EditAppRInv == RInv /\ IInv' /\ EditApp => RInv'
<1> SUFFICES ASSUME RInv, IInv', EditApp PROVE RInv'
  OBVIOUS
<1> PICK v \in AppVersion : /\ Publish(v)
                            /\ v.status.appId \in {None, Stored.status.appId}
                            /\ v.present => v.spec \in AppSpecs
  BY EditedVersion DEF RInv
<1>1. LogGets(v) /\ Stored' = v
  BY PublishLog DEF RInv, IInv, AppTyped, LogGets, Stored
<1>2. UNCHANGED <<appWorker, apps>>
  BY DEF EditApp, keylineVars
<1>3. VersionOK(v)'
  BY <1>2, EndsOK DEF RInv, VersionOK, HandedOut
<1>4. LogOK'
  BY <1>1, <1>2, <1>3, LogOKGets DEF RInv, HandedOut
<1>5. PassOK'
  <2>1. None \notin Live
    BY NoneAssumption DEF Live
  <2> QED
    BY <1>1, <1>2, <2>1 DEF RInv, PassOK, Live, HandedOut
<1> QED
  BY <1>2, <1>4, <1>5 DEF RInv, AppsOK, Live

LEMMA CrashRInv == RInv /\ IInv' /\ Crash => RInv'
<1> SUFFICES ASSUME RInv, IInv', Crash PROVE RInv'
  OBVIOUS
<1>1. VersionOK(Stored) /\ UNCHANGED apps
  BY EndsOK DEF RInv, Crash, keylineVars
<1>2. LogOK'
  BY <1>1 DEF Crash, LogOK, VersionOK, HandedOut
<1> QED
  BY <1>1, <1>2 DEF Crash, RInv, AppsOK, Live, PassOK, IdleApp

\* In Keyline, applications only disappear behind the operator's back.
LEMMA LostApps ==
    ASSUME KeylineChange
    PROVE  \E S \in SUBSET Live : apps' = WithoutApps(S)
  BY DEF KeylineChange

LEMMA KeylineChangeRInv == RInv /\ IInv' /\ KeylineChange => RInv'
<1> SUFFICES ASSUME RInv, IInv', KeylineChange PROVE RInv'
  OBVIOUS
<1> PICK S \in SUBSET Live : apps' = WithoutApps(S)
  BY LostApps
<1>1. UNCHANGED <<appLog, appWorker>>
  BY DEF KeylineChange, appVars
<1>2. \A id \in Ids : apps'[id] = IF id \in S THEN [Unused EXCEPT !.state = "gone"]
                                  ELSE apps[id]
  BY DEF WithoutApps
<1>3. [Unused EXCEPT !.state = "gone"].state = "gone"
  BY DEF Unused
<1>4. HandedOut' = HandedOut /\ Live' = Live \ S
  BY <1>2, <1>3 DEF HandedOut, Live
<1>5. LogOK'
  BY <1>1, <1>4 DEF RInv, LogOK, VersionOK
<1>6. AppsOK'
  <2>1. \A id \in Live' : id \in Live /\ apps'[id] = apps[id]
    BY <1>2, <1>4 DEF Live
  <2> QED
    BY <2>1 DEF RInv, AppsOK
<1>7. PassOK'
  BY <1>1, <1>4 DEF RInv, PassOK, Stored
<1> QED
  BY <1>5, <1>6, <1>7 DEF RInv

LEMMA NextRInv == ASSUME OneName PROVE RInv /\ [Next]_vars => RInv'
<1> SUFFICES ASSUME RInv, [Next]_vars PROVE RInv'
  OBVIOUS
<1>0. IInv'
  BY NextIInv DEF RInv
<1>1. CASE ReconcileVS \/ ReconcileProject
  <2>1. UNCHANGED <<appLog, appWorker, apps>>
    BY <1>1 DEF ReconcileVS, BeginVS, GetVS, PatchVS, StatusVS, VSFrame, appVars,
       ReconcileProject, BeginProject, GetProject, CreateProject, StatusProject,
       ProjectFrame
  <2> QED
    BY <1>0, <2>1, Elsewhere
<1>2. CASE ReconcileApp
  BY <1>0, <1>2, BeginAppRInv, ListAppsRInv, GetAppRInv, PatchAppRInv,
     CreateAppRInv, StatusAppRInv DEF ReconcileApp
<1>3. CASE EditVS \/ EditProject \/ \E i \in InstanceStates : InstanceChange(i)
  <2>1. UNCHANGED <<appLog, appWorker, apps>>
    BY <1>3 DEF EditVS, EditProject, InstanceChange, appVars, keylineVars
  <2> QED
    BY <1>0, <2>1, Elsewhere
<1>4. CASE Deliver \/ EditApp \/ Crash \/ KeylineChange
  BY <1>0, <1>4, DeliverRInv, EditAppRInv, CrashRInv, KeylineChangeRInv
<1>5. CASE UNCHANGED vars
  BY <1>0, <1>5, Elsewhere DEF vars
<1> QED
  BY <1>1, <1>2, <1>3, <1>4, <1>5 DEF Next, Environment

-----------------------------------------------------------------------------
(* The refinement mapping of Registration *)

objs == [id \in Ids |-> IF id \in Live THEN apps[id].name ELSE apps[id].state]
bound == Stored.status.appId

\* The mapped objects: names of the living ones, and of no other.
LEMMA MappedObjects ==
    ASSUME RInv
    PROVE  /\ \A id \in Ids : objs[id] \in Names <=> id \in Live
           /\ \A id \in Ids : objs[id] = "unused" <=> apps[id].state = "unused"
           /\ Registration!Living = Live
<1>1. \A id \in Live : apps[id].name \in Names
  <2>1. \A s \in AppSpecs : s.name \in Names
    BY SpecsAssumption DEF AppSpecType
  <2> QED
    BY <2>1 DEF RInv, AppsOK
<1>2. \A id \in Ids \ Live : apps[id].state \in {"unused", "gone"}
  BY DEF RInv, IInv, KeylineTyped, KeylineApp, Live
<1>3. /\ \A id \in Ids : objs[id] \in Names <=> id \in Live
      /\ \A id \in Ids : objs[id] = "unused" <=> apps[id].state = "unused"
  BY <1>1, <1>2, NamesAssumption DEF objs, Live
<1>4. Registration!Living = {id \in Ids : objs[id] \in Names}
  BY DEF Registration!Living, objs
<1> QED
  BY <1>3, <1>4 DEF Live

\* Steps after which Keyline's applications have the same names and the stored
\* id is the same stutter.
LEMMA Stutters ==
    ASSUME Stored' = Stored,
           \A id \in Ids : apps'[id].state = apps[id].state /\ apps'[id].name = apps[id].name
    PROVE  UNCHANGED <<objs, bound>>
<1>1. Live' = Live
  BY DEF Live
<1> QED
  BY <1>1 DEF objs, bound, Live

LEMMA CreateRefines ==
    ASSUME OneName, RInv, CreateApp
    PROVE  Registration!Next \/ UNCHANGED <<objs, bound>>
<1>0. Stored' = Stored /\ appWorker.pc = "create" /\ appWorker.spec \in AppSpecs
  BY DEF CreateApp, Stored, RInv, PassOK
<1>1. CASE UNCHANGED apps
  BY <1>0, <1>1, Stutters
<1>2. ASSUME NEW id \in Ids, CreateAt(id) PROVE Registration!Next
  <2> PICK n \in Names : n = appWorker.spec.name
    BY <1>0, SpecsAssumption DEF AppSpecType
  <2>1. Live = {} /\ Live' = {id}
    BY <1>0, <1>2, CreatedAlone
  <2>2. /\ apps'[id].name = n /\ \A i \in Ids \ {id} : apps'[i] = apps[i]
        /\ apps[id].state = "unused"
    BY <1>2, CreatedType DEF RInv, CreateAt
  <2>3. objs[id] = "unused" /\ \A i \in Ids : objs[i] # n
    BY <2>1, <2>2, MappedObjects
  <2>4. objs' = [objs EXCEPT ![id] = n]
    BY <2>1, <2>2 DEF objs
  <2>5. bound' = bound
    BY <1>0 DEF bound
  <2>6. Registration!Create(id, n)
    BY <2>3, <2>4, <2>5
    DEF Registration!Create, Registration!NameFree, objs, bound
  <2> QED
    BY <2>6 DEF Registration!Next
<1> QED
  BY <1>1, <1>2 DEF CreateApp

\* The status patch binds the id only when no living application is left.
LEMMA StatusRefines ==
    ASSUME RInv, StatusApp
    PROVE  Registration!Next \/ UNCHANGED <<objs, bound>>
<1> DEFINE v == [Stored EXCEPT !.status = PatchedStatus]
<1>0. UNCHANGED apps /\ appWorker.pc = "status"
  BY DEF StatusApp
<1>1. objs' = objs
  BY <1>0 DEF objs, Live
<1>2. CASE UNCHANGED appLog
  BY <1>0, <1>2, Stutters DEF Stored
<1>3. CASE Publish(v)
  <2>1. /\ Stored \in AppVersion /\ PatchedStatus \in AppStatusType /\ LogType
        /\ Stored.status.appId \in Ids \cup {None}
    <3>1. Stored \in AppVersion /\ appWorker \in AppWorkerType /\ LogType
      BY EndsOfLog DEF RInv, IInv, AppTyped
    <3>2. PatchedStatus \in AppStatusType
      BY <3>1, MergeFromTypes DEF PatchedStatus, AppVersion, AppWorkerType
    <3> QED
      BY <3>1, <3>2 DEF AppVersion, AppStatusType
  <2>2. v \in AppVersion /\ v.status = PatchedStatus
    BY <2>1 DEF AppVersion
  <2> HIDE DEF v
  <2>3. bound' = PatchedStatus.appId
    BY <1>3, <2>1, <2>2, PublishLog DEF LogGets, bound, Stored
  <2>4. CASE PatchedStatus.appId = bound
    BY <1>1, <2>3, <2>4
  <2>5. CASE PatchedStatus.appId = None
    <3>1. Registration!Forget
      BY <1>1, <2>3, <2>5 DEF Registration!Forget, objs, bound
    <3> QED
      BY <3>1 DEF Registration!Next
  <2>6. CASE PatchedStatus.appId \notin {None, bound}
    <3> DEFINE id == appWorker.cur.appId
    <3>1. PatchedStatus.appId = id /\ id \notin {None, appWorker.base.appId}
      BY <2>6, PatchedId DEF RInv, bound
    <3>2. /\ id \in Ids /\ apps[id].state # "unused"
          /\ bound \notin Live
      BY <1>0, <2>6, <3>1 DEF RInv, PassOK, HandedOut, bound
    <3>3. Registration!Bind(id)
      BY <1>1, <2>3, <3>1, <3>2, MappedObjects
      DEF Registration!Bind, objs, bound
    <3> QED
      BY <3>2, <3>3 DEF Registration!Next
  <2> QED
    BY <2>4, <2>5, <2>6
<1> QED
  BY <1>2, <1>3 DEF StatusApp

LEMMA EditRefines ==
    ASSUME RInv, EditApp
    PROVE  Registration!Next \/ UNCHANGED <<objs, bound>>
<1> PICK v \in AppVersion : /\ Publish(v)
                            /\ v.status.appId \in {None, Stored.status.appId}
  BY EditedVersion DEF RInv
<1>1. Stored' = v
  BY PublishLog DEF RInv, IInv, AppTyped, LogGets, Stored
<1>2. objs' = objs /\ bound' \in {None, bound}
  BY <1>1 DEF EditApp, keylineVars, objs, bound, Live
<1>3. bound' = None => Registration!Forget
  BY <1>2 DEF Registration!Forget, objs, bound
<1> QED
  BY <1>2, <1>3 DEF Registration!Next

LEMMA LossRefines ==
    ASSUME RInv, KeylineChange
    PROVE  Registration!Next
<1> PICK S \in SUBSET Live : apps' = WithoutApps(S)
  BY LostApps
<1>1. Stored' = Stored
  BY DEF KeylineChange, appVars, Stored
<1>2. \A id \in Ids : apps'[id] = IF id \in S THEN [Unused EXCEPT !.state = "gone"]
                                  ELSE apps[id]
  BY DEF WithoutApps
<1>3. [Unused EXCEPT !.state = "gone"].state = "gone"
  BY DEF Unused
<1>4. Live' = Live \ S
  BY <1>2, <1>3 DEF Live
<1>5. objs' = [id \in Ids |-> IF id \in S THEN "gone" ELSE objs[id]]
  BY <1>2, <1>3, <1>4 DEF objs, Live
<1>6. Registration!Lose(S)
  BY <1>1, <1>5 DEF Registration!Lose, objs, bound
<1> QED
  BY <1>6, MappedObjects DEF Registration!Next

\* Every step of the composed system is one that a NamedResource may make.
LEMMA NextRefines ==
    ASSUME OneName, RInv, [Next]_vars
    PROVE  Registration!Next \/ UNCHANGED <<objs, bound>>
<1>1. CASE UNCHANGED <<appLog, apps>>
  BY <1>1, Stutters DEF Stored
<1>2. CASE ReconcileApp
  <2>1. CASE BeginApp \/ ListApps \/ GetApp
    BY <1>1, <2>1 DEF BeginApp, ListApps, GetApp
  <2>2. CASE PatchApp
    <3>1. \A id \in Ids : /\ apps'[id].state = apps[id].state
                          /\ apps'[id].name = apps[id].name
      BY <2>2, PatchedAppsType DEF PatchApp, RInv
    <3> QED
      BY <2>2, <3>1, Stutters DEF PatchApp, Stored
  <2>3. CASE CreateApp \/ StatusApp
    BY <2>3, CreateRefines, StatusRefines
  <2> QED
    BY <1>2, <2>1, <2>2, <2>3 DEF ReconcileApp
<1>3. CASE Deliver
  BY <1>3, DeliverLog, Stutters DEF Deliver, keylineVars, RInv, IInv, AppTyped
<1>4. CASE Crash
  BY <1>4, Stutters DEF Crash, keylineVars, Stored
<1>5. CASE EditApp \/ KeylineChange
  BY <1>5, EditRefines, LossRefines
<1>6. CASE ReconcileVS \/ ReconcileProject
  BY <1>1, <1>6
  DEF ReconcileVS, BeginVS, GetVS, PatchVS, StatusVS, VSFrame, appVars,
      ReconcileProject, BeginProject, GetProject, CreateProject, StatusProject,
      ProjectFrame
<1>7. CASE EditVS \/ EditProject \/ \E i \in InstanceStates : InstanceChange(i)
  BY <1>1, <1>7 DEF EditVS, EditProject, InstanceChange, appVars, keylineVars
<1>8. CASE UNCHANGED vars
  BY <1>1, <1>8 DEF vars
<1> QED
  BY <1>2, <1>3, <1>4, <1>5, <1>6, <1>7, <1>8 DEF Next, Environment

\* However calls, caches, crashes and losses in Keyline interleave, the chain
\* does nothing to its application that a NamedResource may not do: it is never
\* created twice, and the status never leaves a living application for another.
THEOREM RegistrationSafe ==
    ASSUME OneName
    PROVE  Spec => Registration!Safety
<1>1. Init => Registration!Init
  <2> SUFFICES ASSUME Init PROVE Registration!Init
    OBVIOUS
  <2>1. Live = {} /\ \A id \in Ids : apps[id].state = "unused"
    BY DEF Init, Live, Unused
  <2>2. Stored.status.appId = None
    BY DEF Init, Stored, NewApp, NewAppStatus
  <2> QED
    BY <2>1, <2>2 DEF Registration!Init
<1>2. Init => RInv
  BY InitRInv
<1>3. RInv /\ [Next]_vars => RInv'
  BY NextRInv
<1>4. RInv /\ [Next]_vars => [Registration!Next]_<<objs, bound>>
  BY NextRefines
<1>5. Spec => []RInv
  BY <1>2, <1>3, PTL DEF Spec
<1>6. Spec => Registration!Init /\ [][Registration!Next]_<<objs, bound>>
  BY <1>1, <1>4, <1>5, PTL DEF Spec
<1> QED
  BY <1>6, PTL DEF Registration!Safety, objs, bound

================================================================================
