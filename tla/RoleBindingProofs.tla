--------------------------- MODULE RoleBindingProofs ---------------------------
(***************************************************************************)
(* Proofs about RoleBinding, for every value of its constants: its types,  *)
(* and for a role that clients do not rename, that Keyline gets no second  *)
(* role of its name and that it is a NamedResource.                        *)
(***************************************************************************)
EXTENDS RoleBinding, TLAPS

RoleWorkerType == [pc : {"idle", "get", "patch", "list", "create", "status"},
                   spec : SpecType, base : StatusType, cur : StatusType,
                   diff : SUBSET Fields]
WorkerType == [pc : {"idle", "list", "assign", "status"},
               base : [cond : CondType], cur : [cond : CondType],
               roleId : Ids \cup {None}, userId : UserIds \cup {None}]
RoleType == [state : {"unused", "live", "deleted"},
             name : Names \cup {None},
             description : Descriptions \cup {None},
             members : SUBSET UserIds]
BudgetType == [BudgetKinds -> Nat]

-----------------------------------------------------------------------------
(* Data *)

\* The constant values of the model have the types TypeOK gives them.
LEMMA ConstantTypes ==
    /\ RoleSpecs \subseteq SpecType /\ FirstSpecs \subseteq RoleSpecs
    /\ Absent \in VersionType /\ \A s \in SpecType : Present(s) \in VersionType
    /\ IdleRole \in RoleWorkerType /\ Idle \in WorkerType
    /\ Unassigned \in [cond : CondType]
    /\ Unused \in RoleType /\ [Unused EXCEPT !.state = "deleted"] \in RoleType
<1>1. NoCondition \in CondType
  BY DEF NoCondition, CondType, Reasons
<1>2. EmptyStatus \in StatusType /\ Unassigned \in [cond : CondType]
  BY <1>1 DEF EmptyStatus, StatusType, Unassigned
<1>3. RoleSpecs \subseteq SpecType /\ NoSpec \in SpecType
  BY SpecsAssumption DEF SpecType, NoSpec
<1>4. Absent \in VersionType /\ \A s \in SpecType : Present(s) \in VersionType
  BY <1>2, <1>3 DEF Absent, Present, VersionType
<1>5. IdleRole \in RoleWorkerType /\ Idle \in WorkerType
  BY <1>2, <1>3 DEF IdleRole, Idle, RoleWorkerType, WorkerType
<1>6. Unused \in RoleType /\ [Unused EXCEPT !.state = "deleted"] \in RoleType
  BY DEF Unused, RoleType
<1> QED
  BY <1>2, <1>3, <1>4, <1>5, <1>6, SpecsAssumption

\* Recording a condition ends the calls of a pass and changes nothing else.
LEMMA RoleCondition ==
    ASSUME NEW w \in RoleWorkerType, NEW reason \in Reasons,
           NEW x, x \in {SetRoleNotReady(w, reason), SetRoleReady(w)}
    PROVE  /\ x \in RoleWorkerType /\ x.pc = "status"
           /\ x.spec = w.spec /\ x.base = w.base /\ x.cur.roleId = w.cur.roleId
<1> USE DEF SetRoleNotReady, SetRoleReady, setNotReadyCondition, setReadyCondition,
            RoleWorkerType, StatusType, CondType
<1>1. "Synced" \in Reasons
  BY DEF Reasons
<1>2. CASE x = SetRoleNotReady(w, reason)
  BY <1>2
<1>3. CASE x = SetRoleReady(w)
  BY <1>1, <1>3
<1> QED
  BY <1>2, <1>3

LEMMA AssignmentCondition ==
    ASSUME NEW w \in WorkerType, NEW reason \in Reasons
    PROVE  SetNotReady(w, reason) \in WorkerType /\ SetReady(w) \in WorkerType
<1> USE DEF WorkerType, CondType
<1>1. SetNotReady(w, reason) \in WorkerType
  BY DEF SetNotReady, setNotReadyCondition
<1>2. SetReady(w) \in WorkerType
  BY DEF SetReady, setReadyCondition, Reasons
<1> QED
  BY <1>1, <1>2

\* A merge patch of a status makes a status.
LEMMA MergeFromTypes ==
    /\ \A b, c, s \in StatusType : MergeFrom(b, c, s) \in StatusType
    /\ \A b, c, s \in [cond : CondType] : MergeFrom(b, c, s) \in [cond : CondType]
  BY DEF MergeFrom, StatusType

-----------------------------------------------------------------------------
(* The log of the role's versions *)

LogType == roleLog \in Seq(VersionType) /\ Len(roleLog) \in 1 .. MaxLag + 1

\* Every version of the log after a step is an old one or v.
OldOr(v) ==
    \A i \in DOMAIN roleLog' :
        roleLog'[i] = v \/ \E j \in DOMAIN roleLog : roleLog'[i] = roleLog[j]

LEMMA PublishLog ==
    ASSUME LogType, NEW v \in VersionType, Publish(v)
    PROVE  LogType' /\ OldOr(v) /\ Stored' = v
<1> USE BoundsAssumption DEF LogType, OldOr, Stored
<1>1. CASE Len(roleLog) > MaxLag
  <2>1. /\ Tail(roleLog) \in Seq(VersionType)
        /\ Len(Tail(roleLog)) = Len(roleLog) - 1
        /\ \A i \in 1 .. Len(roleLog) - 1 : Tail(roleLog)[i] = roleLog[i + 1]
    OBVIOUS
  <2>2. roleLog' = Append(Tail(roleLog), v)
    BY <1>1 DEF Publish
  <2>3. Len(roleLog') = Len(roleLog) /\ roleLog' \in Seq(VersionType)
    BY <2>1, <2>2
  <2>4. \A i \in 1 .. Len(roleLog) - 1 : roleLog'[i] = roleLog[i + 1]
    BY <2>1, <2>2
  <2>5. roleLog'[Len(roleLog)] = v
    BY <2>1, <2>2
  <2>6. OldOr(v)
    BY <2>3, <2>4, <2>5
  <2> QED
    BY <2>3, <2>5, <2>6
<1>2. CASE ~(Len(roleLog) > MaxLag)
  <2>1. roleLog' = Append(roleLog, v)
    BY <1>2 DEF Publish
  <2>2. Len(roleLog') = Len(roleLog) + 1 /\ roleLog' \in Seq(VersionType)
    BY <2>1
  <2>3. \A i \in 1 .. Len(roleLog) : roleLog'[i] = roleLog[i]
    BY <2>1
  <2>4. roleLog'[Len(roleLog) + 1] = v
    BY <2>1
  <2> QED
    BY <1>2, <2>2, <2>3, <2>4
<1> QED
  BY <1>1, <1>2

\* A delivery drops the head only.
LEMMA DeliverLog ==
    ASSUME LogType, Deliver
    PROVE  /\ LogType' /\ Stored' = Stored
           /\ \A i \in DOMAIN roleLog' :
                \E j \in DOMAIN roleLog : roleLog'[i] = roleLog[j]
<1>1. /\ Tail(roleLog) \in Seq(VersionType)
      /\ Len(Tail(roleLog)) = Len(roleLog) - 1
      /\ \A i \in 1 .. Len(roleLog) - 1 : Tail(roleLog)[i] = roleLog[i + 1]
  BY DEF LogType, Deliver
<1>2. LogType'
  BY <1>1, BoundsAssumption DEF Deliver, LogType
<1>3. \A i \in DOMAIN roleLog' : i + 1 \in DOMAIN roleLog /\ roleLog'[i] = roleLog[i + 1]
  BY <1>1 DEF Deliver, LogType
<1>4. Stored' = Stored
  BY <1>1, <1>2, <1>3 DEF Deliver, LogType, Stored
<1> QED
  BY <1>2, <1>3, <1>4

\* A new informer has the stored version only.
LEMMA CrashLog ==
    ASSUME LogType, Crash
    PROVE  /\ LogType' /\ Stored' = Stored
           /\ \A i \in DOMAIN roleLog' : roleLog'[i] = Stored
<1>1. Stored \in VersionType /\ roleLog' = <<Stored>>
  BY BoundsAssumption DEF LogType, Stored, Crash
<1>2. LogType' /\ \A i \in DOMAIN roleLog' : roleLog'[i] = Stored
  BY <1>1, BoundsAssumption DEF LogType
<1>3. Stored' = roleLog'[Len(roleLog')]
  BY DEF Stored
<1> QED
  BY <1>1, <1>2, <1>3

\* Both ends of the log are versions of it.
LEMMA EndsOfLog ==
    ASSUME LogType
    PROVE  /\ 1 \in DOMAIN roleLog /\ Cached = roleLog[1] /\ Cached \in VersionType
           /\ Len(roleLog) \in DOMAIN roleLog /\ Stored \in VersionType
  BY BoundsAssumption DEF LogType, Cached, Stored

-----------------------------------------------------------------------------
(* Types *)

\* TypeOK by the parts that a step can disturb.
RoleTyped == LogType /\ roleWorker \in RoleWorkerType
AssignmentTyped == assignment \in [cond : CondType] /\ worker \in WorkerType
KeylineTyped == roles \in [Ids -> RoleType] /\ liveUsers \subseteq UserIds
RestTyped == user \in UserIds \cup NoUser /\ deps \in Deps /\ budget \in BudgetType

IInv == RoleTyped /\ AssignmentTyped /\ KeylineTyped /\ RestTyped

LEMMA InitIInv == Init => IInv
<1> SUFFICES ASSUME Init PROVE IInv
  OBVIOUS
<1>1. RoleTyped
  <2> PICK s \in FirstSpecs : roleLog = <<Present(s)>>
    BY DEF Init
  <2>1. Present(s) \in VersionType
    BY ConstantTypes
  <2> QED
    BY <2>1, ConstantTypes, BoundsAssumption DEF Init, RoleTyped, LogType
<1>2. AssignmentTyped /\ KeylineTyped
  BY ConstantTypes DEF Init, AssignmentTyped, KeylineTyped
<1>3. RestTyped
  BY UsersAssumption, BoundsAssumption DEF Init, RestTyped, BudgetType
<1> QED
  BY <1>1, <1>2, <1>3 DEF IInv

\* The counters of faults and changes stay natural numbers.
LEMMA SpendType ==
    ASSUME IInv, NEW kind \in BudgetKinds, Spend(kind)
    PROVE  budget' \in BudgetType
  BY DEF Spend, IInv, RestTyped, BudgetType

LEMMA FaultyType ==
    ASSUME IInv, NEW call, Faulty(call)
    PROVE  budget' \in BudgetType
  BY SpendType DEF Faulty, BudgetKinds

\* A reason to stop is one that a condition may have.
LEMMA BlockersType ==
    ASSUME IInv
    PROVE  Blockers \subseteq Reasons /\ (deps # "ok" => deps \in Reasons)
  BY BoundsAssumption DEF IInv, RestTyped, Blockers, Reasons, NotOk, NoUser

\* What is left to show of a step of the one or the other reconciler.
LEMMA RolePart ==
    ASSUME IInv, RoleFrame, LogType', roleWorker' \in RoleWorkerType,
           roles' \in [Ids -> RoleType], budget' \in BudgetType
    PROVE  IInv'
  BY DEF RoleFrame, IInv, RoleTyped, AssignmentTyped, KeylineTyped, RestTyped

LEMMA AssignmentPart ==
    ASSUME IInv, AssignmentFrame, AssignmentTyped',
           roles' \in [Ids -> RoleType], budget' \in BudgetType
    PROVE  IInv'
  BY DEF AssignmentFrame, IInv, RoleTyped, LogType, AssignmentTyped, KeylineTyped,
         RestTyped

\* Creating and finding a role: its id becomes that of the pass.
LEMMA WithRole ==
    ASSUME NEW w \in RoleWorkerType, NEW id \in Ids \cup {None}
    PROVE  [w EXCEPT !.cur.roleId = id] \in RoleWorkerType
  BY DEF RoleWorkerType, StatusType

LEMMA BeginRoleIInv == ASSUME IInv, BeginRole PROVE IInv'
<1> DEFINE w == [IdleRole EXCEPT !.spec = Cached.spec, !.base = Cached.status,
                                 !.cur = Cached.status]
<1>1. w \in RoleWorkerType
  BY EndsOfLog, ConstantTypes DEF IInv, RoleTyped, VersionType, RoleWorkerType
<1>2. roleWorker' = IF deps # "ok" THEN SetRoleNotReady(w, deps)
                    ELSE [w EXCEPT !.pc = IF Cached.status.roleId # None
                                          THEN "get" ELSE "list"]
  BY DEF BeginRole
<1> HIDE DEF w
<1>3. roleWorker' \in RoleWorkerType
  <2>1. CASE deps # "ok"
    BY <1>1, <1>2, <2>1, BlockersType, RoleCondition
  <2>2. CASE deps = "ok"
    BY <1>1, <1>2, <2>2 DEF RoleWorkerType
  <2> QED
    BY <2>1, <2>2
<1> QED
  BY <1>3, RolePart DEF BeginRole, IInv, RoleTyped, LogType, KeylineTyped, RestTyped

LEMMA GetRoleIInv == ASSUME IInv, GetRole PROVE IInv'
<1>0. roleWorker \in RoleWorkerType
  BY DEF IInv, RoleTyped
<1> DEFINE diff == NeedsPatch(roles[roleWorker.cur.roleId], roleWorker.spec)
<1>1. roleWorker' \in RoleWorkerType
  <2>1. CASE roleWorker' = ForgetRoleId(roleWorker)
    BY <1>0, <2>1 DEF ForgetRoleId, RoleWorkerType, StatusType
  <2>2. CASE roleWorker' = SetRoleReady(roleWorker)
    BY <1>0, <2>2, RoleCondition DEF Reasons
  <2>3. CASE roleWorker' = [roleWorker EXCEPT !.pc = "patch", !.diff = diff]
    BY <1>0, <2>3 DEF RoleWorkerType, NeedsPatch
  <2>4. CASE roleWorker' = SetRoleNotReady(roleWorker, "GetFailed")
    BY <1>0, <2>4, RoleCondition DEF Reasons
  <2> QED
    BY <2>1, <2>2, <2>3, <2>4 DEF GetRole
<1>2. budget' \in BudgetType
  BY FaultyType DEF GetRole, IInv, RestTyped
<1> QED
  BY <1>1, <1>2, RolePart DEF GetRole, IInv, RoleTyped, LogType, KeylineTyped

LEMMA PatchRoleIInv == ASSUME IInv, PatchRole PROVE IInv'
<1>0. roleWorker \in RoleWorkerType /\ roles \in [Ids -> RoleType]
  BY DEF IInv, RoleTyped, KeylineTyped
<1>1. roleWorker' \in RoleWorkerType
  BY <1>0, RoleCondition DEF PatchRole, Reasons
<1>2. budget' \in BudgetType
  BY FaultyType DEF PatchRole, IInv, RestTyped
<1>3. roles' \in [Ids -> RoleType]
  <2> SUFFICES ASSUME NEW id \in Ids,
                      roles' = [roles EXCEPT ![id] = [f \in DOMAIN @ |->
                          IF f \in roleWorker.diff THEN roleWorker.spec[f] ELSE @[f]]]
               PROVE  roles' \in [Ids -> RoleType]
    BY <1>0 DEF PatchRole, Live
  <2> DEFINE r == [f \in DOMAIN roles[id] |->
                     IF f \in roleWorker.diff THEN roleWorker.spec[f] ELSE roles[id][f]]
  <2>1. roles[id] \in RoleType /\ roleWorker.spec \in SpecType /\ roleWorker.diff \subseteq Fields
    BY <1>0 DEF RoleWorkerType
  <2>2. r \in RoleType
    BY <2>1 DEF RoleType, SpecType, Fields
  <2>3. roles' = [roles EXCEPT ![id] = r]
    OBVIOUS
  <2> HIDE DEF r
  <2> QED
    BY <1>0, <2>2, <2>3
<1> QED
  BY <1>1, <1>2, <1>3, RolePart DEF PatchRole, IInv, RoleTyped, LogType

LEMMA ListRolesIInv == ASSUME IInv, ListRoles PROVE IInv'
<1>0. roleWorker \in RoleWorkerType
  BY DEF IInv, RoleTyped
<1>1. roleWorker' \in RoleWorkerType
  <2>1. ASSUME NEW id \in Matches(roleWorker.spec),
               roleWorker' = SetRoleReady([roleWorker EXCEPT !.cur.roleId = id])
        PROVE  roleWorker' \in RoleWorkerType
    BY <1>0, <2>1, WithRole, RoleCondition DEF Matches, Live, Reasons
  <2>2. CASE roleWorker' = [roleWorker EXCEPT !.pc = "create"]
    BY <1>0, <2>2 DEF RoleWorkerType
  <2>3. CASE roleWorker' \in {SetRoleReady(roleWorker), SetRoleNotReady(roleWorker, "ListFailed")}
    BY <1>0, <2>3, RoleCondition DEF Reasons
  <2> QED
    BY <2>1, <2>2, <2>3 DEF ListRoles
<1>2. budget' \in BudgetType
  BY FaultyType DEF ListRoles, IInv, RestTyped
<1> QED
  BY <1>1, <1>2, RolePart DEF ListRoles, IInv, RoleTyped, LogType, KeylineTyped

LEMMA CreatedRole ==
    ASSUME IInv, NEW id \in Ids, CreateAt(id)
    PROVE  /\ roles' \in [Ids -> RoleType] /\ roles[id].state = "unused"
           /\ roles'[id].state = "live" /\ roles'[id].name = roleWorker.spec.name
           /\ \A i \in Ids \ {id} : roles'[i] = roles[i]
           /\ Live' = Live \cup {id}
<1> DEFINE r == [Unused EXCEPT !.state = "live", !.name = roleWorker.spec.name,
                               !.description = roleWorker.spec.description]
<1>1. roles \in [Ids -> RoleType] /\ roleWorker \in RoleWorkerType /\ Unused \in RoleType
  BY ConstantTypes DEF IInv, RoleTyped, KeylineTyped
<1>2. r \in RoleType /\ r.state = "live" /\ r.name = roleWorker.spec.name
  BY <1>1 DEF RoleType, RoleWorkerType, SpecType
<1>3. roles' = [roles EXCEPT ![id] = r] /\ roles[id].state = "unused"
  BY DEF CreateAt
<1> HIDE DEF r
<1>4. /\ roles' \in [Ids -> RoleType] /\ roles'[id] = r
      /\ \A i \in Ids \ {id} : roles'[i] = roles[i]
  BY <1>1, <1>2, <1>3
<1>5. Live' = Live \cup {id}
  BY <1>2, <1>4 DEF Live
<1> QED
  BY <1>2, <1>3, <1>4, <1>5

LEMMA CreateRoleIInv == ASSUME IInv, CreateRole PROVE IInv'
<1>0. roleWorker \in RoleWorkerType
  BY DEF IInv, RoleTyped
<1>1. roleWorker' \in RoleWorkerType
  <2>1. ASSUME NEW id \in Ids,
               roleWorker' = SetRoleReady([roleWorker EXCEPT !.cur.roleId = id])
        PROVE  roleWorker' \in RoleWorkerType
    BY <1>0, <2>1, WithRole, RoleCondition DEF Reasons
  <2>2. CASE roleWorker' = SetRoleNotReady(roleWorker, "CreateFailed")
    BY <1>0, <2>2, RoleCondition DEF Reasons
  <2> QED
    BY <2>1, <2>2 DEF CreateRole
<1>2. budget' \in BudgetType
  BY FaultyType DEF CreateRole, IInv, RestTyped
<1>3. roles' \in [Ids -> RoleType]
  BY CreatedRole DEF CreateRole, IInv, KeylineTyped
<1> QED
  BY <1>1, <1>2, <1>3, RolePart DEF CreateRole, IInv, RoleTyped, LogType

\* The status patch stores the merge of the pass's changes.
LEMMA PatchedVersion ==
    ASSUME IInv
    PROVE  /\ Patched \in StatusType
           /\ [Stored EXCEPT !.status = Patched] \in VersionType
           /\ [Stored EXCEPT !.status = Patched].spec = Stored.spec
           /\ [Stored EXCEPT !.status = Patched].present = Stored.present
           /\ [Stored EXCEPT !.status = Patched].status = Patched
<1>1. Stored \in VersionType /\ Stored.status \in StatusType
  BY EndsOfLog DEF IInv, RoleTyped, VersionType
<1>2. Patched \in StatusType
  BY <1>1, MergeFromTypes DEF IInv, RoleTyped, RoleWorkerType, Patched
<1> QED
  BY <1>1, <1>2 DEF VersionType

LEMMA PatchRoleStatusIInv == ASSUME IInv, PatchRoleStatus PROVE IInv'
<1>1. LogType'
  <2>1. LogType
    BY DEF IInv, RoleTyped
  <2>2. CASE Publish([Stored EXCEPT !.status = Patched])
    BY <2>1, <2>2, PatchedVersion, PublishLog
  <2>3. CASE UNCHANGED roleLog
    BY <2>1, <2>3 DEF LogType
  <2> QED
    BY <2>2, <2>3 DEF PatchRoleStatus
<1>2. budget' \in BudgetType
  BY FaultyType DEF PatchRoleStatus, IInv, RestTyped
<1> QED
  BY <1>1, <1>2, RolePart, ConstantTypes DEF PatchRoleStatus, IInv, KeylineTyped

-----------------------------------------------------------------------------
(* The assignment's passes *)

LEMMA BeginIInv == ASSUME IInv, Begin PROVE IInv'
<1> DEFINE w == [Idle EXCEPT !.base = assignment, !.cur = assignment]
<1>1. w \in WorkerType
  BY ConstantTypes DEF IInv, AssignmentTyped, WorkerType
<1>2. \/ /\ Blockers = {}
         /\ worker' = [w EXCEPT !.pc = "list", !.userId = user,
                                !.roleId = Cached.status.roleId]
      \/ \E reason \in Blockers : worker' = SetNotReady(w, reason)
  BY DEF Begin
<1>3. Cached.status.roleId \in Ids \cup {None}
  BY EndsOfLog DEF IInv, RoleTyped, VersionType, StatusType
<1>4. Blockers = {} => user \in UserIds
  BY DEF Blockers, IInv, RestTyped
<1> HIDE DEF w
<1>5. worker' \in WorkerType
  <2>1. CASE \E reason \in Blockers : worker' = SetNotReady(w, reason)
    BY <1>1, <2>1, BlockersType, AssignmentCondition
  <2>2. CASE ~\E reason \in Blockers : worker' = SetNotReady(w, reason)
    BY <1>1, <1>2, <1>3, <1>4, <2>2 DEF WorkerType
  <2> QED
    BY <2>1, <2>2
<1> QED
  BY <1>5, AssignmentPart DEF Begin, IInv, AssignmentTyped, KeylineTyped, RestTyped

LEMMA ListUsersIInv == ASSUME IInv, ListUsers PROVE IInv'
<1>0. worker \in WorkerType
  BY DEF IInv, AssignmentTyped
<1>1. worker' \in WorkerType
  <2>1. worker' \in {SetReady(worker), [worker EXCEPT !.pc = "assign"],
                     SetNotReady(worker, "ListFailed")}
    BY DEF ListUsers
  <2> QED
    BY <1>0, <2>1, AssignmentCondition DEF WorkerType, Reasons
<1>2. budget' \in BudgetType
  BY FaultyType DEF ListUsers, IInv, RestTyped
<1> QED
  BY <1>1, <1>2, AssignmentPart DEF ListUsers, IInv, AssignmentTyped, KeylineTyped

\* Only living roles gain members.
LEMMA AddMemberRoles ==
    ASSUME IInv, CanAssign(worker), AddMember(worker)
    PROVE  /\ roles' \in [Ids -> RoleType]
           /\ \A id \in Ids : /\ roles'[id].state = roles[id].state
                              /\ roles'[id].name = roles[id].name
<1>1. worker.roleId \in Ids /\ worker.userId \in UserIds /\ roles \in [Ids -> RoleType]
  BY DEF CanAssign, Live, IInv, KeylineTyped
<1> QED
  BY <1>1 DEF AddMember, RoleType

LEMMA AssignIInv == ASSUME IInv, Assign PROVE IInv'
<1>0. worker \in WorkerType
  BY DEF IInv, AssignmentTyped
<1>1. worker' \in WorkerType
  BY <1>0, AssignmentCondition DEF Assign, Reasons
<1>2. budget' \in BudgetType
  BY FaultyType DEF Assign, IInv, RestTyped
<1>3. roles' \in [Ids -> RoleType]
  BY AddMemberRoles DEF Assign, IInv, KeylineTyped
<1> QED
  BY <1>1, <1>2, <1>3, AssignmentPart DEF Assign, IInv, AssignmentTyped

LEMMA StatusPatchIInv == ASSUME IInv, StatusPatch PROVE IInv'
<1>1. assignment' \in [cond : CondType]
  <2>1. /\ assignment \in [cond : CondType]
        /\ worker.base \in [cond : CondType] /\ worker.cur \in [cond : CondType]
    BY DEF IInv, AssignmentTyped, WorkerType
  <2>2. MergeFrom(worker.base, worker.cur, assignment) \in [cond : CondType]
    BY <2>1, MergeFromTypes
  <2> QED
    BY <2>1, <2>2 DEF StatusPatch
<1>2. budget' \in BudgetType
  BY FaultyType DEF StatusPatch, IInv, RestTyped
<1> QED
  BY <1>1, <1>2, AssignmentPart, ConstantTypes
  DEF StatusPatch, IInv, AssignmentTyped, KeylineTyped

-----------------------------------------------------------------------------
(* The environment *)

\* What a client stores: the version, or a version of the old status.
LEMMA AppliedVersion ==
    ASSUME IInv, NEW s \in RoleSpecs
    PROVE  /\ [Stored EXCEPT !.spec = s] \in VersionType
           /\ [Stored EXCEPT !.spec = s].spec = s
           /\ [Stored EXCEPT !.spec = s].status = Stored.status
           /\ Present(s) \in VersionType /\ Present(s).spec = s
           /\ Present(s).status = EmptyStatus
<1>1. Stored \in VersionType /\ s \in SpecType
  BY EndsOfLog, ConstantTypes DEF IInv, RoleTyped
<1> QED
  BY <1>1, ConstantTypes DEF VersionType, Present

LEMMA ObjectStepsIInv ==
    ASSUME IInv, Deliver \/ DeleteRoleObject \/ Crash \/ \E s \in RoleSpecs : ApplyRole(s)
    PROVE  IInv'
<1>0. LogType
  BY DEF IInv, RoleTyped
<1>1. LogType'
  <2>1. ASSUME NEW s \in RoleSpecs, ApplyRole(s) PROVE LogType'
    BY <1>0, <2>1, AppliedVersion, PublishLog DEF ApplyRole
  <2>2. CASE DeleteRoleObject
    BY <1>0, <2>2, ConstantTypes, PublishLog DEF DeleteRoleObject
  <2> QED
    BY <1>0, <2>1, <2>2, DeliverLog, CrashLog
<1>2. budget' \in BudgetType
  BY SpendType DEF Deliver, DeleteRoleObject, Crash, ApplyRole, BudgetKinds,
                   IInv, RestTyped
<1>3. /\ roleWorker' \in {roleWorker, IdleRole} /\ worker' \in {worker, Idle}
      /\ UNCHANGED <<assignment, user, deps, roles, liveUsers>>
  BY DEF Deliver, DeleteRoleObject, Crash, ApplyRole, assignmentVars, keylineVars
<1> QED
  BY <1>1, <1>2, <1>3, ConstantTypes
  DEF IInv, RoleTyped, AssignmentTyped, KeylineTyped, RestTyped

LEMMA DeletedRole ==
    ASSUME IInv, NEW id \in Ids, DeleteRole(id)
    PROVE  /\ roles' \in [Ids -> RoleType] /\ id \in Live
           /\ roles'[id].state = "deleted"
           /\ \A i \in Ids \ {id} : roles'[i] = roles[i]
           /\ Live' = Live \ {id}
<1>1. /\ roles \in [Ids -> RoleType] /\ [Unused EXCEPT !.state = "deleted"] \in RoleType
      /\ [Unused EXCEPT !.state = "deleted"].state = "deleted"
  BY ConstantTypes DEF IInv, KeylineTyped, Unused
<1>2. roles' = [roles EXCEPT ![id] = [Unused EXCEPT !.state = "deleted"]]
  BY DEF DeleteRole
<1>3. /\ roles' \in [Ids -> RoleType] /\ roles'[id].state = "deleted"
      /\ \A i \in Ids \ {id} : roles'[i] = roles[i]
  BY <1>1, <1>2
<1>4. Live' = Live \ {id}
  BY <1>3 DEF Live
<1> QED
  BY <1>3, <1>4 DEF DeleteRole

\* Losing a user takes it out of the roles and leaves them as they are.
LEMMA DeletedUser ==
    ASSUME IInv, NEW u, DeleteUser(u)
    PROVE  /\ roles' \in [Ids -> RoleType]
           /\ \A id \in Ids : /\ roles'[id].state = roles[id].state
                              /\ roles'[id].name = roles[id].name
<1>1. \A id \in Ids : /\ [roles[id] EXCEPT !.members = @ \ {u}] \in RoleType
                      /\ [roles[id] EXCEPT !.members = @ \ {u}].state = roles[id].state
                      /\ [roles[id] EXCEPT !.members = @ \ {u}].name = roles[id].name
  BY DEF IInv, KeylineTyped, RoleType
<1>2. roles' = [id \in Ids |-> [roles[id] EXCEPT !.members = @ \ {u}]]
  BY DEF DeleteUser
<1> QED
  BY <1>1, <1>2

LEMMA OtherStepsIInv ==
    ASSUME IInv,
           \/ \E d \in Deps : DepsChange(d)
           \/ \E id \in Ids : DeleteRole(id)
           \/ \E u \in UserIds : DeleteUser(u)
           \/ \E u \in UserIds \cup NoUser : UserChange(u)
    PROVE  IInv'
<1>1. budget' \in BudgetType
  BY SpendType DEF DepsChange, DeleteRole, DeleteUser, UserChange, BudgetKinds
<1>2. /\ UNCHANGED <<roleLog, roleWorker, assignment, worker>>
  BY DEF DepsChange, DeleteRole, DeleteUser, UserChange, roleVars, assignmentVars
<1>3. RoleTyped' /\ AssignmentTyped'
  BY <1>2 DEF IInv, RoleTyped, LogType, AssignmentTyped
<1>4. user' \in UserIds \cup NoUser /\ deps' \in Deps /\ liveUsers' \subseteq UserIds
  BY DEF DepsChange, DeleteRole, DeleteUser, UserChange, keylineVars, IInv, RestTyped,
         KeylineTyped
<1>5. roles' \in [Ids -> RoleType]
  <2>1. ASSUME NEW id \in Ids, DeleteRole(id) PROVE roles' \in [Ids -> RoleType]
    BY <2>1, DeletedRole
  <2>2. ASSUME NEW u \in UserIds, DeleteUser(u) PROVE roles' \in [Ids -> RoleType]
    BY <2>2, DeletedUser
  <2> QED
    BY <2>1, <2>2 DEF DepsChange, UserChange, keylineVars, IInv, KeylineTyped
<1> QED
  BY <1>1, <1>3, <1>4, <1>5 DEF IInv, KeylineTyped, RestTyped

LEMMA NextIInv == IInv /\ [Next]_vars => IInv'
<1> SUFFICES ASSUME IInv, [Next]_vars PROVE IInv'
  OBVIOUS
<1>1. CASE ReconcileRole
  BY <1>1, BeginRoleIInv, GetRoleIInv, PatchRoleIInv, ListRolesIInv, CreateRoleIInv,
     PatchRoleStatusIInv DEF ReconcileRole
<1>2. CASE Reconcile
  BY <1>2, BeginIInv, ListUsersIInv, AssignIInv, StatusPatchIInv DEF Reconcile
<1>3. CASE Deliver \/ Environment
  BY <1>3, ObjectStepsIInv, OtherStepsIInv DEF Environment
<1>4. CASE UNCHANGED vars
  BY <1>4 DEF vars, IInv, RoleTyped, LogType, AssignmentTyped, KeylineTyped, RestTyped
<1> QED
  BY <1>1, <1>2, <1>3, <1>4 DEF Next

\* The variables keep their types: among others every condition has one of the
\* documented reasons, and the roles of Keyline have only users as members that
\* were there to be assigned.
THEOREM TypeCorrect == Spec => []TypeOK
<1>1. Init => IInv
  BY InitIInv
<1>2. IInv /\ [Next]_vars => IInv'
  BY NextIInv
<1>3. IInv => TypeOK
  BY DEF IInv, TypeOK, RoleTyped, LogType, AssignmentTyped, KeylineTyped, RestTyped,
         RoleWorkerType, WorkerType, RoleType, BudgetType
<1> QED
  BY <1>1, <1>2, <1>3, PTL DEF Spec

-----------------------------------------------------------------------------
(* One role of a name *)

\* The clients of the role do not rename it.  A rename that a stale cache misses
\* may bring Keyline a second role, and a rename back gives both one name.
OneName == \E n \in Names : \A s \in RoleSpecs : s.name = n

HandedOut == {None} \cup {id \in Ids : roles[id].state # "unused"}

VersionOK(v) == /\ v.present => v.spec \in RoleSpecs
                /\ v.status.roleId \in HandedOut

LogOK == \A i \in DOMAIN roleLog : VersionOK(roleLog[i])

RolesOK == /\ \A id \in Live : roles[id].name \in Names
           /\ \A i, j \in Live : i = j

\* A pass creates a role only if it has no id and there is no role; one whose
\* status patch will replace the id holds that of the role that lives, if the
\* stored status has one that does.
PassOK ==
    roleWorker.pc # "idle" =>
        /\ roleWorker.spec \in RoleSpecs
        /\ roleWorker.cur.roleId \in HandedOut
        /\ roleWorker.pc \in {"list", "create"} => roleWorker.cur.roleId = None
        /\ roleWorker.pc = "create" => Live = {}
        /\ (/\ roleWorker.cur.roleId \notin {None, roleWorker.base.roleId}
            /\ Stored.status.roleId \in Live)
              => Stored.status.roleId = roleWorker.cur.roleId

AOK == LogOK /\ RolesOK /\ PassOK
AInv == IInv /\ AOK

LEMMA InitAInv == Init => AInv
<1> SUFFICES ASSUME Init PROVE AInv
  OBVIOUS
<1>1. Live = {} /\ roleWorker.pc = "idle"
  BY DEF Init, Live, Unused, IdleRole
<1>2. LogOK
  BY SpecsAssumption DEF Init, LogOK, VersionOK, HandedOut, Present, EmptyStatus
<1> QED
  BY <1>1, <1>2, InitIInv DEF AInv, AOK, RolesOK, PassOK

LEMMA EndsOK ==
    ASSUME AInv
    PROVE  /\ Cached \in VersionType /\ Stored \in VersionType /\ LogType
           /\ VersionOK(Cached) /\ VersionOK(Stored) /\ roleWorker \in RoleWorkerType
<1>1. LogType /\ roleWorker \in RoleWorkerType
  BY DEF AInv, IInv, RoleTyped
<1> QED
  BY <1>1, EndsOfLog DEF AInv, AOK, LogOK, Stored

\* A step that neither makes nor loses a role nor gives one another name.
KeepsNames == \A id \in Ids : /\ roles'[id].state = roles[id].state
                              /\ roles'[id].name = roles[id].name

LEMMA SameRoles ==
    ASSUME AOK, KeepsNames
    PROVE  HandedOut' = HandedOut /\ Live' = Live /\ RolesOK'
<1>1. HandedOut' = HandedOut /\ Live' = Live
  BY DEF KeepsNames, HandedOut, Live
<1> QED
  BY <1>1 DEF AOK, RolesOK, KeepsNames, Live

\* A patch of a role may well name it, but with the name it has.
LEMMA PatchKeepsNames == ASSUME OneName, AInv, PatchRole PROVE KeepsNames
<1> DEFINE id == roleWorker.cur.roleId
           r == [f \in DOMAIN roles[id] |->
                   IF f \in roleWorker.diff THEN roleWorker.spec[f] ELSE roles[id][f]]
<1>0. roles \in [Ids -> RoleType] /\ roleWorker \in RoleWorkerType
  BY DEF AInv, IInv, RoleTyped, KeylineTyped
<1>1. CASE UNCHANGED roles
  BY <1>1 DEF KeepsNames
<1>2. CASE id \in Live /\ roles' = [roles EXCEPT ![id] = [f \in DOMAIN @ |->
                IF f \in roleWorker.diff THEN roleWorker.spec[f] ELSE @[f]]]
  <2>1. id \in Ids /\ roles[id] \in RoleType /\ roleWorker.diff \subseteq Fields
    BY <1>0, <1>2 DEF Live, RoleWorkerType
  <2>2. roleWorker.spec.name = roles[id].name
    BY <1>2 DEF PatchRole, OneName, AInv, AOK, PassOK, RolesOK, Names
  <2>3. r.state = roles[id].state /\ r.name = roles[id].name
    BY <2>1, <2>2 DEF RoleType, Fields
  <2>4. roles' = [roles EXCEPT ![id] = r]
    BY <1>2
  <2> HIDE DEF r
  <2> QED
    BY <1>0, <2>1, <2>3, <2>4 DEF KeepsNames
<1> QED
  BY <1>1, <1>2 DEF PatchRole

\* A step that changes neither the object, nor its pass, nor a role's name.
LEMMA Elsewhere ==
    ASSUME AOK, KeepsNames, UNCHANGED <<roleLog, roleWorker>>
    PROVE  AOK'
<1>1. HandedOut' = HandedOut /\ Live' = Live /\ RolesOK' /\ Stored' = Stored
  BY SameRoles DEF Stored
<1> QED
  BY <1>1 DEF AOK, LogOK, VersionOK, PassOK

\* A step of the pass that changes neither its id, nor the object, nor a name.
LEMMA PassGoesOn ==
    ASSUME AOK, KeepsNames, UNCHANGED roleLog, roleWorker.pc # "idle",
           roleWorker'.spec = roleWorker.spec, roleWorker'.base = roleWorker.base,
           roleWorker'.cur.roleId = roleWorker.cur.roleId,
           roleWorker'.pc \in {"list", "create"} => roleWorker.cur.roleId = None,
           roleWorker'.pc = "create" => Live = {}
    PROVE  AOK'
<1>1. HandedOut' = HandedOut /\ Live' = Live /\ RolesOK' /\ Stored' = Stored
  BY SameRoles DEF Stored
<1> QED
  BY <1>1 DEF AOK, LogOK, VersionOK, PassOK

\* A step of the pass after which it has the id of the only role, or none.
LEMMA PassFinds ==
    ASSUME AOK, KeepsNames, UNCHANGED roleLog, roleWorker.pc # "idle",
           roleWorker'.spec = roleWorker.spec,
           roleWorker'.cur.roleId \in Live \cup {None},
           roleWorker'.pc = "list" => roleWorker'.cur.roleId = None,
           roleWorker'.pc # "create"
    PROVE  AOK'
<1>1. /\ HandedOut' = HandedOut /\ Live' = Live /\ RolesOK' /\ Stored' = Stored
      /\ Live \subseteq HandedOut
  BY SameRoles DEF Stored, HandedOut, Live
<1> QED
  BY <1>1 DEF AOK, LogOK, VersionOK, PassOK, RolesOK, HandedOut

LEMMA BeginRoleAOK == ASSUME AInv, BeginRole PROVE AOK'
<1> DEFINE w == [IdleRole EXCEPT !.spec = Cached.spec, !.base = Cached.status,
                                 !.cur = Cached.status]
<1>0. /\ Cached \in VersionType /\ VersionOK(Cached) /\ Cached.present
      /\ AOK /\ UNCHANGED <<roleLog, roles>>
  BY EndsOK DEF BeginRole, AInv
<1>1. /\ w \in RoleWorkerType /\ w.spec = Cached.spec /\ w.base = Cached.status
      /\ w.cur = Cached.status
  BY <1>0, ConstantTypes DEF VersionType, RoleWorkerType
<1>2. roleWorker' = IF deps # "ok" THEN SetRoleNotReady(w, deps)
                    ELSE [w EXCEPT !.pc = IF Cached.status.roleId # None
                                          THEN "get" ELSE "list"]
  BY DEF BeginRole
<1> HIDE DEF w
<1>3. /\ roleWorker'.spec = w.spec /\ roleWorker'.base = w.base
      /\ roleWorker'.cur.roleId = w.cur.roleId
      /\ roleWorker'.pc = "list" => w.cur.roleId = None
      /\ roleWorker'.pc # "create"
  <2>1. CASE deps # "ok"
    BY <1>1, <1>2, <2>1, BlockersType, RoleCondition DEF AInv
  <2>2. CASE deps = "ok"
    BY <1>1, <1>2, <2>2 DEF RoleWorkerType
  <2> QED
    BY <2>1, <2>2
<1>4. LogOK' /\ RolesOK'
  BY <1>0 DEF AOK, LogOK, VersionOK, HandedOut, RolesOK, Live
<1>5. PassOK'
  BY <1>0, <1>1, <1>3 DEF VersionOK, PassOK, HandedOut
<1> QED
  BY <1>4, <1>5 DEF AOK

LEMMA GetRoleAOK == ASSUME AInv, GetRole PROVE AOK'
<1>0. /\ roleWorker \in RoleWorkerType /\ roleWorker.pc = "get"
      /\ UNCHANGED <<roleLog, roles>> /\ AOK /\ KeepsNames
  BY EndsOK DEF AInv, GetRole, KeepsNames
<1> DEFINE diff == NeedsPatch(roles[roleWorker.cur.roleId], roleWorker.spec)
<1>1. CASE roleWorker' = ForgetRoleId(roleWorker)
  <2>1. /\ roleWorker'.pc = "list" /\ roleWorker'.spec = roleWorker.spec
        /\ roleWorker'.cur.roleId = None
    BY <1>0, <1>1 DEF ForgetRoleId, RoleWorkerType, StatusType
  <2> QED
    BY <1>0, <2>1, PassFinds
<1>2. CASE roleWorker' \in {SetRoleReady(roleWorker), SetRoleNotReady(roleWorker, "GetFailed")}
  BY <1>0, <1>2, PassGoesOn, RoleCondition DEF Reasons
<1>3. CASE roleWorker' = [roleWorker EXCEPT !.pc = "patch", !.diff = diff]
  BY <1>0, <1>3, PassGoesOn DEF RoleWorkerType
<1> QED
  BY <1>1, <1>2, <1>3 DEF GetRole

LEMMA PatchRoleAOK == ASSUME OneName, AInv, PatchRole PROVE AOK'
<1>0. /\ roleWorker \in RoleWorkerType /\ roleWorker.pc = "patch"
      /\ UNCHANGED roleLog /\ AOK
  BY EndsOK DEF AInv, PatchRole
<1>1. roleWorker' \in {SetRoleReady(roleWorker), SetRoleNotReady(roleWorker, "PatchFailed")}
  BY DEF PatchRole
<1>2. /\ roleWorker'.pc = "status" /\ roleWorker'.spec = roleWorker.spec
      /\ roleWorker'.base = roleWorker.base
      /\ roleWorker'.cur.roleId = roleWorker.cur.roleId
  BY <1>0, <1>1, RoleCondition DEF Reasons
<1> QED
  BY <1>0, <1>2, PatchKeepsNames, PassGoesOn

LEMMA ListRolesAOK == ASSUME OneName, AInv, ListRoles PROVE AOK'
<1>0. /\ roleWorker \in RoleWorkerType /\ roleWorker.pc = "list"
      /\ roleWorker.spec \in RoleSpecs /\ roleWorker.cur.roleId = None
      /\ UNCHANGED <<roleLog, roles>> /\ AOK /\ KeepsNames
  BY EndsOK DEF AInv, AOK, PassOK, ListRoles, KeepsNames
<1>1. ASSUME NEW id \in Matches(roleWorker.spec),
             roleWorker' = SetRoleReady([roleWorker EXCEPT !.cur.roleId = id])
      PROVE  AOK'
  <2> DEFINE w == [roleWorker EXCEPT !.cur.roleId = id]
  <2>1. id \in Live /\ id \in Ids
    BY DEF Matches, Live
  <2>2. w \in RoleWorkerType /\ w.spec = roleWorker.spec /\ w.cur.roleId = id
    BY <1>0, <2>1, WithRole DEF RoleWorkerType, StatusType
  <2>3. roleWorker' = SetRoleReady(w)
    BY <1>1
  <2> HIDE DEF w
  <2>4. /\ roleWorker'.pc = "status" /\ roleWorker'.spec = roleWorker.spec
        /\ roleWorker'.cur.roleId = id
    BY <2>2, <2>3, RoleCondition DEF Reasons
  <2> QED
    BY <1>0, <2>1, <2>4, PassFinds
<1>2. CASE Matches(roleWorker.spec) = {} /\ roleWorker' = [roleWorker EXCEPT !.pc = "create"]
  <2>1. Live = {}
    BY <1>0, <1>2 DEF AOK, RolesOK, OneName, Matches, Names
  <2> QED
    BY <1>0, <1>2, <2>1, PassGoesOn DEF RoleWorkerType
<1>3. CASE roleWorker' = SetRoleNotReady(roleWorker, "ListFailed")
  BY <1>0, <1>3, PassGoesOn, RoleCondition DEF Reasons
<1> QED
  BY <1>0, <1>1, <1>2, <1>3 DEF ListRoles

\* A role is created only where a search found none, and there is but one name.
LEMMA CreatedAlone ==
    ASSUME AInv, roleWorker.pc = "create", NEW id \in Ids, CreateAt(id)
    PROVE  /\ Live = {} /\ Live' = {id} /\ RolesOK'
           /\ HandedOut \subseteq HandedOut' /\ id \in HandedOut'
<1>1. /\ roles'[id].state = "live" /\ roles'[id].name = roleWorker.spec.name
      /\ \A i \in Ids \ {id} : roles'[i] = roles[i]
      /\ Live' = Live \cup {id}
  BY CreatedRole DEF AInv
<1>2. roleWorker.spec \in RoleSpecs /\ Live = {}
  BY DEF AInv, AOK, PassOK
<1>3. RolesOK'
  BY <1>1, <1>2 DEF RolesOK, Names
<1>4. HandedOut \subseteq HandedOut' /\ id \in HandedOut'
  BY <1>1 DEF HandedOut
<1> QED
  BY <1>1, <1>2, <1>3, <1>4

LEMMA CreateRoleAOK == ASSUME AInv, CreateRole PROVE AOK'
<1>0. /\ roleWorker \in RoleWorkerType /\ roleWorker.pc = "create"
      /\ roleWorker.spec \in RoleSpecs /\ roleWorker.cur.roleId = None
      /\ UNCHANGED roleLog /\ LogOK /\ AOK
  BY EndsOK DEF AInv, AOK, PassOK, CreateRole
<1>1. ASSUME NEW id \in Ids, CreateAt(id),
             roleWorker' = SetRoleReady([roleWorker EXCEPT !.cur.roleId = id])
      PROVE  AOK'
  <2> DEFINE w == [roleWorker EXCEPT !.cur.roleId = id]
  <2>1. w \in RoleWorkerType /\ w.spec = roleWorker.spec /\ w.cur.roleId = id
    BY <1>0, WithRole DEF RoleWorkerType, StatusType
  <2>2. roleWorker' = SetRoleReady(w)
    BY <1>1
  <2> HIDE DEF w
  <2>3. /\ roleWorker'.pc = "status" /\ roleWorker'.spec = roleWorker.spec
        /\ roleWorker'.cur.roleId = id
    BY <2>1, <2>2, RoleCondition DEF Reasons
  <2>4. Live' = {id} /\ RolesOK' /\ HandedOut \subseteq HandedOut' /\ id \in HandedOut'
    BY <1>0, <1>1, CreatedAlone
  <2>5. LogOK'
    BY <1>0, <2>4 DEF LogOK, VersionOK
  <2>6. PassOK'
    BY <1>0, <2>3, <2>4 DEF PassOK
  <2> QED
    BY <2>4, <2>5, <2>6 DEF AOK
<1>2. CASE roleWorker' = SetRoleNotReady(roleWorker, "CreateFailed")
  <2>1. /\ roleWorker'.pc = "status" /\ roleWorker'.spec = roleWorker.spec
        /\ roleWorker'.cur.roleId = None
    BY <1>0, <1>2, RoleCondition DEF Reasons
  <2>2. RolesOK' /\ HandedOut \subseteq HandedOut'
    <3>1. CASE UNCHANGED roles
      BY <1>0, <3>1 DEF AOK, RolesOK, Live, HandedOut
    <3>2. CASE \E id \in Ids : CreateAt(id)
      BY <1>0, <3>2, CreatedAlone
    <3> QED
      BY <1>2, <3>1, <3>2 DEF CreateRole
  <2>3. LogOK'
    BY <1>0, <2>2 DEF LogOK, VersionOK
  <2>4. PassOK'
    BY <1>0, <2>1, <2>2 DEF PassOK, HandedOut
  <2> QED
    BY <2>2, <2>3, <2>4 DEF AOK
<1> QED
  BY <1>1, <1>2 DEF CreateRole

\* The patched status has the pass's id if the pass changed it, else the
\* stored one.
LEMMA PatchedId ==
    ASSUME AInv
    PROVE  Patched.roleId =
                IF roleWorker.cur.roleId # roleWorker.base.roleId
                THEN roleWorker.cur.roleId ELSE Stored.status.roleId
  BY EndsOK DEF VersionType, StatusType, Patched, MergeFrom

\* What a client, or the status patch, stores.
LEMMA StoredVersion ==
    ASSUME AInv, \/ \E s \in RoleSpecs : ApplyRole(s)
                 \/ DeleteRoleObject
                 \/ PatchRoleStatus /\ roleLog' # roleLog
    PROVE  \E v \in VersionType :
            /\ Publish(v)
            /\ v.present => v.spec \in RoleSpecs
            /\ v.status.roleId \in {None, Stored.status.roleId,
                                    IF PatchRoleStatus THEN Patched.roleId ELSE None}
<1>0. Stored \in VersionType /\ VersionOK(Stored) /\ IInv
  BY EndsOK DEF AInv
<1>1. CASE DeleteRoleObject
  BY <1>1, ConstantTypes DEF DeleteRoleObject, Absent, EmptyStatus
<1>2. ASSUME NEW s \in RoleSpecs, ApplyRole(s)
      PROVE  \E v \in VersionType : /\ Publish(v)
                                    /\ v.present => v.spec \in RoleSpecs
                                    /\ v.status.roleId \in {None, Stored.status.roleId}
  <2>1. CASE Stored.present
    <3>1. Publish([Stored EXCEPT !.spec = s])
      BY <1>2, <2>1 DEF ApplyRole
    <3> QED
      BY <1>0, <3>1, AppliedVersion
  <2>2. CASE ~Stored.present
    <3> DEFINE v == Present(s)
    <3>1. Publish(v)
      BY <1>2, <2>2 DEF ApplyRole
    <3>2. v \in VersionType
      BY <1>0, AppliedVersion
    <3>3. v.spec = s /\ v.status.roleId = None
      BY DEF Present, EmptyStatus
    <3> HIDE DEF v
    <3> QED
      BY <3>1, <3>2, <3>3
  <2> QED
    BY <2>1, <2>2
<1>3. CASE PatchRoleStatus /\ roleLog' # roleLog
  <2> DEFINE v == [Stored EXCEPT !.status = Patched]
  <2>1. Publish(v) /\ Stored.present
    BY <1>3 DEF PatchRoleStatus
  <2>2. v \in VersionType /\ v.status = Patched /\ v.spec = Stored.spec
    BY <1>0, PatchedVersion
  <2> HIDE DEF v
  <2> QED
    BY <1>0, <1>3, <2>1, <2>2 DEF VersionOK
<1> QED
  BY <1>1, <1>2, <1>3

LEMMA StoredAOK ==
    ASSUME AInv, \/ \E s \in RoleSpecs : ApplyRole(s)
                 \/ DeleteRoleObject
                 \/ PatchRoleStatus
    PROVE  AOK'
<1>0. AOK /\ UNCHANGED roles /\ KeepsNames /\ HandedOut' = HandedOut /\ Live' = Live
      /\ RolesOK' /\ LogType
  <2>1. AOK /\ UNCHANGED roles
    BY DEF AInv, ApplyRole, DeleteRoleObject, PatchRoleStatus, keylineVars
  <2> QED
    BY <2>1, SameRoles, EndsOK DEF KeepsNames
<1>1. CASE UNCHANGED roleLog /\ PatchRoleStatus
  <2>1. LogOK'
    BY <1>0, <1>1 DEF AOK, LogOK, VersionOK
  <2> QED
    BY <1>0, <1>1, <2>1 DEF AOK, PassOK, PatchRoleStatus, IdleRole
<1>2. CASE ~(UNCHANGED roleLog /\ PatchRoleStatus)
  <2> PICK v \in VersionType :
          /\ Publish(v)
          /\ v.present => v.spec \in RoleSpecs
          /\ v.status.roleId \in {None, Stored.status.roleId,
                                  IF PatchRoleStatus THEN Patched.roleId ELSE None}
    BY <1>2, StoredVersion
  <2>1. OldOr(v) /\ Stored' = v
    BY <1>0, PublishLog
  <2>2. VersionOK(v)
    <3>1. PatchRoleStatus => Patched.roleId \in HandedOut
      BY <1>0, PatchedId, EndsOK DEF AOK, PassOK, PatchRoleStatus, VersionOK
    <3> QED
      BY <3>1, EndsOK DEF VersionOK, HandedOut
  <2>3. LogOK'
    BY <1>0, <2>1, <2>2 DEF AOK, LogOK, VersionOK, OldOr
  <2>4. PassOK'
    <3>1. CASE PatchRoleStatus
      BY <3>1 DEF PatchRoleStatus, IdleRole, PassOK
    <3>2. CASE ~PatchRoleStatus
      <4>1. None \notin Live /\ UNCHANGED roleWorker
        BY <3>2, NoneAssumption DEF Live, ApplyRole, DeleteRoleObject
      <4> QED
        BY <1>0, <2>1, <3>2, <4>1 DEF AOK, PassOK
    <3> QED
      BY <3>1, <3>2
  <2> QED
    BY <1>0, <2>3, <2>4 DEF AOK
<1> QED
  BY <1>1, <1>2

LEMMA InformerAOK == ASSUME AInv, Deliver \/ Crash PROVE AOK'
<1>0. /\ AOK /\ UNCHANGED roles /\ HandedOut' = HandedOut /\ Live' = Live /\ RolesOK'
  <2>1. AOK /\ KeepsNames /\ UNCHANGED roles
    BY DEF AInv, KeepsNames, Deliver, Crash, keylineVars
  <2> QED
    BY <2>1, SameRoles
<1>1. CASE Deliver
  <2>1. /\ Stored' = Stored
        /\ \A i \in DOMAIN roleLog' : \E j \in DOMAIN roleLog : roleLog'[i] = roleLog[j]
    BY <1>1, EndsOK, DeliverLog
  <2>2. LogOK'
    BY <1>0, <2>1 DEF AOK, LogOK, VersionOK
  <2> QED
    BY <1>0, <1>1, <2>1, <2>2 DEF AOK, PassOK, Deliver
<1>2. CASE Crash
  <2>1. VersionOK(Stored) /\ \A i \in DOMAIN roleLog' : roleLog'[i] = Stored
    BY <1>2, EndsOK, CrashLog
  <2>2. LogOK'
    BY <1>0, <2>1 DEF LogOK, VersionOK
  <2> QED
    BY <1>0, <1>2, <2>2 DEF AOK, PassOK, Crash, IdleRole
<1> QED
  BY <1>1, <1>2

\* In Keyline, roles only disappear behind the operator's back.
LEMMA DeleteRoleAOK == ASSUME AInv, NEW id \in Ids, DeleteRole(id) PROVE AOK'
<1>1. /\ roles'[id].state = "deleted" /\ id \in Live
      /\ \A i \in Ids \ {id} : roles'[i] = roles[i]
      /\ Live' = Live \ {id}
  BY DeletedRole DEF AInv
<1>2. AOK /\ UNCHANGED <<roleLog, roleWorker>>
  BY DEF AInv, DeleteRole, roleVars
<1>3. HandedOut' = HandedOut
  BY <1>1 DEF HandedOut, Live
<1>4. LogOK'
  BY <1>2, <1>3 DEF AOK, LogOK, VersionOK
<1>5. RolesOK'
  <2>1. \A i \in Live' : i \in Live /\ roles'[i] = roles[i]
    BY <1>1 DEF Live
  <2> QED
    BY <1>2, <2>1 DEF AOK, RolesOK
<1>6. PassOK'
  BY <1>1, <1>2, <1>3 DEF AOK, PassOK, Stored
<1> QED
  BY <1>4, <1>5, <1>6 DEF AOK

\* The steps of the assignment's reconciler and those of the environment that
\* leave the role object and its pass alone.
Aside == \/ Reconcile \/ UNCHANGED vars
         \/ \E d \in Deps : DepsChange(d)
         \/ \E u \in UserIds : DeleteUser(u)
         \/ \E u \in UserIds \cup NoUser : UserChange(u)

LEMMA AsideKeeps ==
    ASSUME IInv, Aside
    PROVE  KeepsNames /\ UNCHANGED <<roleLog, roleWorker>>
<1>1. UNCHANGED <<roleLog, roleWorker>>
  BY DEF Aside, Reconcile, Begin, ListUsers, Assign, StatusPatch, AssignmentFrame,
         vars, DepsChange, DeleteUser, UserChange, roleVars
<1>2. UNCHANGED roles => KeepsNames
  BY DEF KeepsNames
<1>3. Assign => KeepsNames
  BY <1>2, AddMemberRoles DEF Assign, KeepsNames
<1>4. ASSUME NEW u \in UserIds, DeleteUser(u) PROVE KeepsNames
  BY <1>4, DeletedUser DEF KeepsNames
<1> QED
  BY <1>1, <1>2, <1>3, <1>4
  DEF Aside, Reconcile, Begin, ListUsers, StatusPatch, vars, DepsChange, UserChange,
      keylineVars

LEMMA NextAInv == ASSUME OneName, AInv, [Next]_vars PROVE AInv'
<1>0. IInv'
  BY NextIInv DEF AInv
<1>1. CASE Aside
  BY <1>0, <1>1, AsideKeeps, Elsewhere DEF AInv
<1>2. CASE BeginRole \/ GetRole \/ PatchRole \/ ListRoles \/ CreateRole
  BY <1>0, <1>2, BeginRoleAOK, GetRoleAOK, PatchRoleAOK, ListRolesAOK, CreateRoleAOK
  DEF AInv
<1>3. CASE PatchRoleStatus \/ DeleteRoleObject \/ \E s \in RoleSpecs : ApplyRole(s)
  BY <1>0, <1>3, StoredAOK DEF AInv
<1>4. CASE Deliver \/ Crash \/ \E id \in Ids : DeleteRole(id)
  BY <1>0, <1>4, InformerAOK, DeleteRoleAOK DEF AInv
<1> QED
  BY <1>1, <1>2, <1>3, <1>4 DEF Next, ReconcileRole, Environment, Aside

\* Whatever answers, status patches, watch events or processes are lost, and
\* whatever happens to the assignment meanwhile, Keyline gets one role of a name:
\* as long as clients do not rename the role.
THEOREM OneRolePerName ==
    ASSUME OneName
    PROVE  Spec => []NoDuplicateRoles
<1>1. AInv /\ [Next]_vars => AInv'
  BY NextAInv
<1>2. AInv => NoDuplicateRoles
  BY DEF AInv, AOK, RolesOK, NoDuplicateRoles
<1> QED
  BY InitAInv, <1>1, <1>2, PTL DEF Spec

-----------------------------------------------------------------------------
(* The refinement mapping of Binding *)

objs == [id \in Ids |-> IF id \in Live THEN roles[id].name
                        ELSE IF roles[id].state = "deleted" THEN "gone"
                        ELSE "unused"]
bound == Stored.status.roleId

\* The mapped objects: names of the living ones, and of no other.
LEMMA MappedObjects ==
    ASSUME AInv
    PROVE  /\ \A id \in Ids : objs[id] \in Names <=> id \in Live
           /\ \A id \in Ids : objs[id] = "unused" <=> roles[id].state = "unused"
           /\ Binding!Living = Live
<1>1. \A id \in Live : roles[id].name \in Names
  BY DEF AInv, AOK, RolesOK
<1>2. \A id \in Ids \ Live : roles[id].state \in {"unused", "deleted"}
  BY DEF AInv, IInv, KeylineTyped, RoleType, Live
<1>3. /\ \A id \in Ids : objs[id] \in Names <=> id \in Live
      /\ \A id \in Ids : objs[id] = "unused" <=> roles[id].state = "unused"
  BY <1>1, <1>2, NamesAssumption DEF objs, Live
<1>4. Binding!Living = {id \in Ids : objs[id] \in Names}
  BY DEF Binding!Living, objs
<1> QED
  BY <1>3, <1>4 DEF Live

\* Steps after which Keyline's roles have the same names and the stored id is
\* the same stutter.
LEMMA Stutters ==
    ASSUME Stored' = Stored, KeepsNames
    PROVE  UNCHANGED <<objs, bound>>
<1>1. Live' = Live
  BY DEF Live, KeepsNames
<1> QED
  BY <1>1 DEF objs, bound, Live, KeepsNames

LEMMA CreateRefines ==
    ASSUME AInv, CreateRole
    PROVE  Binding!Next \/ UNCHANGED <<objs, bound>>
<1>0. Stored' = Stored /\ roleWorker.pc = "create" /\ roleWorker.spec \in RoleSpecs
  BY DEF CreateRole, Stored, AInv, AOK, PassOK
<1>1. CASE UNCHANGED roles
  BY <1>0, <1>1, Stutters DEF KeepsNames
<1>2. ASSUME NEW id \in Ids, CreateAt(id) PROVE Binding!Next
  <2> PICK n \in Names : n = roleWorker.spec.name
    BY <1>0 DEF Names
  <2>1. Live = {} /\ Live' = {id}
    BY <1>0, <1>2, CreatedAlone
  <2>2. /\ roles'[id].name = n /\ \A i \in Ids \ {id} : roles'[i] = roles[i]
        /\ roles[id].state = "unused"
    BY <1>2, CreatedRole DEF AInv
  <2>3. objs[id] = "unused" /\ \A i \in Ids : objs[i] # n
    BY <2>1, <2>2, MappedObjects
  <2>4. objs' = [objs EXCEPT ![id] = n]
    BY <2>1, <2>2 DEF objs
  <2>5. bound' = bound
    BY <1>0 DEF bound
  <2>6. Binding!Create(id, n)
    BY <2>3, <2>4, <2>5 DEF Binding!Create, Binding!NameFree, objs, bound
  <2> QED
    BY <2>6 DEF Binding!Next
<1> QED
  BY <1>1, <1>2 DEF CreateRole

\* A stored version has the old id, or none, or that of the pass, which is not
\* the old one only when no living role is left that the old one names.
LEMMA StoredRefines ==
    ASSUME AInv, \/ \E s \in RoleSpecs : ApplyRole(s)
                 \/ DeleteRoleObject
                 \/ PatchRoleStatus
    PROVE  Binding!Next \/ UNCHANGED <<objs, bound>>
<1>0. UNCHANGED roles
  BY DEF ApplyRole, DeleteRoleObject, PatchRoleStatus, keylineVars
<1>1. objs' = objs
  BY <1>0 DEF objs, Live
<1>2. CASE UNCHANGED roleLog /\ PatchRoleStatus
  BY <1>0, <1>2, Stutters DEF Stored, KeepsNames
<1>3. CASE ~(UNCHANGED roleLog /\ PatchRoleStatus)
  <2> PICK v \in VersionType :
          /\ Publish(v)
          /\ v.status.roleId \in {None, Stored.status.roleId,
                                  IF PatchRoleStatus THEN Patched.roleId ELSE None}
    BY <1>3, StoredVersion
  <2>1. bound' = v.status.roleId
    BY PublishLog, EndsOK DEF bound
  <2>2. CASE bound' = bound
    BY <1>1, <2>2
  <2>3. CASE bound' = None
    <3>1. Binding!Forget
      BY <1>1, <2>3 DEF Binding!Forget, objs, bound
    <3> QED
      BY <3>1 DEF Binding!Next
  <2>4. CASE bound' \notin {None, bound}
    <3> PICK id \in HandedOut : id = roleWorker.cur.roleId
      BY <2>1, <2>4 DEF AInv, AOK, PassOK, PatchRoleStatus, bound
    <3>1. PatchRoleStatus /\ bound' = id /\ id \notin {None, roleWorker.base.roleId}
      BY <2>1, <2>4, PatchedId DEF bound
    <3>2. id \in Ids /\ roles[id].state # "unused" /\ bound \notin Live
      BY <2>4, <3>1 DEF AInv, AOK, PassOK, HandedOut, bound, PatchRoleStatus
    <3>3. Binding!Bind(id)
      BY <1>1, <3>1, <3>2, MappedObjects DEF Binding!Bind, objs, bound
    <3> QED
      BY <3>2, <3>3 DEF Binding!Next
  <2> QED
    BY <2>2, <2>3, <2>4
<1> QED
  BY <1>2, <1>3

LEMMA LossRefines ==
    ASSUME AInv, NEW id \in Ids, DeleteRole(id)
    PROVE  Binding!Next
<1>1. /\ roles'[id].state = "deleted" /\ id \in Live
      /\ \A i \in Ids \ {id} : roles'[i] = roles[i]
      /\ Live' = Live \ {id}
  BY DeletedRole DEF AInv
<1>2. Stored' = Stored
  BY DEF DeleteRole, Stored, roleVars
<1>3. objs' = [i \in Ids |-> IF i \in {id} THEN "gone" ELSE objs[i]]
  BY <1>1 DEF objs, Live
<1>4. Binding!Lose({id})
  BY <1>2, <1>3 DEF Binding!Lose, objs, bound
<1> QED
  BY <1>1, <1>4, MappedObjects DEF Binding!Next

LEMMA NextRefines ==
    ASSUME OneName, AInv, [Next]_vars
    PROVE  Binding!Next \/ UNCHANGED <<objs, bound>>
<1>1. CASE Aside
  BY <1>1, AsideKeeps, Stutters DEF AInv, Stored
<1>2. CASE BeginRole \/ GetRole \/ ListRoles
  BY <1>2, Stutters DEF BeginRole, GetRole, ListRoles, Stored, KeepsNames
<1>3. CASE PatchRole
  BY <1>3, PatchKeepsNames, Stutters DEF PatchRole, Stored
<1>4. CASE Deliver \/ Crash
  <2>1. Stored' = Stored /\ UNCHANGED roles
    BY <1>4, EndsOK, DeliverLog, CrashLog DEF Deliver, Crash, keylineVars
  <2> QED
    BY <2>1, Stutters DEF KeepsNames
<1>5. CASE CreateRole
  BY <1>5, CreateRefines
<1>6. CASE PatchRoleStatus \/ DeleteRoleObject \/ \E s \in RoleSpecs : ApplyRole(s)
  BY <1>6, StoredRefines
<1>7. CASE \E id \in Ids : DeleteRole(id)
  BY <1>7, LossRefines
<1> QED
  BY <1>1, <1>2, <1>3, <1>4, <1>5, <1>6, <1>7
  DEF Next, ReconcileRole, Environment, Aside

\* The reconciler of a role that clients do not rename does nothing to Keyline's
\* roles that a NamedResource may not do: a role is created only when its name
\* is free, and the status never leaves a living role for another one.
THEOREM BindingSafe ==
    ASSUME OneName
    PROVE  Spec => Binding!Safety
<1>1. Init => Binding!Init
  <2> SUFFICES ASSUME Init PROVE Binding!Init
    OBVIOUS
  <2>1. Live = {} /\ \A id \in Ids : roles[id].state = "unused"
    BY DEF Init, Live, Unused
  <2>2. Stored.status.roleId = None
    BY DEF Init, Stored, Present, EmptyStatus
  <2> QED
    BY <2>1, <2>2 DEF Binding!Init
<1>2. AInv /\ [Next]_vars => AInv'
  BY NextAInv
<1>3. AInv /\ [Next]_vars => [Binding!Next]_<<objs, bound>>
  BY NextRefines
<1>4. Spec => []AInv
  BY InitAInv, <1>2, PTL DEF Spec
<1>5. Spec => Binding!Init /\ [][Binding!Next]_<<objs, bound>>
  BY <1>1, <1>3, <1>4, PTL DEF Spec
<1> QED
  BY <1>5, PTL DEF Binding!Safety, objs, bound

================================================================================
