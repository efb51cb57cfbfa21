------------------------------ MODULE RoleBinding ------------------------------
(***************************************************************************)
(* internal/controller/keylinerole_controller.go and                       *)
(* keylineroleassignment_controller.go: the reconcilers of one KeylineRole *)
(* and of one KeylineRoleAssignment that refers to it and to a KeylineUser,*)
(* and the Keyline server with its roles and their members.                *)
(*                                                                         *)
(* The two reconcilers run concurrently in one process.  The assignment    *)
(* takes the role's id from the role's status in the cache they share,     *)
(* while the role's reconciler is in the middle of a pass, while Keyline   *)
(* loses the role or the user, or before the watch delivers a change.      *)
(*                                                                         *)
(* One action is one call with the local work up to the next; the reads    *)
(* from the cache at the start of a pass are one step.  Every return of a  *)
(* pass that found its object asks for another one, so an idle reconciler  *)
(* can always begin.  What the reconcilers find in the project, the        *)
(* virtual server, the instance and the Secret is the variable deps; what  *)
(* the assignment finds in the KeylineUser is the variable user.           *)
(***************************************************************************)
EXTENDS Naturals, Sequences, FiniteSets, StatusPatcher

CONSTANTS
    RoleSpecs,    \* the specs [name, description] a client may submit
    FirstSpecs,   \* those with which the role starts
    Ids,          \* the UUIDs Keyline can hand out for roles: bounds Create
    UserIds,      \* the UUIDs of users
    FirstUsers,   \* what the assignment finds of the KeylineUser at the start
    None,
    PageSize,     \* of the listing of a role's users: 1000 in the code
    OtherMembers, \* number of a role's users that are none of the UserIds
    Deps,         \* "ok" and the reasons of NotOk that occur
    Failable,     \* the calls that may fail: see Calls
    MaxLag,       \* bound on undelivered watch events of the role
    Budget        \* bound on each kind of environment step

Calls == {"Get", "Patch", "List", "Create", "CreateResponse", "ListUsers",
          "Assign", "AssignResponse", "RoleStatusPatch", "StatusPatch"}
BudgetKinds == {"fault", "change"}
NotOk == {"ProjectNotFound", "ProjectNotReady", "VirtualServerNotFound",
          "VirtualServerNotReady", "InstanceNotFound", "SecretNotFound"}
NoUser == {"UserNotFound", "UserNotReady"}
Reasons == NotOk \cup NoUser \cup
           {"NoCondition", "RoleNotFound", "RoleNotReady", "GetFailed", "PatchFailed",
            "ListFailed", "CreateFailed", "AssignFailed", "Synced"}
Fields == {"name", "description"}

Names == {s.name : s \in RoleSpecs}
Descriptions == {s.description : s \in RoleSpecs}

ASSUME SpecsAssumption ==
    /\ FirstSpecs # {} /\ FirstSpecs \subseteq RoleSpecs
    /\ RoleSpecs \subseteq [name : Names, description : Descriptions]
ASSUME NoneAssumption == None \notin Names \cup Descriptions \cup Ids \cup UserIds
ASSUME NamesAssumption == Names \cap {"unused", "gone"} = {}
ASSUME UsersAssumption ==
    /\ UserIds \cap NoUser = {}
    /\ FirstUsers # {} /\ FirstUsers \subseteq UserIds \cup NoUser
ASSUME BoundsAssumption ==
    /\ "ok" \in Deps /\ Deps \subseteq {"ok"} \cup NotOk
    /\ Failable \subseteq Calls
    /\ PageSize \in Nat /\ OtherMembers \in Nat /\ MaxLag \in Nat
    /\ Budget \in [BudgetKinds -> Nat]

VARIABLES
    roleLog,     \* versions of the KeylineRole: the head is the informer's copy,
                 \* the last the API server's
    roleWorker,  \* the running pass over the role
    assignment,  \* the status of the KeylineRoleAssignment
    worker,      \* the running pass over the assignment
    user,        \* the KeylineUser: missing, not ready, or its status.userId
    deps,        \* "ok", or why both passes stop before they have a client
    roles,       \* Keyline's roles
    liveUsers,   \* Keyline's users
    budget

roleVars == <<roleLog, roleWorker>>
assignmentVars == <<assignment, worker>>
keylineVars == <<roles, liveUsers>>
vars == <<roleLog, roleWorker, assignment, worker, user, deps, roles, liveUsers, budget>>

-----------------------------------------------------------------------------
(* Data *)

EmptyStatus == [roleId |-> None, cond |-> NoCondition]
NoSpec == [name |-> None, description |-> None]
Present(s) == [present |-> TRUE, spec |-> s, status |-> EmptyStatus]
Absent == [present |-> FALSE, spec |-> NoSpec, status |-> EmptyStatus]

\* diff: the fields that the Patch request sets
IdleRole == [pc |-> "idle", spec |-> NoSpec, base |-> EmptyStatus,
             cur |-> EmptyStatus, diff |-> {}]

Unassigned == [cond |-> NoCondition]
Idle == [pc |-> "idle", base |-> Unassigned, cur |-> Unassigned,
         roleId |-> None, userId |-> None]

Unused == [state |-> "unused", name |-> None, description |-> None, members |-> {}]

Cached == Head(roleLog)
Stored == roleLog[Len(roleLog)]
Live == {id \in Ids : roles[id].state = "live"}

Spend(kind) ==
    /\ budget[kind] > 0
    /\ budget' = [budget EXCEPT ![kind] = @ - 1]

Faulty(call) == call \in Failable /\ Spend("fault")

\* A version is stored; a watch that is MaxLag events behind delivers one.
Publish(v) ==
    roleLog' = IF Len(roleLog) > MaxLag THEN Append(Tail(roleLog), v)
                                        ELSE Append(roleLog, v)

-----------------------------------------------------------------------------
(* The pass over the role *)

SetRoleNotReadyNoReason(w, reason) ==  \* mutant: the reason is lost
    [w EXCEPT !.pc = "status", !.cur = setNotReadyCondition(w.cur, "")]

SetRoleNotReady(w, reason) ==
    [w EXCEPT !.pc = "status", !.cur = setNotReadyCondition(w.cur, reason)]

SetRoleReady(w) ==
    [w EXCEPT !.pc = "status", !.cur = setReadyCondition(w.cur, "Synced")]

RoleFrame == UNCHANGED <<assignment, worker, user, deps, liveUsers>>

BeginRole ==
    /\ roleWorker.pc = "idle"
    /\ Cached.present
    /\ LET w == [IdleRole EXCEPT !.spec = Cached.spec, !.base = Cached.status,
                                 !.cur = Cached.status]
       IN roleWorker' = IF deps # "ok" THEN SetRoleNotReady(w, deps)
                        ELSE [w EXCEPT !.pc = IF Cached.status.roleId # None
                                              THEN "get" ELSE "list"]
    /\ UNCHANGED <<roleLog, roles, budget>> /\ RoleFrame

\* The fields of the patch: those in which Keyline's role differs.
NeedsPatch(role, spec) == {f \in Fields : role[f] # spec[f]}

\* mutant: the stale id is kept
KeepRoleId(w) == [w EXCEPT !.pc = "list"]

\* 404: fall through to find or create.
ForgetRoleId(w) == [w EXCEPT !.pc = "list", !.cur.roleId = None]

GetRole ==
    LET id == roleWorker.cur.roleId
        diff == NeedsPatch(roles[id], roleWorker.spec)
    IN  /\ roleWorker.pc = "get"
        /\ \/ /\ roleWorker' =
                    IF id \notin Live THEN ForgetRoleId(roleWorker)
                    ELSE IF diff = {} THEN SetRoleReady(roleWorker)
                    ELSE [roleWorker EXCEPT !.pc = "patch", !.diff = diff]
              /\ UNCHANGED budget
           \/ /\ Faulty("Get")
              /\ roleWorker' = SetRoleNotReady(roleWorker, "GetFailed")
        /\ UNCHANGED <<roleLog, roles>> /\ RoleFrame

PatchRole ==
    LET id == roleWorker.cur.roleId IN
    /\ roleWorker.pc = "patch"
    /\ \/ /\ id \in Live
          /\ roles' = [roles EXCEPT ![id] = [f \in DOMAIN @ |->
                            IF f \in roleWorker.diff THEN roleWorker.spec[f] ELSE @[f]]]
          /\ roleWorker' = SetRoleReady(roleWorker)
          /\ UNCHANGED budget
       \/ /\ id \notin Live
          /\ roleWorker' = SetRoleNotReady(roleWorker, "PatchFailed")
          /\ UNCHANGED <<roles, budget>>
       \/ /\ Faulty("Patch")
          /\ roleWorker' = SetRoleNotReady(roleWorker, "PatchFailed")
          /\ UNCHANGED roles
    /\ UNCHANGED roleLog /\ RoleFrame

\* mutant: looks for the description
MatchesDescription(spec) == {id \in Live : roles[id].description = spec.name}

Matches(spec) == {id \in Live : roles[id].name = spec.name}

\* Find by name in case the status was lost.  A role that is found is reported
\* as synced without a look at its description: the next pass sees to it.
ListRoles ==
    /\ roleWorker.pc = "list"
    /\ \/ /\ \E id \in Matches(roleWorker.spec) :
                roleWorker' = SetRoleReady([roleWorker EXCEPT !.cur.roleId = id])
          /\ UNCHANGED budget
       \/ /\ Matches(roleWorker.spec) = {}
          /\ roleWorker' = IF roleWorker.cur.roleId = None
                           THEN [roleWorker EXCEPT !.pc = "create"]
                           ELSE SetRoleReady(roleWorker)
          /\ UNCHANGED budget
       \/ /\ Faulty("List")
          /\ roleWorker' = SetRoleNotReady(roleWorker, "ListFailed")
    /\ UNCHANGED <<roleLog, roles>> /\ RoleFrame

CreateAt(id) ==
    /\ roles[id].state = "unused"
    /\ roles' = [roles EXCEPT ![id] =
                    [Unused EXCEPT !.state = "live", !.name = roleWorker.spec.name,
                                   !.description = roleWorker.spec.description]]

CreateRole ==
    /\ roleWorker.pc = "create"
    /\ \/ /\ \E id \in Ids :
                /\ CreateAt(id)
                /\ roleWorker' = SetRoleReady([roleWorker EXCEPT !.cur.roleId = id])
          /\ UNCHANGED budget
       \/ /\ Faulty("Create")
          /\ roleWorker' = SetRoleNotReady(roleWorker, "CreateFailed")
          /\ UNCHANGED roles
       \/ /\ Faulty("CreateResponse")
          /\ \E id \in Ids : CreateAt(id)
          /\ roleWorker' = SetRoleNotReady(roleWorker, "CreateFailed")
    /\ UNCHANGED roleLog /\ RoleFrame

Patched == MergeFrom(roleWorker.base, roleWorker.cur, Stored.status)

PatchRoleStatus ==
    /\ roleWorker.pc = "status"
    /\ \/ /\ IF Stored.present /\ Patched # Stored.status
             THEN Publish([Stored EXCEPT !.status = Patched])
             ELSE UNCHANGED roleLog
          /\ UNCHANGED budget
       \/ /\ Faulty("RoleStatusPatch")
          /\ UNCHANGED roleLog
    /\ roleWorker' = IdleRole
    /\ UNCHANGED roles /\ RoleFrame

-----------------------------------------------------------------------------
(* The pass over the assignment *)

SetNotReady(w, reason) ==
    [w EXCEPT !.pc = "status", !.cur = setNotReadyCondition(w.cur, reason)]

SetReady(w) ==
    [w EXCEPT !.pc = "status", !.cur = setReadyCondition(w.cur, "Synced")]

AssignmentFrame == UNCHANGED <<roleLog, roleWorker, user, deps, liveUsers>>

\* Why the pass stops before its first call to Keyline, in the code's order.
Blockers ==
    IF ~Cached.present THEN {"RoleNotFound"}
    ELSE IF ~IsReady(Cached.status) THEN {"RoleNotReady"}
    ELSE IF user \in NoUser THEN {user}
    ELSE IF deps # "ok" THEN {deps}
    ELSE IF Cached.status.roleId = None THEN {"RoleNotReady"}
    ELSE {}

Begin ==
    /\ worker.pc = "idle"
    /\ LET w == [Idle EXCEPT !.base = assignment, !.cur = assignment]
       IN \/ /\ Blockers = {}
             /\ worker' = [w EXCEPT !.pc = "list", !.userId = user,
                                    !.roleId = Cached.status.roleId]
          \/ \E reason \in Blockers : worker' = SetNotReady(w, reason)
    /\ UNCHANGED <<assignment, roles, budget>> /\ AssignmentFrame

\* The pages Keyline may answer with: everything, if everything fits.
MemberPages(members) ==
    {p \in SUBSET members :
        /\ Cardinality(p) <= PageSize
        /\ p = members \/ Cardinality(p) + OtherMembers >= PageSize}

\* A member that is not on the page is taken for none, and assigned again.
ListUsers ==
    /\ worker.pc = "list"
    /\ \/ /\ worker.roleId \in Live
          /\ \E page \in MemberPages(roles[worker.roleId].members) :
                worker' = IF worker.userId \in page THEN SetReady(worker)
                          ELSE [worker EXCEPT !.pc = "assign"]
          /\ UNCHANGED budget
       \/ /\ worker.roleId \notin Live
          /\ worker' = SetNotReady(worker, "ListFailed")
          /\ UNCHANGED budget
       \/ /\ Faulty("ListUsers")
          /\ worker' = SetNotReady(worker, "ListFailed")
    /\ UNCHANGED <<assignment, roles>> /\ AssignmentFrame

\* Keyline knows both.
CanAssign(w) == w.roleId \in Live /\ w.userId \in liveUsers

AddMember(w) == roles' = [roles EXCEPT ![w.roleId].members = @ \cup {w.userId}]

Assign ==
    /\ worker.pc = "assign"
    /\ \/ /\ CanAssign(worker)
          /\ AddMember(worker)
          /\ worker' = SetReady(worker)
          /\ UNCHANGED budget
       \/ /\ ~CanAssign(worker)
          /\ worker' = SetNotReady(worker, "AssignFailed")
          /\ UNCHANGED <<roles, budget>>
       \/ /\ Faulty("Assign")
          /\ worker' = SetNotReady(worker, "AssignFailed")
          /\ UNCHANGED roles
       \/ /\ Faulty("AssignResponse")
          /\ CanAssign(worker)
          /\ AddMember(worker)
          /\ worker' = SetNotReady(worker, "AssignFailed")
    /\ UNCHANGED assignment /\ AssignmentFrame

StatusPatch ==
    /\ worker.pc = "status"
    /\ \/ /\ assignment' = MergeFrom(worker.base, worker.cur, assignment)
          /\ UNCHANGED budget
       \/ /\ Faulty("StatusPatch")
          /\ UNCHANGED assignment
    /\ worker' = Idle
    /\ UNCHANGED roles /\ AssignmentFrame

-----------------------------------------------------------------------------
(* The environment *)

Deliver ==
    /\ Len(roleLog) > 1
    /\ roleLog' = Tail(roleLog)
    /\ UNCHANGED <<roleWorker, assignmentVars, user, deps, keylineVars, budget>>

\* A client creates the role object, or updates its spec.
ApplyRole(s) ==
    /\ Spend("change")
    /\ s # Stored.spec
    /\ Publish(IF Stored.present THEN [Stored EXCEPT !.spec = s] ELSE Present(s))
    /\ UNCHANGED <<roleWorker, assignmentVars, user, deps, keylineVars>>

DeleteRoleObject ==
    /\ Spend("change")
    /\ Stored.present
    /\ Publish(Absent)
    /\ UNCHANGED <<roleWorker, assignmentVars, user, deps, keylineVars>>

\* The process dies with both passes; the new informer lists the objects.
Crash ==
    /\ Spend("change")
    /\ roleWorker' = IdleRole /\ worker' = Idle
    /\ roleLog' = <<Stored>>
    /\ UNCHANGED <<assignment, user, deps, keylineVars>>

DepsChange(d) ==
    /\ Spend("change")
    /\ d # deps
    /\ deps' = d
    /\ UNCHANGED <<roleVars, assignmentVars, user, keylineVars>>

\* Someone deletes the role in Keyline; an id is left for the next one.
DeleteRole(id) ==
    /\ Spend("change")
    /\ id \in Live
    /\ \E next \in Ids : roles[next].state = "unused"
    /\ roles' = [roles EXCEPT ![id] = [Unused EXCEPT !.state = "deleted"]]
    /\ UNCHANGED <<roleVars, assignmentVars, user, deps, liveUsers>>

\* Someone deletes the user in Keyline, and with it its memberships.
DeleteUser(u) ==
    /\ Spend("change")
    /\ u \in liveUsers
    /\ liveUsers' = liveUsers \ {u}
    /\ roles' = [id \in Ids |-> [roles[id] EXCEPT !.members = @ \ {u}]]
    /\ UNCHANGED <<roleVars, assignmentVars, user, deps>>

\* The KeylineUser appears, disappears, is not ready, or its reconciler
\* records the id of a user that Keyline has.
UserChange(u) ==
    /\ Spend("change")
    /\ u # user
    /\ user' = u
    /\ liveUsers' = IF u \in UserIds THEN liveUsers \cup {u} ELSE liveUsers
    /\ UNCHANGED <<roleVars, assignmentVars, deps, roles>>

-----------------------------------------------------------------------------
(* Specification *)

Init ==
    /\ \E s \in FirstSpecs : roleLog = <<Present(s)>>
    /\ roleWorker = IdleRole
    /\ assignment = Unassigned
    /\ worker = Idle
    /\ user \in FirstUsers
    /\ deps = "ok"
    /\ roles = [id \in Ids |-> Unused]
    /\ liveUsers = {user} \cap UserIds
    /\ budget = Budget

ReconcileRole ==
    \/ BeginRole \/ GetRole \/ PatchRole \/ ListRoles \/ CreateRole \/ PatchRoleStatus

Reconcile == Begin \/ ListUsers \/ Assign \/ StatusPatch

Environment ==
    \/ \E s \in RoleSpecs : ApplyRole(s)
    \/ DeleteRoleObject
    \/ Crash
    \/ \E d \in Deps : DepsChange(d)
    \/ \E id \in Ids : DeleteRole(id)
    \/ \E u \in UserIds : DeleteUser(u)
    \/ \E u \in UserIds \cup NoUser : UserChange(u)

Next == ReconcileRole \/ Reconcile \/ Deliver \/ Environment

\* Each reconciler's worker goes on and the watch delivers.
Fairness == WF_vars(ReconcileRole) /\ WF_vars(Reconcile) /\ WF_vars(Deliver)

Spec == Init /\ [][Next]_vars /\ Fairness

-----------------------------------------------------------------------------
(* Properties *)

SpecType == [name : Names \cup {None}, description : Descriptions \cup {None}]
CondType == [ready : BOOLEAN, reason : Reasons]
StatusType == [roleId : Ids \cup {None}, cond : CondType]
VersionType == [present : BOOLEAN, spec : SpecType, status : StatusType]

\* The values of the variables.
TypeOK ==
    /\ roleLog \in Seq(VersionType) /\ Len(roleLog) \in 1 .. MaxLag + 1
    /\ roleWorker \in [pc : {"idle", "get", "patch", "list", "create", "status"},
                       spec : SpecType, base : StatusType, cur : StatusType,
                       diff : SUBSET Fields]
    /\ assignment \in [cond : CondType]
    /\ worker \in [pc : {"idle", "list", "assign", "status"},
                   base : [cond : CondType], cur : [cond : CondType],
                   roleId : Ids \cup {None}, userId : UserIds \cup {None}]
    /\ user \in UserIds \cup NoUser
    /\ deps \in Deps
    /\ roles \in [Ids -> [state : {"unused", "live", "deleted"},
                          name : Names \cup {None},
                          description : Descriptions \cup {None},
                          members : SUBSET UserIds]]
    /\ liveUsers \subseteq UserIds
    /\ budget \in [BudgetKinds -> Nat]

\* "find by name in case the status was lost": whatever answer, status patch or
\* watch event was lost or late, Keyline never gets a second role of one name.
NoDuplicateRoles ==
    \A i, j \in Live : roles[i].name = roles[j].name => i = j

\* The role is a NamedResource.
Binding == INSTANCE NamedResource WITH
    objects <- [id \in Ids |-> IF id \in Live THEN roles[id].name
                               ELSE IF roles[id].state = "deleted" THEN "gone"
                               ELSE "unused"],
    bound <- Stored.status.roleId,
    wanted <- Stored.present /\ deps = "ok"

\* The role's id in the status never leaves a role that Keyline still has, which
\* would leave that role's members behind, and in the end is that of one.
ImplementsNamedResource == Binding!Spec

RoleSettled ==
    Stored.present =>
        IF deps = "ok"
        THEN /\ IsReady(Stored.status)
             /\ Stored.status.roleId \in Live
             /\ NeedsPatch(roles[Stored.status.roleId], Stored.spec) = {}
        ELSE Stored.status.cond = [ready |-> FALSE, reason |-> deps]

AssignmentSettled ==
    IF Blockers = {} /\ user \in liveUsers
    THEN /\ IsReady(assignment)
         /\ user \in roles[Cached.status.roleId].members
    ELSE /\ ~IsReady(assignment)
         /\ assignment.cond.reason \in Blockers \cup {"AssignFailed"}

\* Once edits, failures and out-of-band changes stop, the role object is for
\* good bound to a role with its name and description, and the user the
\* assignment names is a member of it - of the recreated role, and the
\* recreated user, if Keyline lost them - or the condition says why not.
EventuallyAssigned == <>[](RoleSettled /\ AssignmentSettled)

=============================================================================
