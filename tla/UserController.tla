---------------------------- MODULE UserController ----------------------------
(***************************************************************************)
(* internal/controller/keylineuser_controller.go: the reconciler of one    *)
(* KeylineUser object, the API server and informer cache it reads and      *)
(* writes through, and the Keyline server whose users it manages.          *)
(*                                                                         *)
(* One action is one API call of the reconciler together with the local    *)
(* work up to the next call, so that everything else - edits of the        *)
(* object, deletions in Keyline, a crash of the operator, a late watch     *)
(* event - may happen between any two calls.                               *)
(*                                                                         *)
(* Abstractions.  status.managedKeyIds and spec.publicKeys are sets (the   *)
(* code never duplicates an entry); the removal loop follows the list's    *)
(* order in the code and any order here.  What the reconciler reads of its *)
(* KeylineVirtualServer, KeylineInstance and credentials Secret is one     *)
(* variable, deps: "ok", or the reason for which Reconcile gives up.       *)
(* Delays (30s, error backoff) are "eventually".                           *)
(***************************************************************************)
EXTENDS Naturals, Sequences, FiniteSets, StatusPatcher

CONSTANTS
    Kids,           \* key ids
    Pems,           \* public keys
    Usernames,
    DisplayNames,
    Ids,            \* the UUIDs Keyline can hand out: bounds CreateServiceUser
    None,           \* absent value: nil, "" or not in a map
    Specs,          \* the specs a client of the API server may submit
    PageSize,       \* 1000 in the code
    OtherUsers,     \* number of Keyline users that are none of the Ids
    KidsUnique,     \* whether Keyline refuses a kid that the user has
    Deps,           \* "ok" and the reasons of NotOk that occur
    Failable,       \* the calls that may fail: see Calls
    OthersKids,     \* the kids of the keys that others associate in Keyline
    OthersDelete,   \* whether others delete users in Keyline
    MaxLag,         \* bound on undelivered watch events
    Budget          \* bound on each kind of environment step: see BudgetKinds

Calls == {"Get", "List", "Create", "CreateResponse", "Patch", "Associate",
          "AssociateResponse", "Remove", "RemoveResponse", "StatusPatch"}
BudgetKinds == {"fault", "edit", "delete", "crash", "outOfBand", "deps"}
NotOk == {"VirtualServerNotFound", "VirtualServerNotReady",
          "InstanceNotFound", "SecretNotFound"}
Reasons == NotOk \cup {"NoCondition", "GetFailed", "ListFailed", "CreateFailed",
                       "PatchFailed", "AssociateKeyFailed", "RemoveKeyFailed",
                       "Synced"}

SpecType == [username : Usernames \cup {None},
          display  : DisplayNames \cup {None},
          keys     : [Kids -> Pems \cup {None}]]

ASSUME NoneAssumption ==
    None \notin Kids \cup Pems \cup Usernames \cup DisplayNames \cup Ids
ASSUME NamesAssumption == Usernames \cap {"unused", "gone"} = {}
ASSUME SpecsAssumption == Specs # {} /\ Specs \subseteq SpecType
ASSUME BoundsAssumption ==
    /\ PageSize \in Nat /\ OtherUsers \in Nat /\ MaxLag \in Nat
    /\ Budget \in [BudgetKinds -> Nat]
ASSUME EnvironmentAssumption ==
    /\ KidsUnique \in BOOLEAN
    /\ "ok" \in Deps /\ Deps \subseteq {"ok"} \cup NotOk
    /\ Failable \subseteq Calls
    /\ OthersKids \subseteq Kids
    /\ OthersDelete \in BOOLEAN

VARIABLES
    crLog,    \* versions of the KeylineUser: the head is the informer's copy,
              \* the last the API server's, the rest undelivered watch events
    pending,  \* the object's request is in the work queue or due on a timer
    worker,   \* the local state of the running Reconcile call
    users,    \* Keyline's service users
    deps,     \* what Reconcile finds on the way to a Keyline client
    budget,   \* how many environment steps of each kind are left
    added     \* history: the <<id, kid>> the operator made Keyline associate

vars == <<crLog, pending, worker, users, deps, budget, added>>

-----------------------------------------------------------------------------
(* Data *)

EmptyStatus == [userId |-> None, managed |-> {}, cond |-> NoCondition]
NoSpec == [username |-> None, display |-> None, keys |-> [k \in Kids |-> None]]

Present(s) == [present |-> TRUE, spec |-> s, status |-> EmptyStatus]
Absent == [present |-> FALSE, spec |-> NoSpec, status |-> EmptyStatus]

Idle == [pc |-> "idle", spec |-> NoSpec, base |-> EmptyStatus,
         cur |-> EmptyStatus, id |-> None, gone |-> {}]

Unused == [state |-> "unused", name |-> None, display |-> None,
           keys |-> [k \in Kids |-> None]]

Cached == Head(crLog)
Stored == crLog[Len(crLog)]

\* desired: the kids of spec.publicKeys
Desired(spec) == {k \in Kids : spec.keys[k] # None}

Live == {id \in Ids : users[id].state = "live"}

-----------------------------------------------------------------------------
(* The API server and the informer *)

Spend(kind) ==
    /\ budget[kind] > 0
    /\ budget' = [budget EXCEPT ![kind] = @ - 1]

\* A new version of the object is stored.  A watch that is MaxLag events
\* behind delivers the oldest one at once.
Publish(v) ==
    crLog' = IF Len(crLog) > MaxLag THEN Append(Tail(crLog), v)
                                    ELSE Append(crLog, v)

\* ... and a delivered event enqueues the object's request.
Enqueue == pending' = (pending \/ Len(crLog) > MaxLag)

\* A client creates the object, or updates its spec.
ApplySpec(s) ==
    /\ Spend("edit")
    /\ s # Stored.spec
    /\ Publish(IF Stored.present THEN [Stored EXCEPT !.spec = s] ELSE Present(s))
    /\ Enqueue
    /\ UNCHANGED <<worker, users, deps, added>>

\* A client deletes the object.  There is no finalizer: it is gone at once.
DeleteObject ==
    /\ Spend("delete")
    /\ Stored.present
    /\ Publish(Absent)
    /\ Enqueue
    /\ UNCHANGED <<worker, users, deps, added>>

\* The informer applies a watch event and enqueues the object's request.
Deliver ==
    /\ Len(crLog) > 1
    /\ crLog' = Tail(crLog)
    /\ pending' = TRUE
    /\ UNCHANGED <<worker, users, deps, budget, added>>

-----------------------------------------------------------------------------
(* Reconcile *)

\* Every return of reconcileWithClient goes through setReady or setNotReady,
\* which leave the patch of the status as the last call to make.
SetNotReadyNoReason(w, reason) ==  \* mutant: the reason is lost
    [w EXCEPT !.pc = "status", !.cur.cond = [ready |-> FALSE, reason |-> ""]]

SetNotReady(w, reason) ==
    [w EXCEPT !.pc = "status", !.cur = setNotReadyCondition(w.cur, reason)]

ReturnNoRequeue == worker' = Idle /\ UNCHANGED pending  \* mutant

\* The worker goes idle.  A result with an error or with RequeueAfter puts
\* the request back.
Return == worker' = Idle /\ pending' = TRUE

Faulty(call) == call \in Failable /\ Spend("fault")

\* What Reconcile starts from once it holds a Keyline client.
FirstCall(status) == IF status.userId # None THEN "get" ELSE "list"

Begin ==
    /\ worker.pc = "idle"
    /\ pending
    /\ pending' = FALSE
    /\ IF ~Cached.present
       THEN UNCHANGED worker
       ELSE LET w == [Idle EXCEPT !.spec = Cached.spec, !.base = Cached.status,
                                  !.cur = Cached.status]
            IN worker' = IF deps # "ok" THEN SetNotReady(w, deps)
                         ELSE [w EXCEPT !.pc = FirstCall(Cached.status)]
    /\ UNCHANGED <<crLog, users, deps, budget, added>>

\* ensureServiceUser returned id: the display name is next, if there is one.
WithUser(w, id) ==
    [w EXCEPT !.id = id, !.cur.userId = id,
              !.pc = IF w.spec.display # None THEN "patch" ELSE "keys"]

\* A stored id that Keyline answers with 404 is forgotten.
ForgetUser(w) == [w EXCEPT !.pc = "list", !.cur.userId = None]

Get ==
    /\ worker.pc = "get"
    /\ \/ /\ worker' = IF worker.cur.userId \in Live
                       THEN WithUser(worker, worker.cur.userId)
                       ELSE ForgetUser(worker)
          /\ UNCHANGED budget
       \/ /\ Faulty("Get")
          /\ worker' = SetNotReady(worker, "GetFailed")
    /\ UNCHANGED <<crLog, pending, users, deps, added>>

\* The pages Keyline may answer with: everything, if everything fits.
Pages ==
    {p \in SUBSET Live :
        /\ Cardinality(p) <= PageSize
        /\ \/ p = Live
           \/ Cardinality(p) + OtherUsers >= PageSize}

\* mutant: compares the name with the wrong field
MatchesDisplay(page, spec) == {id \in page : users[id].display = spec.username}

Matches(page, spec) == {id \in page : users[id].name = spec.username}

List ==
    /\ worker.pc = "list"
    /\ \/ /\ \E page \in Pages :
                IF Matches(page, worker.spec) = {}
                THEN worker' = [worker EXCEPT !.pc = "create"]
                ELSE \E id \in Matches(page, worker.spec) :
                        worker' = WithUser(worker, id)
          /\ UNCHANGED budget
       \/ /\ Faulty("List")
          /\ worker' = SetNotReady(worker, "ListFailed")
    /\ UNCHANGED <<crLog, pending, users, deps, added>>

CreateAt(id) ==
    /\ users[id].state = "unused"
    /\ users' = [users EXCEPT ![id].state = "live",
                              ![id].name = worker.spec.username]

\* Keyline may refuse the name, which is one of the ways to fail.
CreateServiceUser ==
    /\ worker.pc = "create"
    /\ \/ /\ \E id \in Ids : CreateAt(id) /\ worker' = WithUser(worker, id)
          /\ UNCHANGED budget
       \/ /\ Faulty("Create")
          /\ worker' = SetNotReady(worker, "CreateFailed")
          /\ UNCHANGED users
       \/ /\ Faulty("CreateResponse")
          /\ \E id \in Ids : CreateAt(id)
          /\ worker' = SetNotReady(worker, "CreateFailed")
    /\ UNCHANGED <<crLog, pending, deps, added>>

PatchDisplayName ==
    /\ worker.pc = "patch"
    /\ \/ /\ worker.id \in Live
          /\ users' = [users EXCEPT ![worker.id].display = worker.spec.display]
          /\ worker' = [worker EXCEPT !.pc = "keys"]
          /\ UNCHANGED budget
       \/ /\ worker.id \notin Live
          /\ worker' = SetNotReady(worker, "PatchFailed")
          /\ UNCHANGED <<users, budget>>
       \/ /\ Faulty("Patch")
          /\ worker' = SetNotReady(worker, "PatchFailed")
          /\ UNCHANGED users
    /\ UNCHANGED <<crLog, pending, deps, added>>

\* reconcileKeys, first loop: the kids it associates are those of the spec
\* that the status does not claim.
ToAssociate(w) == Desired(w.spec) \ w.cur.managed

\* ManagedKeyIds is appended to in place, so that a later failure in the same
\* pass still reports the kids associated before it.
Claim(w, kid) == [w EXCEPT !.cur.managed = @ \cup {kid}]

\* mutant: the kid is claimed although the call failed
AssociateFailedClaims(w, kid) ==
    SetNotReady(Claim(w, kid), "AssociateKeyFailed")

\* mutant: the kids associated before the failure are not reported
AssociateFailedForgets(w, kid) ==
    SetNotReady([w EXCEPT !.cur.managed = w.base.managed], "AssociateKeyFailed")

AssociateFailed(w, kid) == SetNotReady(w, "AssociateKeyFailed")

AssociateRefused(id, kid) ==
    \/ id \notin Live
    \/ KidsUnique /\ users[id].keys[kid] # None

\* Keyline stores the key under the kid.
AssociateAt(id, kid, pem) ==
    users' = [users EXCEPT ![id].keys[kid] = pem]

Associate(kid) ==
    /\ worker.pc = "keys"
    /\ kid \in ToAssociate(worker)
    /\ \/ /\ ~AssociateRefused(worker.id, kid)
          /\ AssociateAt(worker.id, kid, worker.spec.keys[kid])
          /\ added' = added \cup {<<worker.id, kid>>}
          /\ worker' = Claim(worker, kid)
          /\ UNCHANGED budget
       \/ /\ AssociateRefused(worker.id, kid)
          /\ worker' = AssociateFailed(worker, kid)
          /\ UNCHANGED <<users, added, budget>>
       \/ /\ Faulty("Associate")
          /\ worker' = AssociateFailed(worker, kid)
          /\ UNCHANGED <<users, added>>
       \/ /\ Faulty("AssociateResponse")
          /\ ~AssociateRefused(worker.id, kid)
          /\ AssociateAt(worker.id, kid, worker.spec.keys[kid])
          /\ added' = added \cup {<<worker.id, kid>>}
          /\ worker' = AssociateFailed(worker, kid)
    /\ UNCHANGED <<crLog, pending, deps>>

\* reconcileKeys, second loop: the claimed kids that left the spec.  A 404,
\* for the key or for the user, counts as removed.
ToRemoveUnlisted(w) == (Kids \ Desired(w.spec)) \ w.gone  \* mutant: all of them
ToRemoveNothing(w) == {}  \* mutant

ToRemove(w) == (w.cur.managed \ Desired(w.spec)) \ w.gone

RemoveAt(id, kid) ==
    users' = IF id \in Live THEN [users EXCEPT ![id].keys[kid] = None]
                            ELSE users

Remove(kid) ==
    /\ worker.pc = "keys"
    /\ ToAssociate(worker) = {}
    /\ kid \in ToRemove(worker)
    /\ \/ /\ RemoveAt(worker.id, kid)
          /\ worker' = [worker EXCEPT !.gone = @ \cup {kid}]
          /\ UNCHANGED budget
       \/ /\ Faulty("Remove")
          /\ worker' = SetNotReady(worker, "RemoveKeyFailed")
          /\ UNCHANGED users
       \/ /\ Faulty("RemoveResponse")
          /\ RemoveAt(worker.id, kid)
          /\ worker' = SetNotReady(worker, "RemoveKeyFailed")
    /\ UNCHANGED <<crLog, pending, deps, added>>

\* Both loops are done: the claimed kids that are kept are those of the spec.
Kept(w) == w.cur.managed \cap Desired(w.spec)

FinishKeys ==
    /\ worker.pc = "keys"
    /\ ToAssociate(worker) = {}
    /\ ToRemove(worker) = {}
    /\ LET cur == [worker.cur EXCEPT !.managed = Kept(worker)]
       IN worker' = [worker EXCEPT !.pc = "status",
                                   !.cur = setReadyCondition(cur, "Synced")]
    /\ UNCHANGED <<crLog, pending, users, deps, budget, added>>

\* The merge patch of the status, addressed by name: it reaches whatever
\* object has that name now.  A patch that changes nothing makes no version.
Patched == MergeFrom(worker.base, worker.cur, Stored.status)

StatusPatch ==
    /\ worker.pc = "status"
    /\ \/ /\ Stored.present
          /\ IF Patched = Stored.status
             THEN UNCHANGED crLog
             ELSE Publish([Stored EXCEPT !.status = Patched])
          /\ UNCHANGED budget
       \/ /\ ~Stored.present
          /\ UNCHANGED <<crLog, budget>>
       \/ /\ Faulty("StatusPatch")
          /\ UNCHANGED crLog
    /\ Return
    /\ UNCHANGED <<users, deps, added>>

-----------------------------------------------------------------------------
(* The rest of the environment *)

\* The operator dies between two calls and is started again: the local state
\* is lost, and the new informer starts from what the API server has.
Crash ==
    /\ Spend("crash")
    /\ worker' = Idle
    /\ crLog' = <<Stored>>
    /\ pending' = Stored.present
    /\ UNCHANGED <<users, deps, added>>

\* The virtual server, the instance or its Secret appear, disappear, become
\* ready or stop being ready.
DepsChange ==
    /\ Spend("deps")
    /\ \E d \in Deps : d # deps /\ deps' = d
    /\ UNCHANGED <<crLog, pending, worker, users, added>>

\* Someone else deletes the user in Keyline.
DeleteUser(id) ==
    /\ OthersDelete
    /\ Spend("outOfBand")
    /\ id \in Live
    /\ users' = [users EXCEPT ![id] = [Unused EXCEPT !.state = "deleted"]]
    /\ UNCHANGED <<crLog, pending, worker, deps, added>>

\* Someone else associates a key with the user in Keyline.
AssociateOutOfBand(id, kid, pem) ==
    /\ Spend("outOfBand")
    /\ id \in Live
    /\ users[id].keys[kid] = None
    /\ users' = [users EXCEPT ![id].keys[kid] = pem]
    /\ UNCHANGED <<crLog, pending, worker, deps, added>>

-----------------------------------------------------------------------------
(* Specification *)

Init ==
    /\ \E s \in Specs : crLog = <<Present(s)>>
    /\ pending = TRUE
    /\ worker = Idle
    /\ users = [id \in Ids |-> Unused]
    /\ deps = "ok"
    /\ budget = Budget
    /\ added = {}

Reconcile ==
    \/ Begin \/ Get \/ List \/ CreateServiceUser \/ PatchDisplayName
    \/ \E kid \in Kids : Associate(kid) \/ Remove(kid)
    \/ FinishKeys \/ StatusPatch

Environment ==
    \/ \E s \in Specs : ApplySpec(s)
    \/ DeleteObject
    \/ Crash
    \/ DepsChange
    \/ \E id \in Ids : DeleteUser(id)
    \/ \E id \in Ids, kid \in OthersKids, pem \in Pems : AssociateOutOfBand(id, kid, pem)

Next == Reconcile \/ Deliver \/ Environment

\* The work queue runs a request that is due, a running Reconcile call makes
\* its next call, and the watch delivers: nothing is promised of the rest.
Fairness == WF_vars(Reconcile) /\ WF_vars(Deliver)

Spec == Init /\ [][Next]_vars /\ Fairness

-----------------------------------------------------------------------------
(* Properties *)

StatusType == [userId  : Ids \cup {None},
               managed : SUBSET Kids,
               cond    : [ready : BOOLEAN, reason : Reasons]]
VersionType == [present : BOOLEAN, spec : SpecType, status : StatusType]
WorkerType == [pc   : {"idle", "get", "list", "create", "patch", "keys", "status"},
               spec : SpecType,
               base : StatusType,
               cur  : StatusType,
               id   : Ids \cup {None},
               gone : SUBSET Kids]
UserType == [state   : {"unused", "live", "deleted"},
             name    : Usernames \cup {None},
             display : DisplayNames \cup {None},
             keys    : [Kids -> Pems \cup {None}]]

\* The values of the variables.  The log holds at least the object's current
\* version, and no more undelivered events than MaxLag.
TypeOK ==
    /\ crLog \in Seq(VersionType) /\ Len(crLog) \in 1 .. MaxLag + 1
    /\ pending \in BOOLEAN
    /\ worker \in WorkerType
    /\ users \in [Ids -> UserType]
    /\ deps \in {"ok"} \cup NotOk
    /\ budget \in [BudgetKinds -> Nat]
    /\ added \subseteq Ids \X Kids

AddedKids == {pair[2] : pair \in added}

\* status.managedKeyIds ("kids the operator associated with this service
\* user") only ever lists kids that the operator really had associated: in
\* the API server, in every copy the informer may still hand out, and in both
\* copies of the running Reconcile call, whatever was lost, stale or crashed.
ClaimsOnlyOwnKeys ==
    /\ \A i \in DOMAIN crLog : crLog[i].status.managed \subseteq AddedKids
    /\ worker.base.managed \subseteq AddedKids
    /\ worker.cur.managed \subseteq AddedKids

KeyRemoved(id, kid) ==
    /\ users[id].keys[kid] # None
    /\ users'[id].state = "live"
    /\ users'[id].keys[kid] = None

\* reconcileKeys "leaves any out-of-band keys in Keyline untouched": no step
\* takes a key away from a user whose kid the operator never associated.
RemovesOnlyAddedKids ==
    [][\A id \in Ids, kid \in Kids : KeyRemoved(id, kid) => kid \in AddedKids]_vars

\* The same for each user: a key is taken away only from a user for which the
\* operator itself had associated that kid.
LeavesOutOfBandKeys ==
    [][\A id \in Ids, kid \in Kids :
        KeyRemoved(id, kid) => <<id, kid>> \in added]_vars

\* ensureServiceUser finds the user it once created, even when the answer to
\* the creation or the status that recorded it was lost: Keyline never has
\* two users of one name.
NoDuplicateUsers ==
    \A i, j \in Live : users[i].name = users[j].name => i = j

\* The service user is a NamedResource.
Account == INSTANCE NamedResource WITH
    Names <- Usernames,
    objects <- [id \in Ids |-> IF id \in Live THEN users[id].name
                               ELSE IF users[id].state = "deleted" THEN "gone"
                               ELSE "unused"],
    bound <- Stored.status.userId,
    wanted <- Stored.present /\ deps = "ok"

\* status.userId never moves from a user that Keyline still has to another one,
\* and in the end is that of a user it has.  (A pass that fails after it saw a
\* 404 for an outdated id may clear it: the next pass finds the user by name.)
ImplementsNamedResource == Account!Spec

Quiescent == worker.pc = "idle" /\ Len(crLog) = 1 /\ Stored.present

\* "removes kids that disappeared from spec": between two passes, a key that
\* the operator associated and Keyline still has is claimed in the status, so
\* that it can still be removed - after a pass that failed in the middle too.
NoOrphanKeys ==
    Quiescent =>
        \A id \in Live, kid \in Kids :
            (<<id, kid>> \in added /\ users[id].keys[kid] # None)
                => kid \in Stored.status.managed

\* "associates kids listed here": between two passes, a kid that the status
\* claims, and that reconcileKeys will therefore skip, is a key of the user.
ClaimedKeysExist ==
    (Quiescent /\ Stored.status.userId \in Live) =>
        \A kid \in Stored.status.managed :
            users[Stored.status.userId].keys[kid] # None

Settled ==
    Stored.present =>
        IF deps = "ok"
        THEN /\ IsReady(Stored.status)
             /\ Stored.status.managed = Desired(Stored.spec)
             /\ Stored.status.userId \in Live
             /\ Stored.spec.display \in
                    {None, users[Stored.status.userId].display}
        ELSE Stored.status.cond = [ready |-> FALSE, reason |-> deps]

\* However the calls failed before, and whatever others did in Keyline, once
\* the failures and edits stop the status ends up, for good, describing the
\* spec and a user that exists, or naming what is missing.
EventuallySettled == <>[]Settled

KeysInSync ==
    (Stored.present /\ deps = "ok") =>
        /\ Stored.status.userId \in Live
        /\ \A kid \in Kids :
            LET key == users[Stored.status.userId].keys[kid] IN
            IF kid \in Desired(Stored.spec) THEN key # None
            ELSE key # None => <<Stored.status.userId, kid>> \notin added

\* What the status only claims is finally true of Keyline: the user has the
\* listed kids, and of the unlisted ones only those others associated.
EventuallyKeysInSync == <>[]KeysInSync

=============================================================================
