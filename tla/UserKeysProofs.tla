---------------------------- MODULE UserKeysProofs ----------------------------
(***************************************************************************)
(* Proofs about the keys of the service user that UserController manages:  *)
(* what status.managedKeyIds claims and what Keyline has.  What the two    *)
(* promise each other holds only while certain mishaps do not occur; they  *)
(* are the named hypotheses of the theorems, and runs show what becomes of *)
(* the promise when one of them does occur.                                *)
(***************************************************************************)
EXTENDS UserAccountProofs

\* The cache is up to date when a pass begins.
NoLag == MaxLag = 0

\* Nobody deletes the KeylineUser, or its user in Keyline.
ObjectKept == Budget["delete"] = 0
UsersKept == ~OthersDelete

\* A pass that changed something in Keyline gets to store what it knows of it.
StatusStored == "StatusPatch" \notin Failable /\ Budget["crash"] = 0

\* When a key was associated, or asked to be removed, the operator learns of it.
AssociateAnswered == "AssociateResponse" \notin Failable
RemovalsSucceed == {"Remove", "RemoveResponse"} \cap Failable = {}

\* The kids that others associate are not those of a spec.
KidsApart == \A s \in Specs : Desired(s) \cap OthersKids = {}

-----------------------------------------------------------------------------
(* The inductive invariants *)

\* What the operator knows of the user: between passes what is stored.
Known == IF worker.pc = "idle" THEN Stored.status ELSE worker.cur

\* Without lag or deletion there is one version of the object, and a running
\* pass started from its status.  A kid is removed after all were associated.
LogSync ==
    /\ Len(crLog) = 1 /\ Stored.present /\ Stored.spec \in Specs
    /\ budget["delete"] = 0

PassSync ==
    /\ worker.pc # "idle" => worker.base = Stored.status /\ worker.spec \in Specs
    /\ worker.pc = "get" => worker.cur.userId # None
    /\ worker.pc \in {"list", "create"} => worker.cur.userId = None
    /\ worker.pc \in {"patch", "keys"} => worker.id = worker.cur.userId /\ worker.id \in Ids
    /\ worker.gone # {} => /\ worker.pc \in {"keys", "status"}
                           /\ worker.gone \cap Desired(worker.spec) = {}
                           /\ worker.pc = "keys" => ToAssociate(worker) = {}

SyncInv == LogSync /\ PassSync

\* A status names a user that lives, and claims only kids that were associated
\* with that very user.
Own(st, live, pairs) ==
    /\ st.userId \in {None} \cup live
    /\ \A kid \in st.managed : <<st.userId, kid>> \in pairs

OwnInv == Own(Stored.status, Live, added) /\ Own(worker.cur, Live, added)

\* Every user with which the operator associated a key is the one it knows of,
\* and what is left of these keys is claimed.
OrphanInv ==
    /\ \A id \in Ids, kid \in Kids : <<id, kid>> \in added =>
          users[id].state # "unused" /\ kid \notin OthersKids
    /\ \A id \in Live, kid \in Kids : <<id, kid>> \in added =>
          /\ id = Known.userId
          /\ users[id].keys[kid] # None => kid \in Known.managed \ worker.gone

\* Every kid that is claimed and not removed by the running pass is a key.
ExistInv ==
    /\ \A kid \in Known.managed \ worker.gone : users[Known.userId].keys[kid] # None
    /\ worker.pc = "status" => worker.cur.managed \cap worker.gone = {}

-----------------------------------------------------------------------------
(* What the steps of a pass leave as it is *)

\* The pass w has what the running one has, but for where it stands.
Keeps(w) ==
    /\ w.spec = worker.spec /\ w.base = worker.base /\ w.gone = worker.gone
    /\ w.id = worker.id
    /\ w.cur.userId = worker.cur.userId /\ w.cur.managed = worker.cur.managed

\* The pass knows its user: its keys are next, or its display name.
Finds(id) ==
    /\ worker'.pc \in {"patch", "keys"}
    /\ worker'.spec = worker.spec /\ worker'.base = worker.base
    /\ worker'.gone = worker.gone
    /\ worker'.id = id /\ worker'.cur.userId = id
    /\ worker'.cur.managed = worker.cur.managed

\* The pass ends with what it knew.
Fails == worker'.pc = "status" /\ Keeps(worker')

LEMMA NotReadyFails ==
    ASSUME IInv, NEW reason, worker' = SetNotReady(worker, reason)
    PROVE  Fails
<1> DEFINE c == setNotReadyCondition(worker.cur, reason)
<1>1. worker \in WorkerType
  BY DEF IInv, TypeOK
<1>2. c.userId = worker.cur.userId /\ c.managed = worker.cur.managed
  BY <1>1 DEF setNotReadyCondition, WorkerType, StatusType
<1>3. worker' = [worker EXCEPT !.pc = "status", !.cur = c]
  BY <1>1 DEF SetNotReady, WorkerType
<1> HIDE DEF c
<1> QED
  BY <1>1, <1>2, <1>3 DEF Fails, Keeps, WorkerType

LEMMA WithUserFinds ==
    ASSUME IInv, NEW id, worker' = WithUser(worker, id)
    PROVE  Finds(id)
<1> DEFINE c == [worker.cur EXCEPT !.userId = id]
<1>1. worker \in WorkerType
  BY DEF IInv, TypeOK
<1>2. c.userId = id /\ c.managed = worker.cur.managed
  BY <1>1 DEF WorkerType, StatusType
<1>3. worker' = [worker EXCEPT !.id = id, !.cur = c,
                    !.pc = IF worker.spec.display # None THEN "patch" ELSE "keys"]
  BY <1>1 DEF WithUser, WorkerType, StatusType
<1> HIDE DEF c
<1> QED
  BY <1>1, <1>2, <1>3 DEF Finds, WorkerType

-----------------------------------------------------------------------------
(* What the steps do to Keyline's users and their keys *)

StatesSame == \A id \in Ids : users'[id].state = users[id].state

KeysSame ==
    /\ UNCHANGED added /\ StatesSame
    /\ \A id \in Ids, kid \in Kids : users'[id].keys[kid] = users[id].keys[kid]

Creates(id) ==
    /\ UNCHANGED added
    /\ users[id].state = "unused" /\ users'[id].state = "live"
    /\ \A i \in Ids \ {id} : users'[i].state = users[i].state
    /\ \A i \in Ids, kid \in Kids : users'[i].keys[kid] = users[i].keys[kid]

\* The key under kid of the user of the pass.
ThatKey(id, kid, k) == id = worker.id /\ k = kid

Adds(kid) ==
    /\ worker.id \in Live /\ StatesSame
    /\ added' = added \cup {<<worker.id, kid>>}
    /\ users'[worker.id].keys[kid] # None
    /\ \A id \in Ids, k \in Kids :
          ~ThatKey(id, kid, k) => users'[id].keys[k] = users[id].keys[k]

Removes(kid) ==
    /\ UNCHANGED added /\ StatesSame
    /\ \A id \in Ids, k \in Kids :
          users'[id].keys[k] = IF ThatKey(id, kid, k) /\ id \in Live THEN None
                               ELSE users[id].keys[k]

LEMMA SameUsersKeys == ASSUME UNCHANGED <<users, added>> PROVE KeysSame
  BY DEF KeysSame, StatesSame

SetsKey(id, kid, key) == users' = [users EXCEPT ![id].keys[kid] = key]

LEMMA KeySet ==
    ASSUME IInv, NEW id \in Ids, NEW kid \in Kids, NEW key, SetsKey(id, kid, key)
    PROVE  /\ StatesSame
           /\ \A i \in Ids, k \in Kids :
                users'[i].keys[k] = IF i = id /\ k = kid THEN key ELSE users[i].keys[k]
<1>1. users \in [Ids -> UserType]
  BY DEF IInv, TypeOK
<1> QED
  BY <1>1 DEF StatesSame, UserType, SetsKey

LEMMA CreateAtCreates ==
    ASSUME IInv, NEW id \in Ids, CreateAt(id), UNCHANGED added
    PROVE  Creates(id)
<1>1. users \in [Ids -> UserType]
  BY DEF IInv, TypeOK
<1>2. \A i \in Ids : users'[i].keys = users[i].keys
  BY <1>1 DEF CreateAt, UserType
<1> QED
  BY <1>2, Created DEF Creates

\* Who lives after the step.
LEMMA LiveAfter ==
    /\ StatesSame => Live' = Live
    /\ \A id \in Ids : Creates(id) => Live' = Live \cup {id} /\ id \notin Live
  BY DEF StatesSame, Creates, Live

\* What may no longer happen will not happen.
LEMMA NeverAgain ==
    ASSUME IInv, [Next]_vars, NEW kind \in BudgetKinds, budget[kind] = 0
    PROVE  budget'[kind] = 0
<1>1. budget \in [BudgetKinds -> Nat]
  BY DEF IInv, TypeOK
<1>2. UNCHANGED budget \/ \E k \in BudgetKinds : Spend(k)
  BY DEF Next, Reconcile, Environment, vars, Begin, Get, List, CreateServiceUser,
         PatchDisplayName, Associate, Remove, FinishKeys, StatusPatch, Deliver,
         ApplySpec, DeleteObject, Crash, DepsChange, DeleteUser,
         AssociateOutOfBand, Faulty, BudgetKinds
<1> QED
  BY <1>1, <1>2 DEF Spend

-----------------------------------------------------------------------------
(* What each call of a pass does *)

Forgets ==
    /\ worker'.pc = "list" /\ worker'.spec = worker.spec
    /\ worker'.base = worker.base /\ worker'.gone = worker.gone
    /\ worker'.cur.userId = None /\ worker'.cur.managed = worker.cur.managed

LEMMA GetDoes ==
    ASSUME IInv, Get
    PROVE  /\ KeysSame /\ UNCHANGED crLog /\ worker.pc = "get"
           /\ \/ Finds(worker.cur.userId) /\ worker.cur.userId \in Live
              \/ Forgets /\ worker.cur.userId \notin Live
              \/ Fails
<1>0. worker \in WorkerType /\ UNCHANGED <<crLog, users, added>> /\ worker.pc = "get"
  BY DEF Get, IInv, TypeOK
<1>1. ASSUME worker' = ForgetUser(worker) PROVE Forgets
  <2> DEFINE c == [worker.cur EXCEPT !.userId = None]
  <2>1. c.userId = None /\ c.managed = worker.cur.managed
    BY <1>0 DEF WorkerType, StatusType
  <2>2. worker' = [worker EXCEPT !.pc = "list", !.cur = c]
    BY <1>0, <1>1 DEF ForgetUser, WorkerType, StatusType
  <2> HIDE DEF c
  <2> QED
    BY <1>0, <2>1, <2>2 DEF Forgets, WorkerType
<1> QED
  BY <1>0, <1>1, SameUsersKeys, WithUserFinds, NotReadyFails DEF Get

LEMMA ListDoes ==
    ASSUME IInv, List
    PROVE  /\ KeysSame /\ UNCHANGED crLog /\ worker.pc = "list"
           /\ \/ \E id \in Live : Finds(id)
              \/ worker'.pc = "create" /\ Keeps(worker')
              \/ Fails
<1>0. worker \in WorkerType /\ UNCHANGED <<crLog, users, added>> /\ worker.pc = "list"
  BY DEF List, IInv, TypeOK
<1>1. ASSUME worker' = [worker EXCEPT !.pc = "create"]
      PROVE  worker'.pc = "create" /\ Keeps(worker')
  BY <1>0, <1>1 DEF Keeps, WorkerType
<1>2. ASSUME NEW page \in Pages, NEW id \in Matches(page, worker.spec),
             worker' = WithUser(worker, id)
      PROVE  id \in Live /\ Finds(id)
  BY <1>2, WithUserFinds DEF Pages, Matches
<1> QED
  BY <1>0, <1>1, <1>2, SameUsersKeys, NotReadyFails DEF List

LEMMA CreateDoes ==
    ASSUME IInv, CreateServiceUser
    PROVE  /\ UNCHANGED crLog /\ worker.pc = "create"
           /\ \/ \E id \in Ids : Creates(id) /\ (Finds(id) \/ Fails)
              \/ KeysSame /\ Fails
<1>0. UNCHANGED <<crLog, added>> /\ worker.pc = "create"
  BY DEF CreateServiceUser
<1> QED
  BY <1>0, CreateAtCreates, WithUserFinds, NotReadyFails, SameUsersKeys
  DEF CreateServiceUser

LEMMA PatchDoes ==
    ASSUME IInv, PatchDisplayName
    PROVE  /\ KeysSame /\ UNCHANGED crLog /\ worker.pc = "patch"
           /\ (worker'.pc = "keys" /\ Keeps(worker')) \/ Fails
<1>0. /\ worker \in WorkerType /\ users \in [Ids -> UserType]
      /\ UNCHANGED <<crLog, added>> /\ worker.pc = "patch"
  BY DEF PatchDisplayName, IInv, TypeOK
<1>1. KeysSame
  <2>1. CASE users' = [users EXCEPT ![worker.id].display = worker.spec.display]
    BY <1>0, <2>1 DEF KeysSame, StatesSame, UserType
  <2> QED
    BY <1>0, <2>1, SameUsersKeys DEF PatchDisplayName
<1>2. ASSUME worker' = [worker EXCEPT !.pc = "keys"]
      PROVE  worker'.pc = "keys" /\ Keeps(worker')
  BY <1>0, <1>2 DEF Keeps, WorkerType
<1> QED
  BY <1>0, <1>1, <1>2, NotReadyFails DEF PatchDisplayName

Claims(kid) ==
    /\ worker'.pc = worker.pc /\ worker'.spec = worker.spec
    /\ worker'.base = worker.base /\ worker'.gone = worker.gone
    /\ worker'.id = worker.id /\ worker'.cur.userId = worker.cur.userId
    /\ worker'.cur.managed = worker.cur.managed \cup {kid}

LEMMA AssociateDoes ==
    ASSUME IInv, NEW kid \in Kids, Associate(kid)
    PROVE  /\ UNCHANGED crLog /\ worker.pc = "keys" /\ kid \in ToAssociate(worker)
           /\ \/ Adds(kid) /\ Claims(kid)
              \/ KeysSame /\ Fails
              \/ "AssociateResponse" \in Failable /\ Adds(kid) /\ Fails
<1>0. /\ worker \in WorkerType /\ UNCHANGED crLog /\ worker.pc = "keys"
      /\ kid \in ToAssociate(worker)
  BY DEF Associate, IInv, TypeOK
<1>1. ASSUME ~AssociateRefused(worker.id, kid),
             AssociateAt(worker.id, kid, worker.spec.keys[kid]),
             added' = added \cup {<<worker.id, kid>>}
      PROVE  Adds(kid)
  <2>1. worker.id \in Live /\ worker.id \in Ids /\ worker.spec.keys[kid] # None
    BY <1>0, <1>1 DEF AssociateRefused, Live, ToAssociate, Desired
  <2>2. SetsKey(worker.id, kid, worker.spec.keys[kid])
    BY <1>1 DEF AssociateAt, SetsKey
  <2>3. /\ StatesSame
        /\ \A i \in Ids, k \in Kids :
              users'[i].keys[k] = IF i = worker.id /\ k = kid THEN worker.spec.keys[kid]
                                  ELSE users[i].keys[k]
    BY <2>1, <2>2, KeySet
  <2>4. users'[worker.id].keys[kid] # None
    BY <2>1, <2>3
  <2>5. \A i \in Ids, k \in Kids :
          ~ThatKey(i, kid, k) => users'[i].keys[k] = users[i].keys[k]
    BY <2>3 DEF ThatKey
  <2> QED
    BY <1>1, <2>1, <2>3, <2>4, <2>5 DEF Adds
<1>2. ASSUME worker' = Claim(worker, kid) PROVE Claims(kid)
  <2> DEFINE c == [worker.cur EXCEPT !.managed = worker.cur.managed \cup {kid}]
  <2>1. c.userId = worker.cur.userId /\ c.managed = worker.cur.managed \cup {kid}
    BY <1>0 DEF WorkerType, StatusType
  <2>2. worker' = [worker EXCEPT !.cur = c]
    BY <1>0, <1>2 DEF Claim, WorkerType, StatusType
  <2> HIDE DEF c
  <2> QED
    BY <1>0, <2>1, <2>2 DEF Claims, WorkerType
<1> QED
  BY <1>0, <1>1, <1>2, NotReadyFails, SameUsersKeys DEF Associate, AssociateFailed, Faulty

LEMMA RemoveAtRemoves ==
    ASSUME IInv, NEW kid \in Kids, RemoveAt(worker.id, kid), UNCHANGED added
    PROVE  Removes(kid)
<1>1. CASE worker.id \in Live
  <2>1. worker.id \in Ids
    BY <1>1 DEF Live
  <2>2. SetsKey(worker.id, kid, None)
    BY <1>1 DEF RemoveAt, SetsKey
  <2>3. /\ StatesSame
        /\ \A i \in Ids, k \in Kids :
              users'[i].keys[k] = IF i = worker.id /\ k = kid THEN None
                                  ELSE users[i].keys[k]
    BY <2>1, <2>2, KeySet
  <2>4. ASSUME NEW i \in Ids, NEW k \in Kids
        PROVE  users'[i].keys[k] = IF ThatKey(i, kid, k) /\ i \in Live THEN None
                                   ELSE users[i].keys[k]
    BY <1>1, <2>3 DEF ThatKey
  <2> QED
    BY <2>3, <2>4 DEF Removes
<1>2. CASE worker.id \notin Live
  BY <1>2 DEF RemoveAt, Removes, ThatKey, StatesSame
<1> QED
  BY <1>1, <1>2

RemovedOne(kid) ==
    /\ worker'.pc = worker.pc /\ worker'.spec = worker.spec
    /\ worker'.base = worker.base /\ worker'.gone = worker.gone \cup {kid}
    /\ worker'.id = worker.id /\ worker'.cur = worker.cur

LEMMA RemoveDoes ==
    ASSUME IInv, NEW kid \in Kids, Remove(kid)
    PROVE  /\ UNCHANGED crLog /\ worker.pc = "keys"
           /\ ToAssociate(worker) = {} /\ kid \in ToRemove(worker)
           /\ \/ Removes(kid) /\ RemovedOne(kid)
              \/ "Remove" \in Failable /\ KeysSame /\ Fails
              \/ "RemoveResponse" \in Failable /\ Removes(kid) /\ Fails
<1>0. /\ worker \in WorkerType /\ UNCHANGED <<crLog, added>> /\ worker.pc = "keys"
      /\ ToAssociate(worker) = {} /\ kid \in ToRemove(worker)
  BY DEF Remove, IInv, TypeOK
<1>1. ASSUME worker' = [worker EXCEPT !.gone = @ \cup {kid}] PROVE RemovedOne(kid)
  BY <1>0, <1>1 DEF RemovedOne, WorkerType
<1> QED
  BY <1>0, <1>1, RemoveAtRemoves, NotReadyFails, SameUsersKeys DEF Remove, Faulty

Finishes ==
    /\ worker'.pc = "status" /\ worker'.spec = worker.spec
    /\ worker'.base = worker.base /\ worker'.gone = worker.gone
    /\ worker'.id = worker.id /\ worker'.cur.userId = worker.cur.userId
    /\ worker'.cur.managed = Kept(worker)

LEMMA FinishDoes ==
    ASSUME IInv, FinishKeys
    PROVE  /\ KeysSame /\ UNCHANGED crLog /\ worker.pc = "keys" /\ Finishes
           /\ ToAssociate(worker) = {} /\ ToRemove(worker) = {}
<1> DEFINE cur == [worker.cur EXCEPT !.managed = Kept(worker)]
           ready == setReadyCondition(cur, "Synced")
<1>0. /\ worker \in WorkerType /\ UNCHANGED <<crLog, users, added>>
      /\ worker.pc = "keys" /\ ToAssociate(worker) = {} /\ ToRemove(worker) = {}
  BY DEF FinishKeys, IInv, TypeOK
<1>1. cur.managed = Kept(worker) /\ cur.userId = worker.cur.userId
  BY <1>0 DEF WorkerType, StatusType
<1>2. ready.managed = cur.managed /\ ready.userId = cur.userId
  BY <1>0 DEF setReadyCondition, WorkerType, StatusType
<1>3. worker' = [worker EXCEPT !.pc = "status", !.cur = ready]
  BY DEF FinishKeys
<1> HIDE DEF cur, ready
<1>4. Finishes
  BY <1>0, <1>1, <1>2, <1>3 DEF Finishes, WorkerType
<1> QED
  BY <1>0, <1>4, SameUsersKeys

\* The worker is idle again: it knows nothing but what is stored.
LEMMA IdleKnows ==
    ASSUME worker' = Idle
    PROVE  /\ worker'.pc = "idle" /\ worker'.gone = {}
           /\ worker'.cur.userId = None /\ worker'.cur.managed = {}
  BY DEF Idle, EmptyStatus

\* The merge patch from the stored status stores the pass's own.
LEMMA PatchedIsOwn ==
    ASSUME IInv, SyncInv, worker.pc = "status"
    PROVE  /\ Patched \in StatusType
           /\ Patched.userId = worker.cur.userId
           /\ Patched.managed = worker.cur.managed
<1>1. worker.cur \in StatusType /\ Stored.status \in StatusType
      /\ worker.base = Stored.status
  BY EndsOfLog DEF IInv, TypeOK, LogType, WorkerType, VersionType, SyncInv, LogSync, PassSync
<1>2. Patched \in StatusType
  BY <1>1, MergeFromStatus DEF Patched
<1> QED
  BY <1>1, <1>2 DEF Patched, MergeFrom, StatusType

\* The one version is replaced.
LEMMA PublishOne ==
    ASSUME NoLag, IInv, SyncInv, NEW v \in VersionType, Publish(v)
    PROVE  Len(crLog') = 1 /\ Stored' = v
<1>1. LogType /\ Len(crLog) = 1
  BY DEF IInv, TypeOK, LogType, SyncInv, LogSync, PassSync
<1>2. LogType' /\ Stored' = v
  BY <1>1, PublishLog
<1> QED
  BY <1>2, BoundsAssumption DEF NoLag, LogType

LEMMA StatusPatchDoes ==
    ASSUME NoLag, IInv, SyncInv, StatusPatch
    PROVE  /\ KeysSame /\ worker.pc = "status" /\ worker' = Idle
           /\ Len(crLog') = 1 /\ Stored'.present /\ Stored'.spec = Stored.spec
           /\ \/ /\ Stored'.status.userId = worker.cur.userId
                 /\ Stored'.status.managed = worker.cur.managed
              \/ "StatusPatch" \in Failable /\ Stored' = Stored
<1>0. /\ worker.pc = "status" /\ worker' = Idle /\ KeysSame
      /\ Len(crLog) = 1 /\ Stored.present /\ Stored \in VersionType
  BY SameUsersKeys, EndsOfLog
  DEF StatusPatch, Return, SyncInv, LogSync, PassSync, IInv, TypeOK, LogType
<1>1. CASE UNCHANGED crLog /\ Patched = Stored.status
  BY <1>0, <1>1, PatchedIsOwn DEF Stored
<1>2. CASE Publish([Stored EXCEPT !.status = Patched])
  <2> DEFINE v == [Stored EXCEPT !.status = Patched]
  <2>1. /\ v \in VersionType /\ v.status = Patched /\ v.spec = Stored.spec
        /\ v.present = Stored.present
    BY <1>0, PatchedIsOwn DEF VersionType
  <2> HIDE DEF v
  <2>2. Len(crLog') = 1 /\ Stored' = v
    BY <1>2, <2>1, PublishOne DEF v
  <2> QED
    BY <1>0, <2>1, <2>2, PatchedIsOwn
<1>3. CASE UNCHANGED crLog /\ "StatusPatch" \in Failable
  BY <1>0, <1>3 DEF Stored
<1> QED
  BY <1>0, <1>1, <1>2, <1>3 DEF StatusPatch, Faulty

Begins ==
    /\ worker.pc = "idle" /\ worker'.pc \in {"get", "list", "status"}
    /\ worker'.spec = Stored.spec /\ worker'.base = Stored.status
    /\ worker'.gone = {}
    /\ worker'.cur.userId = Stored.status.userId
    /\ worker'.cur.managed = Stored.status.managed
    /\ worker'.pc = "get" => worker'.cur.userId # None
    /\ worker'.pc = "list" => worker'.cur.userId = None

LEMMA BeginDoes ==
    ASSUME IInv, SyncInv, Begin
    PROVE  KeysSame /\ UNCHANGED crLog /\ Begins
<1> DEFINE w == [Idle EXCEPT !.spec = Cached.spec, !.base = Cached.status,
                             !.cur = Cached.status]
<1>0. /\ Cached = Stored /\ Cached \in VersionType /\ Cached.present
      /\ worker.pc = "idle" /\ KeysSame /\ UNCHANGED crLog
  BY EndsOfLog, SameUsersKeys DEF SyncInv, LogSync, PassSync, IInv, TypeOK, LogType, Stored, Begin
<1>1. /\ w \in WorkerType /\ w.spec = Stored.spec /\ w.base = Stored.status
      /\ w.cur = Stored.status /\ w.gone = {}
  BY <1>0, ConstantTypes DEF VersionType, WorkerType, Idle
<1>2. worker' = IF deps # "ok" THEN SetNotReady(w, deps)
                ELSE [w EXCEPT !.pc = FirstCall(Cached.status)]
  BY <1>0 DEF Begin
<1> HIDE DEF w
<1>3. CASE worker' = [w EXCEPT !.pc = FirstCall(Cached.status)]
  BY <1>0, <1>1, <1>3 DEF WorkerType, FirstCall, Begins
<1>4. CASE worker' = SetNotReady(w, deps)
  <2> DEFINE c == setNotReadyCondition(w.cur, deps)
  <2>1. c.userId = Stored.status.userId /\ c.managed = Stored.status.managed
    BY <1>1 DEF setNotReadyCondition, WorkerType, StatusType
  <2>2. worker' = [w EXCEPT !.pc = "status", !.cur = c]
    BY <1>1, <1>4 DEF SetNotReady, WorkerType
  <2> HIDE DEF c
  <2> QED
    BY <1>0, <1>1, <2>1, <2>2 DEF WorkerType, Begins
<1> QED
  BY <1>0, <1>2, <1>3, <1>4

-----------------------------------------------------------------------------
(* What others do *)

LEMMA ApplySpecDoes ==
    ASSUME NoLag, IInv, SyncInv, NEW s \in Specs, ApplySpec(s)
    PROVE  /\ KeysSame /\ UNCHANGED worker
           /\ Len(crLog') = 1 /\ Stored'.present /\ Stored'.spec \in Specs
           /\ Stored'.status = Stored.status
<1> DEFINE v == [Stored EXCEPT !.spec = s]
<1>1. Stored \in VersionType /\ Stored.present /\ s \in SpecType
  BY EndsOfLog, SpecsAssumption DEF IInv, TypeOK, LogType, SyncInv, LogSync
<1>2. /\ v \in VersionType /\ v.spec = s /\ v.status = Stored.status
      /\ v.present = Stored.present
  BY <1>1 DEF VersionType
<1>3. Publish(v) /\ UNCHANGED <<worker, users, added>>
  BY <1>1 DEF ApplySpec
<1> HIDE DEF v
<1>4. Len(crLog') = 1 /\ Stored' = v
  BY <1>2, <1>3, PublishOne
<1> QED
  BY <1>1, <1>2, <1>3, <1>4, SameUsersKeys

LEMMA CrashDoes ==
    ASSUME IInv, SyncInv, Crash
    PROVE  /\ KeysSame /\ worker' = Idle /\ budget["crash"] # 0
           /\ Len(crLog') = 1 /\ Stored' = Stored
<1>1. crLog' = <<Stored>> /\ worker' = Idle /\ UNCHANGED <<users, added>>
  BY DEF Crash
<1>2. budget["crash"] # 0
  BY DEF Crash, Spend
<1>3. Len(crLog') = 1 /\ Stored' = Stored
  BY <1>1 DEF Stored
<1> QED
  BY <1>1, <1>2, <1>3, SameUsersKeys

Deletes(id) ==
    /\ UNCHANGED added
    /\ Live' = Live \ {id} /\ users'[id].state = "deleted"
    /\ \A i \in Ids \ {id} : users'[i] = users[i]

AddsOther(id, kid) ==
    /\ UNCHANGED added /\ StatesSame
    /\ \A i \in Ids, k \in Kids :
          \/ users'[i].keys[k] = users[i].keys[k]
          \/ users'[i].keys[k] # None /\ i = id /\ k = kid

LEMMA OutOfBandAdds ==
    ASSUME IInv, NEW id \in Ids, NEW kid \in OthersKids, NEW pem \in Pems,
           AssociateOutOfBand(id, kid, pem)
    PROVE  AddsOther(id, kid)
<1>1. kid \in Kids /\ pem # None
  BY EnvironmentAssumption, NoneAssumption
<1>2. SetsKey(id, kid, pem) /\ UNCHANGED added
  BY DEF AssociateOutOfBand, SetsKey
<1> QED
  BY <1>1, <1>2, KeySet DEF AddsOther

\* The steps that are not of a pass and do not change the object.
LEMMA OthersDo ==
    ASSUME IInv,
           \/ DepsChange
           \/ \E id \in Ids : DeleteUser(id)
           \/ \E id \in Ids, kid \in OthersKids, pem \in Pems :
                  AssociateOutOfBand(id, kid, pem)
    PROVE  /\ UNCHANGED <<crLog, worker>>
           /\ \/ KeysSame
              \/ OthersDelete /\ \E id \in Ids : Deletes(id)
              \/ \E id \in Ids, kid \in OthersKids : AddsOther(id, kid)
<1>1. UNCHANGED <<crLog, worker>>
  BY DEF DepsChange, DeleteUser, AssociateOutOfBand
<1>2. CASE DepsChange
  BY <1>1, <1>2, SameUsersKeys DEF DepsChange
<1>3. ASSUME NEW id \in Ids, DeleteUser(id) PROVE OthersDelete /\ Deletes(id)
  BY <1>3, Deleted DEF DeleteUser, Deletes
<1> QED
  BY <1>1, <1>2, <1>3, OutOfBandAdds

-----------------------------------------------------------------------------
(* A pass starts from what is stored *)

\* A step that leaves the object alone.
LEMMA SyncKept ==
    ASSUME SyncInv, UNCHANGED crLog, budget'["delete"] = 0, PassSync'
    PROVE  SyncInv'
  BY DEF SyncInv, LogSync, Stored

LEMMA FailsSync ==
    ASSUME SyncInv, worker.pc # "idle", Fails, UNCHANGED crLog
    PROVE  PassSync'
  BY DEF SyncInv, PassSync, Fails, Keeps, Stored

LEMMA FindsSync ==
    ASSUME SyncInv, worker.pc \in {"get", "list", "create"}, NEW id \in Ids, Finds(id),
           UNCHANGED crLog
    PROVE  PassSync'
  BY DEF SyncInv, PassSync, Finds, Stored

LEMMA CallsSync ==
    ASSUME IInv, SyncInv,
           \/ Begin \/ Get \/ List \/ CreateServiceUser \/ PatchDisplayName
           \/ \E kid \in Kids : Associate(kid) \/ Remove(kid)
           \/ FinishKeys
    PROVE  PassSync' /\ UNCHANGED crLog
<1>1. CASE Begin
  BY <1>1, BeginDoes DEF Begins, SyncInv, LogSync, PassSync, Stored
<1>2. CASE Get
  <2>1. CASE Forgets
    BY <1>2, <2>1, GetDoes DEF Forgets, SyncInv, PassSync, Stored
  <2> QED
    BY <1>2, <2>1, GetDoes, FindsSync, FailsSync DEF Live
<1>3. CASE List
  <2>1. CASE worker'.pc = "create" /\ Keeps(worker')
    BY <1>3, <2>1, ListDoes DEF Keeps, SyncInv, PassSync, Stored
  <2> QED
    BY <1>3, <2>1, ListDoes, FindsSync, FailsSync DEF Live
<1>4. CASE CreateServiceUser
  BY <1>4, CreateDoes, FindsSync, FailsSync
<1>5. CASE PatchDisplayName
  <2>1. CASE worker'.pc = "keys" /\ Keeps(worker')
    BY <1>5, <2>1, PatchDoes DEF Keeps, SyncInv, PassSync, Stored
  <2> QED
    BY <1>5, <2>1, PatchDoes, FailsSync
<1>6. ASSUME NEW kid \in Kids, Associate(kid) PROVE PassSync' /\ UNCHANGED crLog
  <2>1. CASE Claims(kid)
    <3>1. worker.gone = {}
      BY <1>6, AssociateDoes DEF SyncInv, PassSync
    <3> QED
      BY <1>6, <2>1, <3>1, AssociateDoes DEF Claims, SyncInv, PassSync, Stored
  <2> QED
    BY <1>6, <2>1, AssociateDoes, FailsSync
<1>7. ASSUME NEW kid \in Kids, Remove(kid) PROVE PassSync' /\ UNCHANGED crLog
  <2>1. CASE RemovedOne(kid)
    <3>1. ToAssociate(worker') = ToAssociate(worker)
      BY <2>1 DEF RemovedOne, ToAssociate
    <3>2. ToAssociate(worker) = {} /\ kid \notin Desired(worker.spec)
      BY <1>7, RemoveDoes DEF ToRemove
    <3>3. worker.gone \cap Desired(worker.spec) = {}
      BY DEF SyncInv, PassSync
    <3> QED
      BY <1>7, <2>1, <3>1, <3>2, <3>3, RemoveDoes
      DEF RemovedOne, SyncInv, PassSync, Stored
  <2> QED
    BY <1>7, <2>1, RemoveDoes, FailsSync
<1>8. CASE FinishKeys
  BY <1>8, FinishDoes DEF Finishes, SyncInv, PassSync, Stored
<1> QED
  BY <1>1, <1>2, <1>3, <1>4, <1>5, <1>6, <1>7, <1>8

LEMMA NextSync == ASSUME NoLag PROVE IInv /\ SyncInv /\ [Next]_vars => SyncInv'
<1> SUFFICES ASSUME IInv, SyncInv, [Next]_vars PROVE SyncInv'
  OBVIOUS
<1>1. budget'["delete"] = 0
  BY NeverAgain DEF SyncInv, LogSync, BudgetKinds
<1>2. ASSUME UNCHANGED <<crLog, worker>> PROVE SyncInv'
  BY <1>1, <1>2 DEF SyncInv, LogSync, PassSync, Stored
<1>3. ASSUME StatusPatch PROVE SyncInv'
  BY <1>1, <1>3, StatusPatchDoes, IdleKnows DEF SyncInv, LogSync, PassSync
<1>4. ASSUME NEW s \in Specs, ApplySpec(s) PROVE SyncInv'
  BY <1>1, <1>4, ApplySpecDoes DEF SyncInv, LogSync, PassSync
<1>5. ASSUME Crash PROVE SyncInv'
  BY <1>1, <1>5, CrashDoes, IdleKnows DEF SyncInv, LogSync, PassSync
<1>6. ~Deliver /\ ~DeleteObject
  BY DEF SyncInv, LogSync, Deliver, DeleteObject, Spend, IInv, TypeOK
<1> QED
  BY <1>1, <1>2, <1>3, <1>4, <1>5, <1>6, CallsSync, SyncKept, OthersDo
  DEF Next, Reconcile, Environment, vars

-----------------------------------------------------------------------------
(* A status claims keys of its own user *)

Grows == added \subseteq added' /\ Live \subseteq Live'

LEMMA OwnGrows ==
    ASSUME NEW s, NEW t, Own(s, Live, added), Grows,
           t.userId = s.userId, t.managed \subseteq s.managed
    PROVE  Own(t, Live', added')
  BY DEF Own, Grows

\* A step that claims nothing new.
LEMMA OwnKept ==
    ASSUME OwnInv, Grows, Stored'.status = Stored.status,
           worker'.cur.userId = worker.cur.userId,
           worker'.cur.managed \subseteq worker.cur.managed
    PROVE  OwnInv'
<1>1. Own(Stored'.status, Live', added')
  BY OwnGrows DEF OwnInv
<1>2. Own(worker'.cur, Live', added')
  BY OwnGrows DEF OwnInv
<1> QED
  BY <1>1, <1>2 DEF OwnInv

\* No user, no claims.
LEMMA NoClaims ==
    ASSUME IInv, NEW st \in StatusType, Own(st, Live, added), st.userId = None
    PROVE  st.managed = {}
<1>1. added \subseteq Ids \X Kids /\ None \notin Ids
  BY NoneAssumption DEF IInv, TypeOK
<1>2. \A kid \in st.managed : <<None, kid>> \in added
  BY DEF Own
<1>3. \A kid \in st.managed : None \in Ids
  BY <1>1, <1>2
<1> QED
  BY <1>1, <1>3

LEMMA OwnFound ==
    ASSUME IInv, SyncInv, OwnInv, worker.pc \in {"list", "create"},
           NEW id \in Live', Finds(id), Grows, Stored'.status = Stored.status
    PROVE  OwnInv'
<1>1. worker.cur.managed = {}
  BY NoClaims DEF OwnInv, IInv, TypeOK, WorkerType, SyncInv, PassSync
<1>2. Own(worker'.cur, Live', added')
  BY <1>1 DEF Own, Finds
<1>3. Own(Stored'.status, Live', added')
  BY OwnGrows DEF OwnInv
<1> QED
  BY <1>2, <1>3 DEF OwnInv

\* What makes the number of users and associated keys grow.
LEMMA GrowsBy ==
    /\ KeysSame => Grows
    /\ \A id \in Ids : Creates(id) => Grows /\ id \in Live'
    /\ \A kid \in Kids : Adds(kid) => Grows /\ <<worker.id, kid>> \in added'
    /\ \A kid \in Kids : Removes(kid) => Grows
    /\ \A id, kid : AddsOther(id, kid) => Grows
  BY LiveAfter DEF KeysSame, Creates, Adds, Removes, AddsOther, Grows

LEMMA CallsOwn ==
    ASSUME IInv, SyncInv, OwnInv,
           \/ Begin \/ Get \/ List \/ CreateServiceUser \/ PatchDisplayName
           \/ \E kid \in Kids : Associate(kid) \/ Remove(kid)
           \/ FinishKeys
    PROVE  OwnInv'
<1>0. Stored'.status = Stored.status
  BY CallsSync DEF Stored
<1>1. ASSUME Grows, Fails \/ Keeps(worker') PROVE OwnInv'
  BY <1>0, <1>1, OwnKept DEF Fails, Keeps
<1>2. CASE Begin
  <2>1. Own(worker'.cur, Live', added')
    BY <1>2, BeginDoes, GrowsBy, OwnGrows DEF OwnInv, Begins
  <2>2. Own(Stored'.status, Live', added')
    BY <1>0, <1>2, BeginDoes, GrowsBy, OwnGrows DEF OwnInv
  <2> QED
    BY <2>1, <2>2 DEF OwnInv
<1>3. CASE Get
  <2>1. worker.cur.userId \in Live
    BY <1>3, GetDoes DEF SyncInv, PassSync, OwnInv, Own
  <2>2. CASE Finds(worker.cur.userId)
    BY <1>0, <1>3, <2>2, GetDoes, GrowsBy, OwnKept DEF Finds
  <2> QED
    BY <1>1, <1>3, <2>1, <2>2, GetDoes, GrowsBy
<1>4. CASE List
  <2>1. ASSUME NEW id \in Live, Finds(id) PROVE OwnInv'
    <3>1. Grows /\ id \in Live'
      BY <1>4, ListDoes, GrowsBy DEF Grows
    <3> QED
      BY <1>0, <1>4, <2>1, <3>1, ListDoes, OwnFound
  <2> QED
    BY <1>1, <1>4, <2>1, ListDoes, GrowsBy
<1>5. CASE CreateServiceUser
  <2>1. ASSUME NEW id \in Ids, Creates(id), Finds(id) PROVE OwnInv'
    BY <1>0, <1>5, <2>1, CreateDoes, GrowsBy, OwnFound
  <2> QED
    BY <1>1, <1>5, <2>1, CreateDoes, GrowsBy
<1>6. CASE PatchDisplayName
  BY <1>1, <1>6, PatchDoes, GrowsBy
<1>7. ASSUME NEW kid \in Kids, Associate(kid) PROVE OwnInv'
  <2>1. CASE Adds(kid) /\ Claims(kid)
    <3>1. worker'.cur.userId = worker.id /\ worker.cur.userId = worker.id
      BY <1>7, <2>1, AssociateDoes DEF Claims, SyncInv, PassSync
    <3>2. Grows /\ <<worker.id, kid>> \in added' /\ worker.id \in Live'
      BY <2>1, GrowsBy DEF Adds, Grows
    <3>3. Own(worker'.cur, Live', added')
      BY <2>1, <3>1, <3>2 DEF Own, OwnInv, Claims, Grows
    <3>4. Own(Stored'.status, Live', added')
      BY <1>0, <3>2, OwnGrows DEF OwnInv
    <3> QED
      BY <3>3, <3>4 DEF OwnInv
  <2> QED
    BY <1>1, <1>7, <2>1, AssociateDoes, GrowsBy
<1>8. ASSUME NEW kid \in Kids, Remove(kid) PROVE OwnInv'
  <2>1. CASE RemovedOne(kid)
    BY <1>0, <1>8, <2>1, RemoveDoes, GrowsBy, OwnKept DEF RemovedOne
  <2> QED
    BY <1>1, <1>8, <2>1, RemoveDoes, GrowsBy
<1>9. CASE FinishKeys
  BY <1>0, <1>9, FinishDoes, GrowsBy, OwnKept DEF Finishes, Kept
<1> QED
  BY <1>2, <1>3, <1>4, <1>5, <1>6, <1>7, <1>8, <1>9

LEMMA NextOwn ==
    ASSUME NoLag, UsersKept
    PROVE  IInv /\ SyncInv /\ OwnInv /\ [Next]_vars => OwnInv'
<1> SUFFICES ASSUME IInv, SyncInv, OwnInv, [Next]_vars PROVE OwnInv'
  OBVIOUS
<1>1. ASSUME UNCHANGED <<crLog, worker>>, Grows PROVE OwnInv'
  BY <1>1, OwnKept DEF Stored
<1>2. ASSUME worker' = Idle, KeysSame,
             \/ Stored'.status = Stored.status
             \/ /\ Stored'.status.userId = worker.cur.userId
                /\ Stored'.status.managed = worker.cur.managed
      PROVE  OwnInv'
  <2>1. Own(Stored'.status, Live', added')
    BY <1>2, GrowsBy, OwnGrows DEF OwnInv
  <2>2. Own(worker'.cur, Live', added')
    BY <1>2, IdleKnows DEF Own
  <2> QED
    BY <2>1, <2>2 DEF OwnInv
<1>3. ASSUME StatusPatch PROVE OwnInv'
  BY <1>2, <1>3, StatusPatchDoes
<1>4. ASSUME NEW s \in Specs, ApplySpec(s) PROVE OwnInv'
  BY <1>4, ApplySpecDoes, GrowsBy, OwnKept
<1>5. ASSUME Crash PROVE OwnInv'
  BY <1>2, <1>5, CrashDoes
<1>6. ~Deliver /\ ~DeleteObject
  BY DEF SyncInv, LogSync, Deliver, DeleteObject, Spend
<1>7. ASSUME \/ DepsChange
             \/ \E id \in Ids : DeleteUser(id)
             \/ \E id \in Ids, kid \in OthersKids, pem \in Pems :
                    AssociateOutOfBand(id, kid, pem)
      PROVE  OwnInv'
  BY <1>1, <1>7, OthersDo, GrowsBy DEF UsersKept
<1>8. CASE UNCHANGED vars
  BY <1>1, <1>8, SameUsersKeys, GrowsBy DEF vars
<1> QED
  BY <1>3, <1>4, <1>5, <1>6, <1>7, <1>8, CallsOwn DEF Next, Reconcile, Environment

-----------------------------------------------------------------------------
(* A key is taken only from the user with which it was associated *)

LEMMA InitSync == ASSUME ObjectKept PROVE Init => SyncInv /\ OwnInv
<1> SUFFICES ASSUME Init PROVE SyncInv /\ OwnInv
  OBVIOUS
<1>1. PICK s \in Specs : crLog = <<Present(s)>>
  BY DEF Init
<1>2. worker = Idle /\ budget = Budget /\ added = {}
  BY DEF Init
<1>3. Len(crLog) = 1 /\ Stored = Present(s)
  BY <1>1 DEF Stored
<1>4. LogSync
  BY <1>2, <1>3 DEF LogSync, Present, ObjectKept
<1>5. PassSync
  BY <1>2 DEF PassSync, Idle
<1>6. OwnInv
  BY <1>2, <1>3 DEF OwnInv, Own, Present, Idle, EmptyStatus
<1> QED
  BY <1>4, <1>5, <1>6 DEF SyncInv

LEMMA OwnRemoved ==
    ASSUME NoLag, IInv, SyncInv, OwnInv, [Next]_vars,
           NEW id \in Ids, NEW kid \in Kids, KeyRemoved(id, kid)
    PROVE  <<id, kid>> \in added
<1>1. ~KeysSame
  BY DEF KeysSame, KeyRemoved
<1>2. \A i \in Ids : ~Creates(i) /\ ~Deletes(i)
  BY DEF Creates, Deletes, KeyRemoved
<1>3. \A k \in Kids : ~Adds(k) /\ \A i \in Ids : ~AddsOther(i, k)
  BY DEF Adds, AddsOther, KeyRemoved, ThatKey
<1>4. ASSUME NEW k \in Kids, Remove(k) PROVE <<id, kid>> \in added
  <2>1. Removes(k) /\ worker.pc = "keys" /\ k \in worker.cur.managed
    BY <1>1, <1>4, RemoveDoes DEF ToRemove
  <2>2. k = kid /\ id = worker.id
    BY <2>1 DEF Removes, KeyRemoved, ThatKey
  <2>3. worker.id = worker.cur.userId
    BY <2>1 DEF SyncInv, PassSync
  <2> QED
    BY <2>1, <2>2, <2>3 DEF OwnInv, Own
<1>5. ~(Begin \/ Get \/ List \/ PatchDisplayName \/ FinishKeys \/ StatusPatch)
  BY <1>1, BeginDoes, GetDoes, ListDoes, PatchDoes, FinishDoes, StatusPatchDoes
<1>6. ~CreateServiceUser /\ \A k \in Kids : ~Associate(k)
  BY <1>1, <1>2, <1>3, CreateDoes, AssociateDoes
<1>7. ~(\E s \in Specs : ApplySpec(s)) /\ ~Crash
  BY <1>1, ApplySpecDoes, CrashDoes
<1>8. ~Deliver /\ ~DeleteObject
  BY DEF SyncInv, LogSync, Deliver, DeleteObject, Spend
<1>9. ~(\/ DepsChange
        \/ \E i \in Ids : DeleteUser(i)
        \/ \E i \in Ids, k \in OthersKids, pem \in Pems : AssociateOutOfBand(i, k, pem))
  BY <1>1, <1>2, <1>3, OthersDo, EnvironmentAssumption
<1>10. ~UNCHANGED vars
  BY <1>1, SameUsersKeys DEF vars
<1> QED
  BY <1>4, <1>5, <1>6, <1>7, <1>8, <1>9, <1>10 DEF Next, Reconcile, Environment

\* reconcileKeys "leaves any out-of-band keys in Keyline untouched": a key is
\* taken away only from a user with which the operator itself had that kid
\* associated, whatever calls fail and whenever the operator crashes, as long
\* as nothing it had to do with is deleted or read stale.
THEOREM OutOfBandKeysUntouched ==
    ASSUME NoLag, ObjectKept, UsersKept
    PROVE  Spec => LeavesOutOfBandKeys
<1> DEFINE KInv == IInv /\ SyncInv /\ OwnInv
<1>1. Init => KInv
  BY InitIInv, InitSync
<1>2. KInv /\ [Next]_vars => KInv'
  BY NextIInv, NextSync, NextOwn
<1>3. KInv /\ [Next]_vars =>
        [\A id \in Ids, kid \in Kids : KeyRemoved(id, kid) => <<id, kid>> \in added]_vars
  BY OwnRemoved
<1> QED
  BY <1>1, <1>2, <1>3, PTL DEF Spec, LeavesOutOfBandKeys

-----------------------------------------------------------------------------
(* What the operator associated stays claimed *)

CrashFree == budget["crash"] = 0

\* The pass forgets no key that it knew of.
KnownKept ==
    /\ Known'.userId = Known.userId
    /\ (Known.managed \ worker.gone) \subseteq (Known'.managed \ worker'.gone)

\* Of the keys associated with living users none comes into being.
KeysLess ==
    /\ UNCHANGED added
    /\ \A id \in Ids, kid \in Kids : <<id, kid>> \in added =>
          /\ users[id].state # "unused" => users'[id].state # "unused"
          /\ users'[id].state = "live" => users[id].state = "live"
          /\ users'[id].state = "live" /\ users'[id].keys[kid] # None =>
                users[id].keys[kid] # None

LEMMA OrphanKept == ASSUME OrphanInv, KeysLess, KnownKept PROVE OrphanInv'
  BY DEF OrphanInv, KeysLess, KnownKept, Live

\* The user whose keys were associated is gone: nothing is left to claim.
LEMMA NoneLeft ==
    ASSUME OrphanInv, KeysLess, Known.userId \notin Live
    PROVE  OrphanInv'
  BY DEF OrphanInv, KeysLess, Live

LEMMA LessBy ==
    ASSUME OrphanInv
    PROVE  /\ KeysSame => KeysLess
           /\ \A id \in Ids : Creates(id) \/ Deletes(id) => KeysLess
           /\ \A kid \in Kids : Removes(kid) => KeysLess
           /\ \A id \in Ids, kid \in OthersKids : AddsOther(id, kid) => KeysLess
<1>1. KeysSame => KeysLess
  BY DEF KeysSame, StatesSame, KeysLess
<1>2. ASSUME NEW id \in Ids, Creates(id) PROVE KeysLess
  <2>1. \A kid \in Kids : <<id, kid>> \notin added
    BY <1>2 DEF Creates, OrphanInv
  <2> QED
    BY <1>2, <2>1 DEF Creates, KeysLess
<1>3. ASSUME NEW id \in Ids, Deletes(id) PROVE KeysLess
  BY <1>3 DEF Deletes, KeysLess
<1>4. ASSUME NEW kid \in Kids, Removes(kid) PROVE KeysLess
  BY <1>4 DEF Removes, StatesSame, KeysLess
<1>5. ASSUME NEW id \in Ids, NEW kid \in OthersKids, AddsOther(id, kid) PROVE KeysLess
  <2>1. \A i \in Ids, k \in Kids :
          <<i, k>> \in added => users'[i].keys[k] = users[i].keys[k]
    BY <1>5 DEF AddsOther, OrphanInv
  <2> QED
    BY <1>5, <2>1 DEF AddsOther, StatesSame, KeysLess
<1> QED
  BY <1>1, <1>2, <1>3, <1>4, <1>5

\* The calls that change where the pass stands, and not what it knows.
LEMMA FailsKnows ==
    ASSUME worker.pc # "idle", Fails \/ (worker'.pc # "idle" /\ Keeps(worker'))
    PROVE  KnownKept
  BY DEF Fails, Keeps, KnownKept, Known

LEMMA BeginKnows == ASSUME SyncInv, Begins PROVE KnownKept
  BY DEF SyncInv, PassSync, Begins, KnownKept, Known

LEMMA FoundNone ==
    ASSUME SyncInv, worker.pc \in {"list", "create"}
    PROVE  Known.userId \notin Live
  BY NoneAssumption DEF SyncInv, PassSync, Known, Live

LEMMA AssociateOrphan ==
    ASSUME KidsApart, IInv, SyncInv, OrphanInv, NEW kid \in Kids,
           Associate(kid), Adds(kid), Claims(kid)
    PROVE  OrphanInv'
<1>1. /\ worker.pc = "keys" /\ kid \in ToAssociate(worker)
  BY AssociateDoes
<1>2. worker.gone = {} /\ worker.cur.userId = worker.id
  BY <1>1 DEF SyncInv, PassSync
<1>3. kid \notin OthersKids
  BY <1>1 DEF SyncInv, PassSync, ToAssociate, KidsApart
<1>4. /\ Known = worker.cur /\ Known'.userId = worker.id
      /\ Known'.managed = Known.managed \cup {kid} /\ worker'.gone = {}
  BY <1>1, <1>2 DEF Known, Claims
<1>5. worker.id \in Live /\ worker.id \in Ids /\ users[worker.id].state = "live"
  BY DEF Adds, Live
<1>6. Live' = Live
  BY LiveAfter DEF Adds
<1>7. ASSUME NEW i \in Ids, NEW k \in Kids, <<i, k>> \in added'
      PROVE  users'[i].state # "unused" /\ k \notin OthersKids
  BY <1>3, <1>5, <1>7 DEF Adds, StatesSame, OrphanInv
<1>8. ASSUME NEW i \in Live', NEW k \in Kids, <<i, k>> \in added'
      PROVE  /\ i = Known'.userId
             /\ users'[i].keys[k] # None => k \in Known'.managed \ worker'.gone
  <2>1. CASE ThatKey(i, kid, k)
    BY <1>4, <2>1 DEF ThatKey
  <2>2. CASE ~ThatKey(i, kid, k)
    <3>1. <<i, k>> \in added /\ i \in Live /\ i \in Ids
      BY <1>6, <1>8, <2>2 DEF Adds, ThatKey, Live
    <3>2. users'[i].keys[k] = users[i].keys[k]
      BY <2>2, <3>1 DEF Adds
    <3> QED
      BY <1>2, <1>4, <3>1, <3>2 DEF OrphanInv
  <2> QED
    BY <2>1, <2>2
<1> QED
  BY <1>7, <1>8 DEF OrphanInv

LEMMA RemoveOrphan ==
    ASSUME IInv, SyncInv, OrphanInv, NEW kid \in Kids,
           Remove(kid), Removes(kid), RemovedOne(kid)
    PROVE  OrphanInv'
<1>1. worker.pc = "keys" /\ worker.cur.userId = worker.id
  BY RemoveDoes DEF SyncInv, PassSync
<1>2. /\ Known = worker.cur /\ Known' = worker.cur /\ Known.userId = worker.id
      /\ worker'.gone = worker.gone \cup {kid}
  BY <1>1 DEF Known, RemovedOne
<1>3. KeysLess /\ Live' = Live /\ UNCHANGED added
  BY LessBy, LiveAfter DEF Removes
<1>4. ASSUME NEW i \in Live', NEW k \in Kids, <<i, k>> \in added'
      PROVE  /\ i = Known'.userId
             /\ users'[i].keys[k] # None => k \in Known'.managed \ worker'.gone
  <2>1. i \in Live /\ i \in Ids /\ i = Known.userId
    BY <1>3, <1>4 DEF OrphanInv, Live
  <2>2. ASSUME users'[i].keys[k] # None PROVE k # kid /\ users[i].keys[k] # None
    BY <1>2, <2>1, <2>2 DEF Removes, ThatKey
  <2> QED
    BY <1>2, <1>3, <1>4, <2>1, <2>2 DEF OrphanInv
<1>5. \A i \in Ids, k \in Kids : <<i, k>> \in added' =>
        users'[i].state # "unused" /\ k \notin OthersKids
  BY <1>3 DEF KeysLess, OrphanInv
<1> QED
  BY <1>4, <1>5 DEF OrphanInv

LEMMA CallsOrphan ==
    ASSUME AssociateAnswered, KidsApart, IInv, SyncInv, OrphanInv,
           \/ Begin \/ Get \/ List \/ CreateServiceUser \/ PatchDisplayName
           \/ \E kid \in Kids : Associate(kid) \/ Remove(kid)
           \/ FinishKeys
    PROVE  OrphanInv'
<1>1. ASSUME KeysLess, worker.pc # "idle",
             Fails \/ (worker'.pc # "idle" /\ Keeps(worker'))
      PROVE  OrphanInv'
  BY <1>1, FailsKnows, OrphanKept
<1>2. CASE Begin
  BY <1>2, BeginDoes, BeginKnows, LessBy, OrphanKept
<1>3. CASE Get
  <2>1. CASE Finds(worker.cur.userId)
    <3>1. KnownKept
      BY <1>3, <2>1, GetDoes DEF Finds, KnownKept, Known
    <3> QED
      BY <1>3, <3>1, GetDoes, LessBy, OrphanKept
  <2>2. CASE worker.cur.userId \notin Live
    <3>1. Known.userId \notin Live
      BY <1>3, <2>2, GetDoes DEF Known
    <3> QED
      BY <1>3, <3>1, GetDoes, LessBy, NoneLeft
  <2> QED
    BY <1>1, <1>3, <2>1, <2>2, GetDoes, LessBy
<1>4. CASE List
  BY <1>4, ListDoes, FoundNone, LessBy, NoneLeft
<1>5. CASE CreateServiceUser
  BY <1>5, CreateDoes, FoundNone, LessBy, NoneLeft
<1>6. CASE PatchDisplayName
  BY <1>1, <1>6, PatchDoes, LessBy
<1>7. ASSUME NEW kid \in Kids, Associate(kid) PROVE OrphanInv'
  BY <1>1, <1>7, AssociateDoes, AssociateOrphan, LessBy DEF AssociateAnswered
<1>8. ASSUME NEW kid \in Kids, Remove(kid) PROVE OrphanInv'
  BY <1>1, <1>8, RemoveDoes, RemoveOrphan, LessBy
<1>9. CASE FinishKeys
  <2>1. worker.cur.managed \ worker.gone \subseteq Kept(worker) \ worker.gone
    BY <1>9, FinishDoes DEF Kept, ToRemove
  <2>2. KnownKept
    BY <1>9, <2>1, FinishDoes DEF Finishes, KnownKept, Known
  <2> QED
    BY <1>9, <2>2, FinishDoes, LessBy, OrphanKept
<1> QED
  BY <1>2, <1>3, <1>4, <1>5, <1>6, <1>7, <1>8, <1>9

\* What a pass knew is stored as it ends.
LEMMA PatchKnows ==
    ASSUME NoLag, StatusStored, IInv, SyncInv, StatusPatch
    PROVE  KeysSame /\ KnownKept
<1>1. /\ worker.pc = "status" /\ worker'.pc = "idle" /\ worker'.gone = {}
      /\ KeysSame
      /\ Stored'.status.userId = worker.cur.userId
      /\ Stored'.status.managed = worker.cur.managed
  BY StatusPatchDoes, IdleKnows DEF StatusStored
<1> QED
  BY <1>1 DEF KnownKept, Known

LEMMA NextOrphan ==
    ASSUME NoLag, StatusStored, AssociateAnswered, KidsApart
    PROVE  IInv /\ SyncInv /\ CrashFree /\ OrphanInv /\ [Next]_vars => OrphanInv'
<1> SUFFICES ASSUME IInv, SyncInv, CrashFree, OrphanInv, [Next]_vars PROVE OrphanInv'
  OBVIOUS
<1>1. ASSUME UNCHANGED worker, Stored'.status = Stored.status, KeysLess
      PROVE  OrphanInv'
  BY <1>1, OrphanKept DEF KnownKept, Known
<1>2. CASE StatusPatch
  BY <1>2, PatchKnows, LessBy, OrphanKept
<1>3. ASSUME NEW s \in Specs, ApplySpec(s) PROVE OrphanInv'
  BY <1>1, <1>3, ApplySpecDoes, LessBy
<1>4. ~Crash /\ ~Deliver /\ ~DeleteObject
  BY CrashDoes DEF CrashFree, SyncInv, LogSync, Deliver, DeleteObject, Spend
<1>5. ASSUME \/ DepsChange
             \/ \E id \in Ids : DeleteUser(id)
             \/ \E id \in Ids, kid \in OthersKids, pem \in Pems :
                    AssociateOutOfBand(id, kid, pem)
      PROVE  OrphanInv'
  BY <1>1, <1>5, OthersDo, LessBy DEF Stored
<1>6. CASE UNCHANGED vars
  BY <1>1, <1>6, SameUsersKeys, LessBy DEF vars, Stored
<1> QED
  BY <1>2, <1>3, <1>4, <1>5, <1>6, CallsOrphan DEF Next, Reconcile, Environment

LEMMA NextCrashFree == IInv /\ CrashFree /\ [Next]_vars => CrashFree'
  BY NeverAgain DEF CrashFree, BudgetKinds

LEMMA OrphanInvImplies == IInv /\ SyncInv /\ OrphanInv => NoOrphanKeys
<1> SUFFICES ASSUME SyncInv, OrphanInv, Quiescent PROVE NoOrphanKeys
  BY DEF NoOrphanKeys
<1>1. Known = Stored.status
  BY DEF Quiescent, Known
<1> QED
  BY <1>1 DEF OrphanInv, NoOrphanKeys

\* "removes kids that disappeared from spec": between two passes, a key that
\* the operator associated and Keyline still has is claimed in the status, so
\* that a later pass can remove it - also after passes that failed in any of
\* their other calls, and while others delete users and add keys in Keyline.
THEOREM NoKeyIsOrphaned ==
    ASSUME NoLag, ObjectKept, StatusStored, AssociateAnswered, KidsApart
    PROVE  Spec => []NoOrphanKeys
<1> DEFINE KInv == IInv /\ SyncInv /\ CrashFree /\ OrphanInv
<1>1. Init => KInv
  <2> SUFFICES ASSUME Init PROVE KInv
    OBVIOUS
  <2>1. CrashFree
    BY DEF Init, CrashFree, StatusStored
  <2>2. OrphanInv
    BY DEF Init, OrphanInv
  <2> QED
    BY <2>1, <2>2, InitIInv, InitSync
<1>2. KInv /\ [Next]_vars => KInv'
  BY NextIInv, NextSync, NextCrashFree, NextOrphan
<1>3. KInv => NoOrphanKeys
  BY OrphanInvImplies
<1> QED
  BY <1>1, <1>2, <1>3, PTL DEF Spec

-----------------------------------------------------------------------------
(* What the status claims exists *)

\* Of the keys none is lost.
KeysMore ==
    \A id \in Ids, kid \in Kids :
        users[id].keys[kid] # None => users'[id].keys[kid] # None

\* The pass comes to claim nothing new.
NothingNew ==
    /\ Known'.userId = Known.userId
    /\ (Known'.managed \ worker'.gone) \subseteq (Known.managed \ worker.gone)
    /\ worker'.pc = "status" => worker'.cur.managed \cap worker'.gone = {}

LEMMA KnownOwn ==
    ASSUME IInv, OwnInv
    PROVE  /\ Own(Known, Live, added) /\ Known \in StatusType
           /\ Known.userId \notin Ids => Known.managed = {}
<1>1. Own(Known, Live, added) /\ Known \in StatusType
  BY EndsOfLog
  DEF OwnInv, Known, IInv, TypeOK, LogType, WorkerType, VersionType
<1>2. Known.userId \notin Ids => Known.userId = None
  BY <1>1 DEF Own, Live
<1> QED
  BY <1>1, <1>2, NoClaims

LEMMA ExistKept ==
    ASSUME IInv, OwnInv, ExistInv, KeysMore, NothingNew
    PROVE  ExistInv'
<1>1. ASSUME NEW kid \in Known'.managed \ worker'.gone
      PROVE  users'[Known'.userId].keys[kid] # None
  <2>1. kid \in Known.managed \ worker.gone /\ Known'.userId = Known.userId
    BY DEF NothingNew
  <2>2. Known.userId \in Ids /\ kid \in Kids
    BY <2>1, KnownOwn DEF StatusType
  <2>3. users[Known.userId].keys[kid] # None
    BY <2>1 DEF ExistInv
  <2> QED
    BY <2>1, <2>2, <2>3 DEF KeysMore
<1> QED
  BY <1>1 DEF ExistInv, NothingNew

LEMMA MoreBy ==
    /\ KeysSame => KeysMore
    /\ \A id \in Ids : Creates(id) => KeysMore
    /\ \A kid \in Kids : Adds(kid) => KeysMore
    /\ \A id, kid : AddsOther(id, kid) => KeysMore
  BY DEF KeysSame, Creates, Adds, AddsOther, KeysMore, ThatKey

\* A pass that removed nothing yet may end, or find another user if it has none.
LEMMA PassNothingNew ==
    ASSUME SyncInv, worker.pc # "idle",
           Fails \/ (worker'.pc # "idle" /\ Keeps(worker')),
           worker.gone = {}
    PROVE  NothingNew
  BY DEF Fails, Keeps, NothingNew, Known

LEMMA FoundExist ==
    ASSUME IInv, SyncInv, OwnInv, worker.pc \in {"list", "create"}, NEW id, Finds(id)
    PROVE  ExistInv'
<1>1. Known = worker.cur /\ worker.cur.userId = None
  BY DEF Known, SyncInv, PassSync
<1>2. worker.cur.managed = {}
  BY <1>1, KnownOwn, NoneAssumption
<1> QED
  BY <1>2 DEF Finds, ExistInv, Known

LEMMA NothingGone ==
    ASSUME SyncInv
    PROVE  /\ worker.pc \notin {"keys", "status"} => worker.gone = {}
           /\ worker.pc = "keys" /\ ToAssociate(worker) # {} => worker.gone = {}
  BY DEF SyncInv, PassSync

LEMMA AssociateExist ==
    ASSUME IInv, SyncInv, OwnInv, ExistInv, NEW kid \in Kids,
           Associate(kid), Adds(kid), Claims(kid)
    PROVE  ExistInv'
<1>1. /\ worker.pc = "keys" /\ worker.gone = {}
      /\ worker.cur.userId = worker.id /\ worker.id \in Ids
  BY AssociateDoes, NothingGone DEF SyncInv, PassSync
<1>2. /\ Known = worker.cur /\ Known'.userId = worker.id
      /\ Known'.managed = Known.managed \cup {kid} /\ worker'.pc = "keys"
  BY <1>1 DEF Known, Claims
<1>3. ASSUME NEW k \in Known'.managed PROVE users'[worker.id].keys[k] # None
  <2>1. CASE k = kid
    BY <2>1 DEF Adds
  <2>2. CASE k # kid
    <3>1. k \in worker.cur.managed /\ k \in Kids
      BY <1>2, <2>2, KnownOwn DEF StatusType
    <3>2. users[worker.id].keys[k] # None
      BY <1>1, <1>2, <3>1 DEF ExistInv
    <3> QED
      BY <1>1, <3>1, <3>2, MoreBy DEF KeysMore
  <2> QED
    BY <2>1, <2>2
<1> QED
  BY <1>2, <1>3 DEF ExistInv

LEMMA RemoveExist ==
    ASSUME IInv, SyncInv, OwnInv, ExistInv, NEW kid \in Kids,
           Remove(kid), Removes(kid), RemovedOne(kid)
    PROVE  ExistInv'
<1>1. /\ worker.pc = "keys" /\ worker.cur.userId = worker.id /\ worker.id \in Ids
  BY RemoveDoes DEF SyncInv, PassSync
<1>2. /\ Known = worker.cur /\ Known' = worker.cur /\ worker'.pc = "keys"
      /\ worker'.gone = worker.gone \cup {kid}
  BY <1>1 DEF Known, RemovedOne
<1>3. ASSUME NEW k \in worker.cur.managed \ (worker.gone \cup {kid})
      PROVE  users'[worker.id].keys[k] # None
  <2>1. k \in Kids /\ k # kid
    BY <1>2, KnownOwn DEF StatusType
  <2>2. users[worker.id].keys[k] # None
    BY <1>1, <1>2 DEF ExistInv
  <2> QED
    BY <1>1, <2>1, <2>2 DEF Removes, ThatKey
<1> QED
  BY <1>1, <1>2, <1>3 DEF ExistInv

LEMMA CallsExist ==
    ASSUME RemovalsSucceed, IInv, SyncInv, OwnInv, ExistInv,
           \/ Begin \/ Get \/ List \/ CreateServiceUser \/ PatchDisplayName
           \/ \E kid \in Kids : Associate(kid) \/ Remove(kid)
           \/ FinishKeys
    PROVE  ExistInv'
<1>1. ASSUME KeysMore, worker.pc # "idle", worker.gone = {},
             Fails \/ (worker'.pc # "idle" /\ Keeps(worker'))
      PROVE  ExistInv'
  BY <1>1, PassNothingNew, ExistKept
<1>2. CASE Begin
  <2>1. Begins /\ worker.gone = {}
    BY <1>2, BeginDoes, NothingGone DEF Begins
  <2>2. NothingNew
    BY <2>1 DEF Begins, NothingNew, Known
  <2> QED
    BY <1>2, <2>2, BeginDoes, MoreBy, ExistKept
<1>3. CASE Get
  <2>1. worker.cur.userId \in Live /\ worker.gone = {}
    BY <1>3, GetDoes, NothingGone DEF SyncInv, PassSync, OwnInv, Own
  <2>2. CASE Finds(worker.cur.userId)
    <3>1. NothingNew
      BY <1>3, <2>1, <2>2, GetDoes DEF Finds, NothingNew, Known
    <3> QED
      BY <1>3, <3>1, GetDoes, MoreBy, ExistKept
  <2> QED
    BY <1>1, <1>3, <2>1, <2>2, GetDoes, MoreBy
<1>4. CASE List
  <2>1. worker.gone = {}
    BY <1>4, ListDoes, NothingGone
  <2> QED
    BY <1>1, <1>4, <2>1, ListDoes, FoundExist, MoreBy
<1>5. CASE CreateServiceUser
  <2>1. worker.gone = {}
    BY <1>5, CreateDoes, NothingGone
  <2> QED
    BY <1>1, <1>5, <2>1, CreateDoes, FoundExist, MoreBy
<1>6. CASE PatchDisplayName
  <2>1. worker.gone = {}
    BY <1>6, PatchDoes, NothingGone
  <2> QED
    BY <1>1, <1>6, <2>1, PatchDoes, MoreBy
<1>7. ASSUME NEW kid \in Kids, Associate(kid) PROVE ExistInv'
  <2>1. worker.pc = "keys" /\ worker.gone = {}
    BY <1>7, AssociateDoes, NothingGone
  <2> QED
    BY <1>1, <1>7, <2>1, AssociateDoes, AssociateExist, MoreBy
<1>8. ASSUME NEW kid \in Kids, Remove(kid) PROVE ExistInv'
  BY <1>8, RemoveDoes, RemoveExist DEF RemovalsSucceed
<1>9. CASE FinishKeys
  <2>1. worker.gone \cap Desired(worker.spec) = {} /\ worker.pc = "keys"
    BY <1>9, FinishDoes DEF SyncInv, PassSync
  <2>2. Kept(worker) \cap worker.gone = {} /\ Kept(worker) \subseteq worker.cur.managed
    BY <2>1 DEF Kept
  <2>3. NothingNew
    BY <1>9, <2>1, <2>2, FinishDoes DEF Finishes, NothingNew, Known
  <2> QED
    BY <1>9, <2>3, FinishDoes, MoreBy, ExistKept
<1> QED
  BY <1>2, <1>3, <1>4, <1>5, <1>6, <1>7, <1>8, <1>9

LEMMA NextExist ==
    ASSUME NoLag, UsersKept, StatusStored, RemovalsSucceed
    PROVE  IInv /\ SyncInv /\ CrashFree /\ OwnInv /\ ExistInv /\ [Next]_vars => ExistInv'
<1> SUFFICES ASSUME IInv, SyncInv, CrashFree, OwnInv, ExistInv, [Next]_vars
             PROVE  ExistInv'
  OBVIOUS
<1>1. ASSUME UNCHANGED worker, Stored'.status = Stored.status, KeysMore
      PROVE  ExistInv'
  <2>1. NothingNew
    BY <1>1 DEF NothingNew, Known, ExistInv
  <2> QED
    BY <1>1, <2>1, ExistKept
<1>2. CASE StatusPatch
  <2>1. /\ worker.pc = "status" /\ worker'.pc = "idle" /\ worker'.gone = {}
        /\ KeysSame
        /\ Stored'.status.userId = worker.cur.userId
        /\ Stored'.status.managed = worker.cur.managed
    BY <1>2, StatusPatchDoes, IdleKnows DEF StatusStored
  <2>2. worker.cur.managed \cap worker.gone = {}
    BY <2>1 DEF ExistInv
  <2>3. NothingNew
    BY <2>1, <2>2 DEF NothingNew, Known
  <2> QED
    BY <2>1, <2>3, MoreBy, ExistKept
<1>3. ASSUME NEW s \in Specs, ApplySpec(s) PROVE ExistInv'
  BY <1>1, <1>3, ApplySpecDoes, MoreBy
<1>4. ~Crash /\ ~Deliver /\ ~DeleteObject
  BY CrashDoes DEF CrashFree, SyncInv, LogSync, Deliver, DeleteObject, Spend
<1>5. ASSUME \/ DepsChange
             \/ \E id \in Ids : DeleteUser(id)
             \/ \E id \in Ids, kid \in OthersKids, pem \in Pems :
                    AssociateOutOfBand(id, kid, pem)
      PROVE  ExistInv'
  BY <1>1, <1>5, OthersDo, MoreBy DEF Stored, UsersKept
<1>6. CASE UNCHANGED vars
  BY <1>1, <1>6, SameUsersKeys, MoreBy DEF vars, Stored
<1> QED
  BY <1>2, <1>3, <1>4, <1>5, <1>6, CallsExist DEF Next, Reconcile, Environment

LEMMA ExistInvImplies == IInv /\ SyncInv /\ ExistInv => ClaimedKeysExist
<1> SUFFICES ASSUME SyncInv, ExistInv, Quiescent PROVE ClaimedKeysExist
  BY DEF ClaimedKeysExist
<1>1. Known = Stored.status /\ worker.gone = {}
  BY DEF Quiescent, Known, SyncInv, PassSync
<1> QED
  BY <1>1 DEF ExistInv, ClaimedKeysExist

\* "associates kids listed here": between two passes, a kid that the status
\* claims, and that reconcileKeys will therefore not associate again, is a key
\* of the user - although its answers to Create and Associate may be lost, and
\* others may add keys in Keyline.
THEOREM ClaimsExist ==
    ASSUME NoLag, ObjectKept, UsersKept, StatusStored, RemovalsSucceed
    PROVE  Spec => []ClaimedKeysExist
<1> DEFINE KInv == IInv /\ SyncInv /\ CrashFree /\ OwnInv /\ ExistInv
<1>1. Init => KInv
  <2> SUFFICES ASSUME Init PROVE KInv
    OBVIOUS
  <2>1. CrashFree
    BY DEF Init, CrashFree, StatusStored
  <2>2. SyncInv /\ OwnInv /\ IInv
    BY InitIInv, InitSync
  <2>3. Known.managed = {} /\ worker = Idle
    <3>1. worker.pc = "idle"
      BY DEF Init, Idle
    <3>2. \E s \in Specs : Stored = Present(s)
      BY DEF Init, Stored
    <3> QED
      BY <3>1, <3>2 DEF Init, Known, Present, EmptyStatus
  <2>4. ExistInv
    BY <2>3 DEF ExistInv, Idle
  <2> QED
    BY <2>1, <2>2, <2>4
<1>2. KInv /\ [Next]_vars => KInv'
  BY NextIInv, NextSync, NextCrashFree, NextOwn, NextExist
<1>3. KInv => ClaimedKeysExist
  BY ExistInvImplies
<1> QED
  BY <1>1, <1>2, <1>3, PTL DEF Spec

================================================================================
