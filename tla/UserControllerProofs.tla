------------------------- MODULE UserControllerProofs -------------------------
(***************************************************************************)
(* Proofs about UserController, for every value of its constants.          *)
(***************************************************************************)
EXTENDS UserController, TLAPS

\* What a merge patch of the status stores is a status again, and claims only
\* kids that the stored or the reconciler's own status claims.
LEMMA MergeFromStatus ==
    ASSUME NEW base \in StatusType, NEW obj \in StatusType,
           NEW stored \in StatusType
    PROVE  /\ MergeFrom(base, obj, stored) \in StatusType
           /\ MergeFrom(base, obj, stored).managed \in {obj.managed, stored.managed}
  BY DEF MergeFrom, StatusType

\* Recording a condition changes neither the user id nor the claims.
LEMMA SetNotReadyStatus ==
    ASSUME NEW w \in WorkerType, NEW reason \in Reasons
    PROVE  /\ SetNotReady(w, reason) \in WorkerType
           /\ SetNotReady(w, reason).base = w.base
           /\ SetNotReady(w, reason).cur.managed = w.cur.managed
  BY DEF SetNotReady, setNotReadyCondition, WorkerType, StatusType

LogType == crLog \in Seq(VersionType) /\ Len(crLog) \in 1 .. MaxLag + 1

\* Every version of the log after a step is an old one or v.
OldOr(v) == \A i \in DOMAIN crLog' :
                \/ crLog'[i] = v
                \/ \E j \in DOMAIN crLog : crLog'[i] = crLog[j]

\* Storing a version keeps the log a log, whether or not the bound on the lag
\* makes the informer apply the oldest event.
LEMMA PublishLog ==
    ASSUME LogType, NEW v \in VersionType, Publish(v)
    PROVE  LogType' /\ OldOr(v) /\ Stored' = v
<1> USE BoundsAssumption DEF LogType, OldOr, Stored
<1>1. CASE Len(crLog) > MaxLag
  <2>1. /\ Tail(crLog) \in Seq(VersionType)
        /\ Len(Tail(crLog)) = Len(crLog) - 1
        /\ \A i \in 1 .. Len(crLog) - 1 : Tail(crLog)[i] = crLog[i + 1]
    OBVIOUS
  <2>2. crLog' = Append(Tail(crLog), v)
    BY <1>1 DEF Publish
  <2>3. Len(crLog') = Len(crLog) /\ crLog' \in Seq(VersionType)
    BY <2>1, <2>2
  <2>4. \A i \in 1 .. Len(crLog) - 1 : crLog'[i] = crLog[i + 1]
    BY <2>1, <2>2
  <2>5. crLog'[Len(crLog)] = v
    BY <2>1, <2>2
  <2> QED
    BY <2>3, <2>4, <2>5
<1>2. CASE ~(Len(crLog) > MaxLag)
  <2>1. crLog' = Append(crLog, v)
    BY <1>2 DEF Publish
  <2>2. Len(crLog') = Len(crLog) + 1 /\ crLog' \in Seq(VersionType)
    BY <2>1
  <2>3. \A i \in 1 .. Len(crLog) : crLog'[i] = crLog[i]
    BY <2>1
  <2>4. crLog'[Len(crLog) + 1] = v
    BY <2>1
  <2> QED
    BY <1>2, <2>2, <2>3, <2>4
<1> QED
  BY <1>1, <1>2

\* Both ends of the log are versions of it.
LEMMA EndsOfLog ==
    ASSUME LogType
    PROVE  /\ 1 \in DOMAIN crLog /\ Cached = crLog[1] /\ Cached \in VersionType
           /\ Len(crLog) \in DOMAIN crLog /\ Stored \in VersionType
  BY BoundsAssumption DEF LogType, Cached, Stored

\* The constant values of the model have the types TypeOK gives them.
LEMMA ConstantTypes ==
    /\ EmptyStatus \in StatusType
    /\ NoSpec \in SpecType
    /\ Absent \in VersionType
    /\ Idle \in WorkerType
    /\ Unused \in UserType
    /\ [Unused EXCEPT !.state = "deleted"] \in UserType
    /\ \A s \in Specs : Present(s) \in VersionType
  BY SpecsAssumption
  DEF EmptyStatus, NoSpec, Absent, Idle, Unused, Present, StatusType, SpecType,
      VersionType, WorkerType, UserType, NoCondition, Reasons

-----------------------------------------------------------------------------
(* The inductive invariant *)

IInv == TypeOK /\ ClaimsOnlyOwnKeys

WorkerClaims(w) == /\ w.base.managed \subseteq AddedKids
                   /\ w.cur.managed \subseteq AddedKids

\* A step that leaves the log alone keeps the log's claims, as the history of
\* associations only grows.
LEMMA LogClaimsKept ==
    ASSUME ClaimsOnlyOwnKeys, added \subseteq added', UNCHANGED crLog
    PROVE  /\ AddedKids \subseteq AddedKids'
           /\ \A i \in DOMAIN crLog' : crLog'[i].status.managed \subseteq AddedKids'
<1>1. AddedKids \subseteq AddedKids'
  BY DEF AddedKids
<1> QED
  BY <1>1 DEF ClaimsOnlyOwnKeys

\* So does a step that stores a version whose claims are the operator's own.
LEMMA PublishClaims ==
    ASSUME IInv, NEW v \in VersionType, Publish(v), UNCHANGED added,
           v.status.managed \subseteq AddedKids
    PROVE  /\ LogType'
           /\ \A i \in DOMAIN crLog' : crLog'[i].status.managed \subseteq AddedKids'
<1>1. LogType' /\ OldOr(v)
  BY PublishLog DEF IInv, TypeOK, LogType
<1>2. AddedKids' = AddedKids
  BY DEF AddedKids
<1> QED
  BY <1>1, <1>2 DEF OldOr, IInv, ClaimsOnlyOwnKeys

\* ensureServiceUser's outcomes change neither the claims nor the snapshot.
LEMMA WithUserStatus ==
    ASSUME NEW w \in WorkerType, NEW id \in Ids
    PROVE  /\ WithUser(w, id) \in WorkerType
           /\ WithUser(w, id).base = w.base
           /\ WithUser(w, id).cur.managed = w.cur.managed
<1> DEFINE c == [w.cur EXCEPT !.userId = id]
<1>1. c \in StatusType /\ c.managed = w.cur.managed
  BY DEF WorkerType, StatusType
<1>2. WithUser(w, id) = [w EXCEPT !.id = id, !.cur = c,
              !.pc = IF w.spec.display # None THEN "patch" ELSE "keys"]
  BY DEF WithUser, WorkerType, StatusType
<1> HIDE DEF c
<1> QED
  BY <1>1, <1>2 DEF WorkerType

LEMMA ForgetUserStatus ==
    ASSUME NEW w \in WorkerType
    PROVE  /\ ForgetUser(w) \in WorkerType
           /\ ForgetUser(w).base = w.base
           /\ ForgetUser(w).cur.managed = w.cur.managed
<1> DEFINE c == [w.cur EXCEPT !.userId = None]
<1>1. c \in StatusType /\ c.managed = w.cur.managed
  BY DEF WorkerType, StatusType
<1>2. ForgetUser(w) = [w EXCEPT !.pc = "list", !.cur = c]
  BY DEF ForgetUser, WorkerType, StatusType
<1> HIDE DEF c
<1> QED
  BY <1>1, <1>2 DEF WorkerType

LEMMA InitIInv == Init => IInv
<1> SUFFICES ASSUME Init PROVE IInv
  OBVIOUS
<1> PICK s \in Specs : crLog = <<Present(s)>>
  BY DEF Init
<1>1. LogType
  BY ConstantTypes, BoundsAssumption DEF LogType
<1>2. TypeOK
  BY <1>1, ConstantTypes, BoundsAssumption DEF Init, TypeOK, LogType
<1>3. Present(s).status.managed = {} /\ Idle.base.managed = {} /\ Idle.cur.managed = {}
  BY DEF Present, Idle, EmptyStatus
<1>4. \A i \in DOMAIN crLog : crLog[i] = Present(s)
  OBVIOUS
<1> QED
  BY <1>2, <1>3, <1>4 DEF IInv, ClaimsOnlyOwnKeys, Init

\* What is left to show of a step that does not touch the log.
LEMMA StepOffLog ==
    ASSUME IInv, UNCHANGED crLog,
           added \subseteq added', added' \subseteq Ids \X Kids,
           pending' \in BOOLEAN, deps' \in {"ok"} \cup NotOk,
           budget' \in [BudgetKinds -> Nat], users' \in [Ids -> UserType],
           worker' \in WorkerType,
           worker'.base.managed \subseteq AddedKids',
           worker'.cur.managed \subseteq AddedKids'
    PROVE  IInv'
<1>1. TypeOK'
  BY DEF IInv, TypeOK
<1>2. \A i \in DOMAIN crLog' : crLog'[i].status.managed \subseteq AddedKids'
  BY LogClaimsKept DEF IInv
<1> QED
  BY <1>1, <1>2 DEF IInv, ClaimsOnlyOwnKeys

\* The counters of the environment's steps stay natural numbers.
LEMMA SpendType ==
    ASSUME NEW kind \in BudgetKinds, budget \in [BudgetKinds -> Nat], Spend(kind)
    PROVE  budget' \in [BudgetKinds -> Nat]
  BY DEF Spend

\* A step of a pass whose only effect on the operator is the worker's.
LEMMA WorkerOnly ==
    ASSUME IInv, UNCHANGED <<crLog, added, deps>>, pending' \in BOOLEAN,
           budget' \in [BudgetKinds -> Nat], users' \in [Ids -> UserType],
           worker' \in WorkerType, worker'.base = worker.base,
           worker'.cur.managed = worker.cur.managed
    PROVE  IInv'
<1>1. AddedKids' = AddedKids
  BY DEF AddedKids
<1>2. /\ worker'.base.managed \subseteq AddedKids'
      /\ worker'.cur.managed \subseteq AddedKids'
  BY <1>1 DEF IInv, ClaimsOnlyOwnKeys
<1> QED
  BY <1>2, StepOffLog DEF IInv, TypeOK

\* A failed call ends the pass in setNotReady.
LEMMA FailedCall ==
    ASSUME IInv, UNCHANGED <<crLog, pending, added, deps>>,
           users' \in [Ids -> UserType], budget' \in [BudgetKinds -> Nat],
           NEW reason \in Reasons, worker' = SetNotReady(worker, reason)
    PROVE  IInv'
  BY SetNotReadyStatus, WorkerOnly DEF IInv, TypeOK

LEMMA FaultyBudget ==
    ASSUME IInv, NEW call, Faulty(call)
    PROVE  budget' \in [BudgetKinds -> Nat]
  BY SpendType DEF Faulty, IInv, TypeOK, BudgetKinds

LEMMA BeginIInv == IInv /\ Begin => IInv'
<1> SUFFICES ASSUME IInv, Begin PROVE IInv'
  OBVIOUS
<1>1. CASE ~Cached.present
  BY <1>1, WorkerOnly DEF Begin, IInv, TypeOK
<1>2. CASE Cached.present
  <2> DEFINE w == [Idle EXCEPT !.spec = Cached.spec, !.base = Cached.status,
                               !.cur = Cached.status]
  <2>1. Cached \in VersionType /\ Cached.status.managed \subseteq AddedKids
    BY EndsOfLog DEF IInv, TypeOK, LogType, ClaimsOnlyOwnKeys
  <2>2. w \in WorkerType /\ w.base = Cached.status /\ w.cur = Cached.status
    BY <2>1, ConstantTypes DEF WorkerType, VersionType, Idle
  <2>3. worker' = IF deps # "ok" THEN SetNotReady(w, deps)
                  ELSE [w EXCEPT !.pc = FirstCall(Cached.status)]
    BY <1>2 DEF Begin
  <2> HIDE DEF w
  <2>4. /\ worker' \in WorkerType
        /\ worker'.base.managed = Cached.status.managed
        /\ worker'.cur.managed = Cached.status.managed
    <3>1. CASE deps # "ok"
      <4>1. deps \in Reasons
        BY <3>1 DEF IInv, TypeOK, Reasons
      <4> QED
        BY <2>2, <2>3, <3>1, <4>1, SetNotReadyStatus
    <3>2. CASE deps = "ok"
      BY <2>2, <2>3, <3>2 DEF WorkerType, FirstCall
    <3> QED
      BY <3>1, <3>2
  <2>5. AddedKids' = AddedKids
    BY DEF AddedKids, Begin
  <2> QED
    BY <2>1, <2>4, <2>5, StepOffLog DEF Begin, IInv, TypeOK
<1> QED
  BY <1>1, <1>2

LEMMA GetIInv == IInv /\ Get => IInv'
<1> SUFFICES ASSUME IInv, Get PROVE IInv'
  OBVIOUS
<1>0. /\ worker \in WorkerType /\ users' \in [Ids -> UserType]
      /\ pending' \in BOOLEAN /\ UNCHANGED <<crLog, pending, added, deps>>
  BY DEF Get, IInv, TypeOK
<1>1. CASE worker' = WithUser(worker, worker.cur.userId)
           /\ worker.cur.userId \in Live /\ UNCHANGED budget
  BY <1>0, <1>1, WithUserStatus, WorkerOnly DEF IInv, TypeOK, Live
<1>2. CASE worker' = ForgetUser(worker) /\ UNCHANGED budget
  BY <1>0, <1>2, ForgetUserStatus, WorkerOnly DEF IInv, TypeOK
<1>3. CASE Faulty("Get") /\ worker' = SetNotReady(worker, "GetFailed")
  BY <1>0, <1>3, FaultyBudget, FailedCall DEF Reasons
<1> QED
  BY <1>1, <1>2, <1>3 DEF Get

LEMMA ListIInv == IInv /\ List => IInv'
<1> SUFFICES ASSUME IInv, List PROVE IInv'
  OBVIOUS
<1>0. /\ worker \in WorkerType /\ users' \in [Ids -> UserType]
      /\ pending' \in BOOLEAN /\ UNCHANGED <<crLog, pending, added, deps>>
  BY DEF List, IInv, TypeOK
<1>1. CASE worker' = [worker EXCEPT !.pc = "create"] /\ UNCHANGED budget
  BY <1>0, <1>1, WorkerOnly DEF IInv, TypeOK, WorkerType
<1>2. ASSUME NEW page \in Pages, NEW id \in Matches(page, worker.spec),
             worker' = WithUser(worker, id), UNCHANGED budget
      PROVE  IInv'
  <2>1. id \in Ids
    BY DEF Pages, Matches, Live
  <2> QED
    BY <1>0, <1>2, <2>1, WithUserStatus, WorkerOnly DEF IInv, TypeOK
<1>3. CASE Faulty("List") /\ worker' = SetNotReady(worker, "ListFailed")
  BY <1>0, <1>3, FaultyBudget, FailedCall DEF Reasons
<1> QED
  BY <1>1, <1>2, <1>3 DEF List

LEMMA CreateIInv == IInv /\ CreateServiceUser => IInv'
<1> SUFFICES ASSUME IInv, CreateServiceUser PROVE IInv'
  OBVIOUS
<1>0. /\ worker \in WorkerType /\ users \in [Ids -> UserType]
      /\ pending' \in BOOLEAN /\ UNCHANGED <<crLog, pending, added, deps>>
  BY DEF CreateServiceUser, IInv, TypeOK
<1>1. ASSUME NEW id \in Ids, CreateAt(id)
      PROVE  users' \in [Ids -> UserType]
  <2>1. worker.spec.username \in Usernames \cup {None}
    BY <1>0 DEF WorkerType, SpecType
  <2>2. users[id] \in UserType
    BY <1>0
  <2> DEFINE u == [users[id] EXCEPT !.state = "live", !.name = worker.spec.username]
  <2>3. u \in UserType
    BY <2>1, <2>2 DEF UserType
  <2>4. users' = [users EXCEPT ![id] = u]
    BY <1>0, <1>1, <2>2 DEF CreateAt, UserType
  <2> HIDE DEF u
  <2> QED
    BY <1>0, <2>3, <2>4
<1>2. ASSUME NEW id \in Ids, CreateAt(id), worker' = WithUser(worker, id),
             UNCHANGED budget
      PROVE  IInv'
  BY <1>0, <1>1, <1>2, WithUserStatus, WorkerOnly DEF IInv, TypeOK
<1>3. CASE /\ Faulty("Create")
           /\ worker' = SetNotReady(worker, "CreateFailed")
           /\ UNCHANGED users
  BY <1>0, <1>3, FaultyBudget, FailedCall DEF Reasons
<1>4. ASSUME NEW id \in Ids, CreateAt(id), Faulty("CreateResponse"),
             worker' = SetNotReady(worker, "CreateFailed")
      PROVE  IInv'
  BY <1>0, <1>1, <1>4, FaultyBudget, FailedCall DEF Reasons
<1> QED
  BY <1>2, <1>3, <1>4 DEF CreateServiceUser

LEMMA PatchIInv == IInv /\ PatchDisplayName => IInv'
<1> SUFFICES ASSUME IInv, PatchDisplayName PROVE IInv'
  OBVIOUS
<1>0. /\ worker \in WorkerType /\ users \in [Ids -> UserType]
      /\ pending' \in BOOLEAN /\ UNCHANGED <<crLog, pending, added, deps>>
  BY DEF PatchDisplayName, IInv, TypeOK
<1>1. CASE /\ worker.id \in Live
           /\ users' = [users EXCEPT ![worker.id].display = worker.spec.display]
           /\ worker' = [worker EXCEPT !.pc = "keys"]
           /\ UNCHANGED budget
  <2>1. worker.id \in Ids /\ worker.spec.display \in DisplayNames \cup {None}
    BY <1>0, <1>1 DEF Live, WorkerType, SpecType
  <2>2. [users[worker.id] EXCEPT !.display = worker.spec.display] \in UserType
    BY <1>0, <2>1 DEF UserType
  <2>3. users' \in [Ids -> UserType]
    BY <1>0, <1>1, <2>1, <2>2
  <2> QED
    BY <1>0, <1>1, <2>3, WorkerOnly DEF IInv, TypeOK, WorkerType
<1>2. CASE /\ worker' = SetNotReady(worker, "PatchFailed")
           /\ UNCHANGED <<users, budget>>
  BY <1>0, <1>2, FailedCall DEF IInv, TypeOK, Reasons
<1>3. CASE /\ Faulty("Patch")
           /\ worker' = SetNotReady(worker, "PatchFailed")
           /\ UNCHANGED users
  BY <1>0, <1>3, FaultyBudget, FailedCall DEF Reasons
<1> QED
  BY <1>1, <1>2, <1>3 DEF PatchDisplayName

\* A kid is claimed in the same step in which Keyline associated it.
LEMMA AssociateIInv == ASSUME NEW kid \in Kids, IInv, Associate(kid) PROVE IInv'
<1>0. /\ worker \in WorkerType /\ users \in [Ids -> UserType]
      /\ added \subseteq Ids \X Kids /\ deps' \in {"ok"} \cup NotOk
      /\ pending' \in BOOLEAN /\ UNCHANGED <<crLog, pending, deps>>
  BY DEF Associate, IInv, TypeOK
<1>1. /\ UNCHANGED budget => budget' \in [BudgetKinds -> Nat]
      /\ \A call : Faulty(call) => budget' \in [BudgetKinds -> Nat]
  BY FaultyBudget DEF IInv, TypeOK
<1> DEFINE Done == /\ ~AssociateRefused(worker.id, kid)
                   /\ AssociateAt(worker.id, kid, worker.spec.keys[kid])
                   /\ added' = added \cup {<<worker.id, kid>>}
<1>2. ASSUME Done
      PROVE  /\ users' \in [Ids -> UserType]
             /\ added \subseteq added' /\ added' \subseteq Ids \X Kids
             /\ AddedKids \subseteq AddedKids' /\ kid \in AddedKids'
  <2>1. worker.id \in Ids /\ worker.spec.keys[kid] \in Pems \cup {None}
    BY <1>0, <1>2 DEF AssociateRefused, Live, WorkerType, SpecType
  <2>2. users[worker.id] \in UserType
    BY <1>0, <2>1
  <2> DEFINE ks == [users[worker.id].keys EXCEPT ![kid] = worker.spec.keys[kid]]
  <2>3. ks \in [Kids -> Pems \cup {None}]
    BY <2>1, <2>2 DEF UserType
  <2>4. users' = [users EXCEPT ![worker.id] = [@ EXCEPT !.keys = ks]]
    BY <1>0, <1>2, <2>1, <2>2 DEF AssociateAt, UserType
  <2> HIDE DEF ks
  <2>5. [users[worker.id] EXCEPT !.keys = ks] \in UserType
    BY <2>2, <2>3 DEF UserType
  <2>6. users' \in [Ids -> UserType]
    BY <1>0, <2>1, <2>4, <2>5
  <2>7. added' \subseteq Ids \X Kids /\ <<worker.id, kid>> \in added'
    BY <1>0, <1>2, <2>1
  <2>8. AddedKids \subseteq AddedKids' /\ kid \in AddedKids'
    <3>1. \A pair \in added' : pair[2] \in AddedKids'
      BY DEF AddedKids
    <3>2. <<worker.id, kid>>[2] \in AddedKids'
      BY <2>7, <3>1
    <3>3. \A k \in AddedKids : \E pair \in added : k = pair[2]
      BY DEF AddedKids
    <3> QED
      BY <1>2, <3>1, <3>2, <3>3
  <2> QED
    BY <1>2, <2>6, <2>7, <2>8
<1>3. /\ worker.base.managed \subseteq AddedKids
      /\ worker.cur.managed \subseteq AddedKids
  BY DEF IInv, ClaimsOnlyOwnKeys
<1>4. CASE Done /\ worker' = Claim(worker, kid) /\ UNCHANGED budget
  <2> DEFINE c == [worker.cur EXCEPT !.managed = worker.cur.managed \cup {kid}]
  <2>1. c \in StatusType /\ c.managed = worker.cur.managed \cup {kid}
    BY <1>0 DEF WorkerType, StatusType
  <2>2. worker' = [worker EXCEPT !.cur = c]
    BY <1>0, <1>4 DEF Claim, WorkerType, StatusType
  <2> HIDE DEF c
  <2>3. worker' \in WorkerType /\ worker'.base = worker.base /\ worker'.cur = c
    BY <1>0, <2>1, <2>2 DEF WorkerType
  <2> HIDE DEF Done
  <2> QED
    BY <1>0, <1>1, <1>2, <1>3, <1>4, <2>1, <2>3, StepOffLog
<1>5. CASE worker' = AssociateFailed(worker, kid) /\ UNCHANGED <<users, added, budget>>
  BY <1>0, <1>5, FailedCall DEF IInv, TypeOK, Reasons, AssociateFailed
<1>6. CASE /\ Faulty("Associate") /\ worker' = AssociateFailed(worker, kid)
           /\ UNCHANGED <<users, added>>
  BY <1>0, <1>1, <1>6, FailedCall DEF Reasons, AssociateFailed
<1>7. CASE /\ Faulty("AssociateResponse") /\ Done
           /\ worker' = AssociateFailed(worker, kid)
  <2>1. /\ worker' \in WorkerType /\ worker'.base = worker.base
        /\ worker'.cur.managed = worker.cur.managed
    BY <1>0, <1>7, SetNotReadyStatus DEF AssociateFailed, Reasons
  <2> HIDE DEF Done
  <2> QED
    BY <1>0, <1>1, <1>2, <1>3, <1>7, <2>1, StepOffLog
<1> QED
  BY <1>4, <1>5, <1>6, <1>7 DEF Associate

LEMMA RemoveAtType ==
    ASSUME users \in [Ids -> UserType], NEW id, NEW kid, RemoveAt(id, kid)
    PROVE  users' \in [Ids -> UserType]
<1>1. CASE id \in Live
  <2>1. id \in Ids /\ users[id] \in UserType
    BY <1>1 DEF Live
  <2> DEFINE ks == [users[id].keys EXCEPT ![kid] = None]
  <2>2. ks \in [Kids -> Pems \cup {None}]
    BY <2>1 DEF UserType
  <2>3. users' = [users EXCEPT ![id] = [@ EXCEPT !.keys = ks]]
    BY <1>1, <2>1 DEF RemoveAt, UserType
  <2> HIDE DEF ks
  <2>4. [users[id] EXCEPT !.keys = ks] \in UserType
    BY <2>1, <2>2 DEF UserType
  <2> QED
    BY <2>1, <2>3, <2>4
<1>2. CASE id \notin Live
  BY <1>2 DEF RemoveAt
<1> QED
  BY <1>1, <1>2

LEMMA RemoveIInv == ASSUME NEW kid \in Kids, IInv, Remove(kid) PROVE IInv'
<1>0. /\ worker \in WorkerType /\ users \in [Ids -> UserType]
      /\ pending' \in BOOLEAN /\ UNCHANGED <<crLog, pending, added, deps>>
  BY DEF Remove, IInv, TypeOK
<1>1. CASE /\ RemoveAt(worker.id, kid)
           /\ worker' = [worker EXCEPT !.gone = @ \cup {kid}]
           /\ UNCHANGED budget
  <2>1. /\ worker' \in WorkerType /\ worker'.base = worker.base
        /\ worker'.cur.managed = worker.cur.managed
    BY <1>0, <1>1 DEF WorkerType
  <2> QED
    BY <1>0, <1>1, <2>1, RemoveAtType, WorkerOnly DEF IInv, TypeOK
<1>2. CASE /\ Faulty("Remove")
           /\ worker' = SetNotReady(worker, "RemoveKeyFailed")
           /\ UNCHANGED users
  BY <1>0, <1>2, FaultyBudget, FailedCall DEF Reasons
<1>3. CASE /\ Faulty("RemoveResponse")
           /\ RemoveAt(worker.id, kid)
           /\ worker' = SetNotReady(worker, "RemoveKeyFailed")
  BY <1>0, <1>3, RemoveAtType, FaultyBudget, FailedCall DEF Reasons
<1> QED
  BY <1>1, <1>2, <1>3 DEF Remove

LEMMA FinishIInv == IInv /\ FinishKeys => IInv'
<1> SUFFICES ASSUME IInv, FinishKeys PROVE IInv'
  OBVIOUS
<1> DEFINE cur == [worker.cur EXCEPT !.managed = Kept(worker)]
           ready == setReadyCondition(cur, "Synced")
<1>1. worker \in WorkerType /\ worker.cur.managed \subseteq AddedKids
      /\ worker.base.managed \subseteq AddedKids
  BY DEF IInv, TypeOK, ClaimsOnlyOwnKeys
<1>2. cur \in StatusType /\ cur.managed \subseteq worker.cur.managed
  BY <1>1 DEF WorkerType, StatusType, Kept
<1> HIDE DEF cur
<1>3. ready \in StatusType /\ ready.managed = cur.managed
  BY <1>2 DEF StatusType, setReadyCondition, Reasons
<1> HIDE DEF ready
<1>4. worker' = [worker EXCEPT !.pc = "status", !.cur = ready]
  BY DEF FinishKeys, cur, ready
<1>5. /\ worker' \in WorkerType /\ worker'.base = worker.base
      /\ worker'.cur = ready
  BY <1>1, <1>3, <1>4 DEF WorkerType
<1>6. AddedKids' = AddedKids
  BY DEF FinishKeys, AddedKids
<1> QED
  BY <1>1, <1>2, <1>3, <1>5, <1>6, StepOffLog DEF FinishKeys, IInv, TypeOK

\* A step that stores v and may replace the worker's state by Idle.
LEMMA StepOnLog ==
    ASSUME IInv, UNCHANGED <<users, deps, added>>, LogType',
           \A i \in DOMAIN crLog' : crLog'[i].status.managed \subseteq AddedKids',
           pending' \in BOOLEAN, budget' \in [BudgetKinds -> Nat],
           worker' \in {worker, Idle}
    PROVE  IInv'
<1>1. AddedKids' = AddedKids
  BY DEF AddedKids
<1>2. Idle \in WorkerType /\ Idle.base.managed = {} /\ Idle.cur.managed = {}
  BY ConstantTypes DEF Idle, EmptyStatus
<1>3. /\ worker' \in WorkerType /\ worker'.base.managed \subseteq AddedKids'
      /\ worker'.cur.managed \subseteq AddedKids'
  BY <1>1, <1>2 DEF IInv, TypeOK, ClaimsOnlyOwnKeys
<1> QED
  BY <1>3 DEF IInv, TypeOK, LogType, ClaimsOnlyOwnKeys

LEMMA StatusPatchIInv == IInv /\ StatusPatch => IInv'
<1> SUFFICES ASSUME IInv, StatusPatch PROVE IInv'
  OBVIOUS
<1>0. /\ UNCHANGED <<users, deps, added>> /\ pending' \in BOOLEAN
      /\ worker' \in {worker, Idle} /\ LogType
      /\ budget \in [BudgetKinds -> Nat]
  BY DEF StatusPatch, Return, IInv, TypeOK, LogType
<1>1. budget' \in [BudgetKinds -> Nat]
  BY <1>0, FaultyBudget DEF StatusPatch
<1>2. CASE UNCHANGED crLog
  <2>1. \A i \in DOMAIN crLog' : crLog'[i].status.managed \subseteq AddedKids'
    BY <1>0, <1>2, LogClaimsKept DEF IInv
  <2>2. LogType'
    BY <1>0, <1>2 DEF LogType
  <2> QED
    BY <1>0, <1>1, <2>1, <2>2, StepOnLog
<1>3. CASE Publish([Stored EXCEPT !.status = Patched])
  <2> DEFINE v == [Stored EXCEPT !.status = Patched]
  <2>1. /\ Stored \in VersionType
        /\ Stored.status.managed \subseteq AddedKids
        /\ worker \in WorkerType
        /\ worker.cur.managed \subseteq AddedKids
    BY <1>0, EndsOfLog DEF IInv, TypeOK, ClaimsOnlyOwnKeys, Stored
  <2>2. /\ worker.base \in StatusType /\ worker.cur \in StatusType
        /\ Stored.status \in StatusType
    BY <2>1 DEF WorkerType, VersionType
  <2>3. Patched \in StatusType /\ Patched.managed \subseteq AddedKids
    BY <2>1, <2>2, MergeFromStatus DEF Patched
  <2>4. v \in VersionType /\ v.status = Patched
    BY <2>1, <2>3 DEF VersionType
  <2> HIDE DEF v
  <2>5. /\ LogType'
        /\ \A i \in DOMAIN crLog' : crLog'[i].status.managed \subseteq AddedKids'
    BY <1>0, <1>3, <2>3, <2>4, PublishClaims DEF v
  <2> QED
    BY <1>0, <1>1, <2>5, StepOnLog
<1> QED
  BY <1>2, <1>3 DEF StatusPatch

LEMMA DeliverIInv == IInv /\ Deliver => IInv'
<1> SUFFICES ASSUME IInv, Deliver PROVE IInv'
  OBVIOUS
<1>1. /\ Tail(crLog) \in Seq(VersionType)
      /\ Len(Tail(crLog)) = Len(crLog) - 1
      /\ \A i \in 1 .. Len(crLog) - 1 : Tail(crLog)[i] = crLog[i + 1]
  BY DEF IInv, TypeOK, Deliver
<1>2. LogType'
  BY <1>1, BoundsAssumption DEF IInv, TypeOK, Deliver, LogType
<1>3. AddedKids' = AddedKids
  BY DEF AddedKids, Deliver
<1>4. \A i \in DOMAIN crLog' : crLog'[i].status.managed \subseteq AddedKids'
  <2>1. \A i \in DOMAIN crLog' : i + 1 \in DOMAIN crLog /\ crLog'[i] = crLog[i + 1]
    BY <1>1 DEF Deliver, IInv, TypeOK
  <2> QED
    BY <1>3, <2>1 DEF IInv, ClaimsOnlyOwnKeys
<1> QED
  BY <1>2, <1>4, StepOnLog DEF Deliver, IInv, TypeOK

LEMMA ApplySpecIInv == ASSUME NEW s \in Specs, IInv, ApplySpec(s) PROVE IInv'
<1> DEFINE v == IF Stored.present THEN [Stored EXCEPT !.spec = s] ELSE Present(s)
<1>1. /\ Stored \in VersionType /\ Stored.status.managed \subseteq AddedKids
      /\ s \in SpecType
  BY EndsOfLog, SpecsAssumption
  DEF IInv, TypeOK, LogType, ClaimsOnlyOwnKeys, Stored
<1>2. v \in VersionType /\ v.status.managed \subseteq AddedKids
  <2>1. Present(s) \in VersionType /\ Present(s).status.managed = {}
    BY ConstantTypes DEF Present, EmptyStatus
  <2>2. /\ [Stored EXCEPT !.spec = s] \in VersionType
        /\ [Stored EXCEPT !.spec = s].status = Stored.status
    BY <1>1 DEF VersionType
  <2> QED
    BY <1>1, <2>1, <2>2
<1>3. Publish(v) /\ UNCHANGED <<worker, users, deps, added>>
  BY DEF ApplySpec
<1> HIDE DEF v
<1>4. /\ LogType'
      /\ \A i \in DOMAIN crLog' : crLog'[i].status.managed \subseteq AddedKids'
  BY <1>2, <1>3, PublishClaims
<1>5. pending' \in BOOLEAN /\ budget' \in [BudgetKinds -> Nat]
  BY SpendType DEF ApplySpec, Enqueue, IInv, TypeOK, BudgetKinds
<1> QED
  BY <1>3, <1>4, <1>5, StepOnLog

LEMMA DeleteObjectIInv == IInv /\ DeleteObject => IInv'
<1> SUFFICES ASSUME IInv, DeleteObject PROVE IInv'
  OBVIOUS
<1>1. Absent \in VersionType /\ Absent.status.managed = {}
  BY ConstantTypes DEF Absent, EmptyStatus
<1>2. /\ LogType'
      /\ \A i \in DOMAIN crLog' : crLog'[i].status.managed \subseteq AddedKids'
  BY <1>1, PublishClaims DEF DeleteObject
<1>3. pending' \in BOOLEAN /\ budget' \in [BudgetKinds -> Nat]
  BY SpendType DEF DeleteObject, Enqueue, IInv, TypeOK, BudgetKinds
<1> QED
  BY <1>2, <1>3, StepOnLog DEF DeleteObject

LEMMA CrashIInv == IInv /\ Crash => IInv'
<1> SUFFICES ASSUME IInv, Crash PROVE IInv'
  OBVIOUS
<1>1. Stored \in VersionType /\ Stored.status.managed \subseteq AddedKids
  BY EndsOfLog DEF IInv, TypeOK, LogType, ClaimsOnlyOwnKeys, Stored
<1>2. AddedKids' = AddedKids
  BY DEF AddedKids, Crash
<1>3. LogType' /\ \A i \in DOMAIN crLog' : crLog'[i] = Stored
  BY <1>1, BoundsAssumption DEF Crash, LogType
<1>4. pending' \in BOOLEAN /\ budget' \in [BudgetKinds -> Nat]
  BY <1>1, SpendType DEF Crash, IInv, TypeOK, BudgetKinds, VersionType
<1> QED
  BY <1>1, <1>2, <1>3, <1>4, StepOnLog DEF Crash

\* What others do in Keyline or to the objects the user depends on.
LEMMA OthersIInv ==
    ASSUME IInv,
           \/ DepsChange
           \/ \E id \in Ids : DeleteUser(id)
           \/ \E id \in Ids, kid \in OthersKids, pem \in Pems :
                  AssociateOutOfBand(id, kid, pem)
    PROVE  IInv'
<1>0. /\ worker \in WorkerType /\ users \in [Ids -> UserType]
      /\ deps \in {"ok"} \cup NotOk /\ pending \in BOOLEAN
      /\ added \subseteq Ids \X Kids
      /\ worker.base.managed \subseteq AddedKids
      /\ worker.cur.managed \subseteq AddedKids
  BY DEF IInv, TypeOK, ClaimsOnlyOwnKeys
<1>1. CASE DepsChange
  <2>1. budget' \in [BudgetKinds -> Nat] /\ deps' \in {"ok"} \cup NotOk
    BY <1>1, SpendType, EnvironmentAssumption DEF DepsChange, IInv, TypeOK, BudgetKinds
  <2>2. AddedKids' = AddedKids
    BY <1>1 DEF DepsChange, AddedKids
  <2> QED
    BY <1>0, <1>1, <2>1, <2>2, StepOffLog DEF DepsChange
<1>2. ASSUME NEW id \in Ids, DeleteUser(id) PROVE IInv'
  <2>1. budget' \in [BudgetKinds -> Nat]
    BY <1>2, SpendType DEF DeleteUser, IInv, TypeOK, BudgetKinds
  <2>2. users' \in [Ids -> UserType]
    BY <1>0, <1>2, ConstantTypes DEF DeleteUser
  <2> QED
    BY <1>0, <1>2, <2>1, <2>2, WorkerOnly DEF DeleteUser
<1>3. ASSUME NEW id \in Ids, NEW kid \in OthersKids, NEW pem \in Pems,
             AssociateOutOfBand(id, kid, pem)
      PROVE  IInv'
  <2>1. budget' \in [BudgetKinds -> Nat]
    BY <1>3, SpendType DEF AssociateOutOfBand, IInv, TypeOK, BudgetKinds
  <2> DEFINE ks == [users[id].keys EXCEPT ![kid] = pem]
  <2>2. users[id] \in UserType /\ ks \in [Kids -> Pems \cup {None}]
    BY <1>0 DEF UserType
  <2>3. users' = [users EXCEPT ![id] = [@ EXCEPT !.keys = ks]]
    BY <1>0, <1>3, <2>2 DEF AssociateOutOfBand, UserType
  <2> HIDE DEF ks
  <2>4. [users[id] EXCEPT !.keys = ks] \in UserType
    BY <2>2 DEF UserType
  <2>5. users' \in [Ids -> UserType]
    BY <1>0, <2>3, <2>4
  <2> QED
    BY <1>0, <1>3, <2>1, <2>5, WorkerOnly DEF AssociateOutOfBand
<1> QED
  BY <1>1, <1>2, <1>3

\* The invariant is preserved by every step.
LEMMA NextIInv == IInv /\ [Next]_vars => IInv'
<1> SUFFICES ASSUME IInv, [Next]_vars PROVE IInv'
  OBVIOUS
<1>1. CASE Reconcile
  BY <1>1, BeginIInv, GetIInv, ListIInv, CreateIInv, PatchIInv, AssociateIInv,
     RemoveIInv, FinishIInv, StatusPatchIInv DEF Reconcile
<1>2. CASE Deliver
  BY <1>2, DeliverIInv
<1>3. CASE Environment
  BY <1>3, ApplySpecIInv, DeleteObjectIInv, CrashIInv, OthersIInv DEF Environment
<1>4. CASE UNCHANGED vars
  BY <1>4 DEF vars, IInv, TypeOK, ClaimsOnlyOwnKeys, AddedKids
<1> QED
  BY <1>1, <1>2, <1>3, <1>4 DEF Next

-----------------------------------------------------------------------------
(* Which steps take a key away *)

\* A key disappears from a user that stays only in the removal loop, and only
\* a kid that the running pass's status claims.
LEMMA OnlyRemoveRemoves ==
    ASSUME IInv, [Next]_vars, NEW id \in Ids, NEW kid \in Kids, KeyRemoved(id, kid)
    PROVE  kid \in AddedKids
<1>0. users \in [Ids -> UserType] /\ worker \in WorkerType
  BY DEF IInv, TypeOK
<1>1. users[id] \in UserType /\ users[id].keys[kid] # users'[id].keys[kid]
  BY <1>0 DEF KeyRemoved
<1>2. ~UNCHANGED users
  BY <1>1
<1>3. ASSUME NEW i \in Ids, CreateAt(i) PROVE FALSE
  <2>1. users'[id].keys = users[id].keys
    BY <1>0, <1>1, <1>3 DEF CreateAt, UserType
  <2> QED
    BY <1>1, <2>1
<1>4. CASE PatchDisplayName
  <2>1. users'[id].keys = users[id].keys
    BY <1>0, <1>1, <1>4 DEF PatchDisplayName, UserType
  <2> QED
    BY <1>1, <2>1
<1>5. ASSUME NEW k \in Kids, Associate(k) PROVE FALSE
  <2>1. AssociateAt(worker.id, k, worker.spec.keys[k]) /\ worker.spec.keys[k] # None
    BY <1>2, <1>5 DEF Associate, ToAssociate, Desired
  <2>2. users'[id].keys[kid] \in {users[id].keys[kid], worker.spec.keys[k]}
    BY <1>0, <1>1, <2>1 DEF AssociateAt, UserType
  <2> QED
    BY <1>1, <2>1, <2>2 DEF KeyRemoved
<1>6. ASSUME NEW k \in Kids, Remove(k) PROVE kid \in AddedKids
  <2>1. k \in worker.cur.managed
    BY <1>6 DEF Remove, ToRemove
  <2>2. RemoveAt(worker.id, k)
    BY <1>2, <1>6 DEF Remove
  <2>3. kid = k
    BY <1>0, <1>1, <2>2 DEF RemoveAt, UserType
  <2> QED
    BY <2>1, <2>3 DEF IInv, ClaimsOnlyOwnKeys
<1>7. ASSUME NEW i \in Ids, DeleteUser(i) PROVE FALSE
  <2>1. CASE i = id
    BY <1>0, <1>7, <2>1 DEF DeleteUser, KeyRemoved, Unused
  <2>2. CASE i # id
    BY <1>0, <1>1, <1>7, <2>2 DEF DeleteUser
  <2> QED
    BY <2>1, <2>2
<1>8. ASSUME NEW i \in Ids, NEW k \in OthersKids, NEW pem \in Pems,
             AssociateOutOfBand(i, k, pem)
      PROVE  FALSE
  <2>1. users'[id].keys[kid] \in {users[id].keys[kid], pem}
    BY <1>0, <1>1, <1>8 DEF AssociateOutOfBand, UserType
  <2> QED
    BY <1>1, <2>1, NoneAssumption DEF KeyRemoved
<1> QED
  BY <1>2, <1>3, <1>4, <1>5, <1>6, <1>7, <1>8
  DEF Next, Reconcile, Environment, vars, Begin, Get, List, CreateServiceUser,
      FinishKeys, StatusPatch, Deliver, ApplySpec, DeleteObject, Crash, DepsChange

-----------------------------------------------------------------------------
(* Theorems *)

LEMMA Invariant == Spec => []IInv
  BY InitIInv, NextIInv, PTL DEF Spec

\* The variables always have the values TypeOK gives them: in particular the
\* operator never records a condition, an id or a claim of another kind.
THEOREM TypeCorrect == Spec => []TypeOK
<1>1. IInv => TypeOK
  BY DEF IInv
<1> QED
  BY <1>1, Invariant, PTL

\* status.managedKeyIds never lists a kid that the operator did not have
\* associated: whatever fails, crashes or is read from an outdated cache, and
\* whatever object of the same name a late status patch reaches.
THEOREM ClaimsAreOwn == Spec => []ClaimsOnlyOwnKeys
<1>1. IInv => ClaimsOnlyOwnKeys
  BY DEF IInv
<1> QED
  BY <1>1, Invariant, PTL

\* No step takes away a key whose kid the operator never had associated: the
\* keys that others associate under kids of their own are left untouched.
THEOREM ForeignKidsUntouched == Spec => RemovesOnlyAddedKids
<1>1. IInv /\ [Next]_vars =>
        [\A id \in Ids, kid \in Kids : KeyRemoved(id, kid) => kid \in AddedKids]_vars
  BY OnlyRemoveRemoves
<1> QED
  BY <1>1, Invariant, PTL DEF Spec, RemovesOnlyAddedKids

=============================================================================
