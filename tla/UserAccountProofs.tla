--------------------------- MODULE UserAccountProofs ---------------------------
(***************************************************************************)
(* Proofs about the service user that UserController creates, finds and    *)
(* forgets: there is one of a name, and it is a NamedResource.             *)
(***************************************************************************)
EXTENDS UserControllerProofs, FiniteSetTheorems

\* The page that the search asks for holds all of Keyline's users.  Beyond it a
\* user that is not found is created a second time.
PageHoldsAll == IsFiniteSet(Ids) /\ Cardinality(Ids) + OtherUsers < PageSize

LEMMA OnePage ==
    ASSUME PageHoldsAll, NEW page \in Pages
    PROVE  page = Live
<1>1. page \subseteq Ids /\ (page = Live \/ Cardinality(page) + OtherUsers >= PageSize)
  BY DEF Pages, Live
<1>2. /\ Cardinality(page) \in Nat /\ Cardinality(Ids) \in Nat
      /\ Cardinality(page) <= Cardinality(Ids)
  BY <1>1, FS_Subset, FS_CardinalityType DEF PageHoldsAll
<1> QED
  BY <1>1, <1>2, BoundsAssumption DEF PageHoldsAll

-----------------------------------------------------------------------------
(* What a step does to Keyline's users *)

KeepsNames == \A id \in Ids : /\ users'[id].state = users[id].state
                              /\ users'[id].name = users[id].name

\* Display names and keys are not the name.
LEMMA PatchKeepsNames == IInv /\ PatchDisplayName => KeepsNames
<1> SUFFICES ASSUME IInv, PatchDisplayName PROVE KeepsNames
  OBVIOUS
<1>1. \/ UNCHANGED users
      \/ users' = [users EXCEPT ![worker.id].display = worker.spec.display]
  BY DEF PatchDisplayName
<1>2. users \in [Ids -> UserType]
  BY DEF IInv, TypeOK
<1> QED
  BY <1>1, <1>2 DEF KeepsNames, UserType

LEMMA KeySetKeepsNames ==
    ASSUME IInv, NEW id, NEW kid, NEW key,
           users' = [users EXCEPT ![id].keys[kid] = key]
    PROVE  KeepsNames
<1>1. users \in [Ids -> UserType]
  BY DEF IInv, TypeOK
<1> QED
  BY <1>1 DEF KeepsNames, UserType

LEMMA KeyStepsKeepNames ==
    ASSUME IInv,
           \/ \E kid \in Kids : Associate(kid) \/ Remove(kid)
           \/ \E id \in Ids, kid \in OthersKids, pem \in Pems :
                  AssociateOutOfBand(id, kid, pem)
    PROVE  KeepsNames
<1>0. UNCHANGED users => KeepsNames
  BY DEF KeepsNames
<1>1. ASSUME NEW kid \in Kids, Associate(kid) PROVE KeepsNames
  <2>1. \/ UNCHANGED users
        \/ users' = [users EXCEPT ![worker.id].keys[kid] = worker.spec.keys[kid]]
    BY <1>1 DEF Associate, AssociateAt
  <2> QED
    BY <1>0, <2>1, KeySetKeepsNames
<1>2. ASSUME NEW kid \in Kids, Remove(kid) PROVE KeepsNames
  <2>1. \/ UNCHANGED users
        \/ users' = [users EXCEPT ![worker.id].keys[kid] = None]
    BY <1>2 DEF Remove, RemoveAt
  <2> QED
    BY <1>0, <2>1, KeySetKeepsNames
<1>3. ASSUME NEW id \in Ids, NEW kid \in OthersKids, NEW pem \in Pems,
             AssociateOutOfBand(id, kid, pem)
      PROVE  KeepsNames
  BY <1>3, KeySetKeepsNames DEF AssociateOutOfBand
<1> QED
  BY <1>1, <1>2, <1>3

LEMMA Created ==
    ASSUME IInv, NEW id \in Ids, CreateAt(id)
    PROVE  /\ users[id].state = "unused"
           /\ users'[id].state = "live" /\ users'[id].name = worker.spec.username
           /\ \A i \in Ids \ {id} : users'[i] = users[i]
           /\ Live' = Live \cup {id}
<1>1. users \in [Ids -> UserType] /\ users[id] \in UserType
  BY DEF IInv, TypeOK
<1>2. /\ users'[id].state = "live" /\ users'[id].name = worker.spec.username
      /\ \A i \in Ids \ {id} : users'[i] = users[i]
  BY <1>1 DEF CreateAt, UserType
<1>3. Live' = Live \cup {id}
  BY <1>2 DEF Live
<1> QED
  BY <1>2, <1>3 DEF CreateAt

LEMMA Deleted ==
    ASSUME IInv, NEW id \in Ids, DeleteUser(id)
    PROVE  /\ users'[id].state = "deleted" /\ id \in Live
           /\ \A i \in Ids \ {id} : users'[i] = users[i]
           /\ Live' = Live \ {id}
<1>1. users \in [Ids -> UserType]
  BY DEF IInv, TypeOK
<1>2. users'[id].state = "deleted" /\ \A i \in Ids \ {id} : users'[i] = users[i]
  BY <1>1 DEF DeleteUser, Unused
<1>3. Live' = Live \ {id}
  BY <1>2 DEF Live
<1> QED
  BY <1>2, <1>3 DEF DeleteUser

\* The steps by what they do to Keyline's users.
LEMMA StepsOnUsers ==
    ASSUME IInv, [Next]_vars
    PROVE  KeepsNames \/ CreateServiceUser \/ \E id \in Ids : DeleteUser(id)
<1>1. UNCHANGED users => KeepsNames
  BY DEF KeepsNames
<1> QED
  BY <1>1, PatchKeepsNames, KeyStepsKeepNames
  DEF Next, Reconcile, Environment, vars, Begin, Get, List, FinishKeys, StatusPatch,
      Deliver, ApplySpec, DeleteObject, Crash, DepsChange

-----------------------------------------------------------------------------
(* One user of a name *)

\* Between the search and the creation nobody else creates a user of the name.
NameFree ==
    worker.pc = "create" => \A id \in Live : users[id].name # worker.spec.username

NInv == IInv /\ NoDuplicateUsers /\ NameFree

\* A pass is about to create a user after a search, or because it was already.
LEMMA ReachesCreate ==
    ASSUME IInv, [Next]_vars, worker'.pc = "create"
    PROVE  worker' = worker \/ List
<1>0. worker \in WorkerType /\ Idle.pc = "idle"
  BY DEF IInv, TypeOK, Idle
<1>1. \A w \in WorkerType : \A reason : SetNotReady(w, reason).pc = "status"
  BY DEF SetNotReady, WorkerType
<1>2. \A w \in WorkerType : \A id : WithUser(w, id).pc # "create"
  BY DEF WithUser, WorkerType
<1>3. ForgetUser(worker).pc = "list"
  BY <1>0 DEF ForgetUser, WorkerType
<1>4. ~Begin
  <2> SUFFICES ASSUME Begin PROVE FALSE
    OBVIOUS
  <2> DEFINE w == [Idle EXCEPT !.spec = Cached.spec, !.base = Cached.status,
                               !.cur = Cached.status]
  <2>1. Cached \in VersionType
    BY EndsOfLog DEF IInv, TypeOK, LogType
  <2>2. w \in WorkerType
    BY <2>1, ConstantTypes DEF WorkerType, VersionType
  <2>3. worker' \in {worker, SetNotReady(w, deps), [w EXCEPT !.pc = FirstCall(Cached.status)]}
        /\ worker.pc = "idle"
    BY DEF Begin
  <2> HIDE DEF w
  <2>4. [w EXCEPT !.pc = FirstCall(Cached.status)].pc # "create"
    BY <2>2 DEF WorkerType, FirstCall
  <2> QED
    BY <1>1, <2>2, <2>3, <2>4
<1>5. ~Get /\ ~CreateServiceUser
  BY <1>0, <1>1, <1>2, <1>3 DEF Get, CreateServiceUser
<1>6. ~PatchDisplayName
  BY <1>0, <1>1 DEF PatchDisplayName, WorkerType
<1>7. \A kid \in Kids : ~Associate(kid)
  <2>1. \A kid \in Kids : Claim(worker, kid).pc = worker.pc
    BY <1>0 DEF Claim, WorkerType
  <2> QED
    BY <1>0, <1>1, <2>1 DEF Associate, AssociateFailed
<1>8. \A kid \in Kids : ~Remove(kid)
  BY <1>0, <1>1 DEF Remove, WorkerType
<1>9. ~FinishKeys /\ ~StatusPatch /\ ~Crash
  BY <1>0 DEF FinishKeys, StatusPatch, Return, Crash, WorkerType
<1> QED
  BY <1>4, <1>5, <1>6, <1>7, <1>8, <1>9
  DEF Next, Reconcile, Environment, vars, Deliver, ApplySpec, DeleteObject,
      DepsChange, DeleteUser, AssociateOutOfBand

LEMMA NextNInv == ASSUME PageHoldsAll PROVE NInv /\ [Next]_vars => NInv'
<1> SUFFICES ASSUME NInv, [Next]_vars PROVE NInv'
  OBVIOUS
<1>0. IInv'
  BY NextIInv DEF NInv
<1>1. NoDuplicateUsers'
  <2>1. CASE KeepsNames
    BY <2>1 DEF KeepsNames, NInv, NoDuplicateUsers, Live
  <2>2. CASE \E id \in Ids : DeleteUser(id)
    <3> PICK id \in Ids : DeleteUser(id)
      BY <2>2
    <3>1. Live' \subseteq Live /\ \A i \in Live' : users'[i] = users[i]
      BY Deleted DEF NInv, Live
    <3> QED
      BY <3>1 DEF NInv, NoDuplicateUsers
  <2>3. CASE CreateServiceUser
    <3>1. CASE UNCHANGED users
      BY <3>1 DEF NInv, NoDuplicateUsers, Live
    <3>2. CASE \E id \in Ids : CreateAt(id)
      <4> PICK id \in Ids : CreateAt(id)
        BY <3>2
      <4>1. \A i \in Live : users[i].name # worker.spec.username
        BY <2>3 DEF NInv, NameFree, CreateServiceUser
      <4>2. /\ users'[id].name = worker.spec.username
            /\ \A i \in Live : i # id /\ users'[i] = users[i]
        BY Created DEF NInv, Live
      <4>3. Live' = Live \cup {id}
        BY Created DEF NInv
      <4> QED
        BY <4>1, <4>2, <4>3 DEF NInv, NoDuplicateUsers
    <3> QED
      BY <2>3, <3>1, <3>2 DEF CreateServiceUser
  <2> QED
    BY <2>1, <2>2, <2>3, StepsOnUsers DEF NInv
<1>2. NameFree'
  <2> SUFFICES ASSUME worker'.pc = "create"
               PROVE  \A id \in Live' : users'[id].name # worker'.spec.username
    BY DEF NameFree
  <2>1. CASE List
    <3>1. worker \in WorkerType /\ UNCHANGED users
      BY <2>1 DEF List, NInv, IInv, TypeOK
    <3>2. \E page \in Pages : /\ Matches(page, worker.spec) = {}
                              /\ worker' = [worker EXCEPT !.pc = "create"]
      <4>1. /\ \A id : WithUser(worker, id).pc # "create"
            /\ SetNotReady(worker, "ListFailed").pc # "create"
        BY <3>1 DEF WithUser, SetNotReady, WorkerType
      <4> QED
        BY <2>1, <4>1 DEF List
    <3>3. Matches(Live, worker.spec) = {} /\ worker'.spec = worker.spec
      BY <3>1, <3>2, OnePage DEF WorkerType
    <3> QED
      BY <3>1, <3>3 DEF Matches, Live
  <2>2. CASE worker' = worker
    <3>1. ~CreateServiceUser
      BY <2>2 DEF CreateServiceUser, WithUser, SetNotReady, NInv, IInv, TypeOK, WorkerType
    <3>2. \A id \in Live' : id \in Live /\ users'[id].name = users[id].name
      BY <3>1, StepsOnUsers, Deleted DEF NInv, KeepsNames, Live
    <3> QED
      BY <2>2, <3>2 DEF NInv, NameFree
  <2> QED
    BY <2>1, <2>2, ReachesCreate DEF NInv
<1> QED
  BY <1>0, <1>1, <1>2 DEF NInv

\* However often the answer to a creation, the status patch or the operator is
\* lost, and whatever the cache says, Keyline gets one user of a name: as long as
\* the page that the search by name asks for holds all users.
THEOREM OneUserPerName ==
    ASSUME PageHoldsAll
    PROVE  Spec => []NoDuplicateUsers
<1>1. Init => NInv
  <2> SUFFICES ASSUME Init PROVE NInv
    OBVIOUS
  <2>1. Live = {} /\ worker.pc = "idle"
    BY DEF Init, Live, Unused, Idle
  <2> QED
    BY <2>1, InitIInv DEF NInv, NoDuplicateUsers, NameFree
<1>2. NInv /\ [Next]_vars => NInv'
  BY NextNInv
<1>3. NInv => NoDuplicateUsers
  BY DEF NInv
<1> QED
  BY <1>1, <1>2, <1>3, PTL DEF Spec

-----------------------------------------------------------------------------
(* The user is a NamedResource, as far as safety goes *)

\* Nothing in the operator renames a user, and the id of a user of the old name
\* would be left behind if a client did: the theorem is about clients that do
\* not.
OneName == \E n \in Usernames : \A s \in Specs : s.username = n

HandedOut == {None} \cup {id \in Ids : users[id].state # "unused"}

VersionOK(v) == /\ v.present => v.spec \in Specs
                /\ v.status.userId \in HandedOut

LogOK == \A i \in DOMAIN crLog : VersionOK(crLog[i])

UsersOK == \A id \in Live : \E s \in Specs : users[id].name = s.username

\* A pass that found or created a user, so that its status patch will replace
\* the id, holds the id of the user that lives, if the stored status has one
\* that does.
PassOK ==
    worker.pc # "idle" =>
        /\ worker.spec \in Specs
        /\ worker.cur.userId \in HandedOut
        /\ worker.pc \in {"list", "create"} => worker.cur.userId = None
        /\ (/\ worker.cur.userId \notin {None, worker.base.userId}
            /\ Stored.status.userId \in Live)
              => Stored.status.userId = worker.cur.userId

AOK == LogOK /\ UsersOK /\ PassOK
AInv == NInv /\ AOK

LEMMA InitAInv == Init => AInv
<1> SUFFICES ASSUME Init PROVE AInv
  OBVIOUS
<1>1. Live = {} /\ worker.pc = "idle"
  BY DEF Init, Live, Unused, Idle
<1>2. NInv
  BY <1>1, InitIInv DEF NInv, NoDuplicateUsers, NameFree
<1>3. LogOK
  BY SpecsAssumption DEF Init, LogOK, VersionOK, HandedOut, Present, EmptyStatus
<1> QED
  BY <1>1, <1>2, <1>3 DEF AInv, AOK, UsersOK, PassOK

\* There is one user at most.
LEMMA OneUser ==
    ASSUME OneName, AInv
    PROVE  \A i, j \in Live : i = j
  BY DEF OneName, AInv, AOK, NInv, NoDuplicateUsers, UsersOK

LEMMA SameUsers ==
    ASSUME AOK, KeepsNames
    PROVE  HandedOut' = HandedOut /\ Live' = Live /\ UsersOK'
  BY DEF AOK, KeepsNames, HandedOut, Live, UsersOK

\* Both ends of the log are such versions.
LEMMA EndsOK ==
    ASSUME AInv
    PROVE  /\ Cached \in VersionType /\ Stored \in VersionType /\ LogType
           /\ VersionOK(Cached) /\ VersionOK(Stored)
<1>1. LogType
  BY DEF AInv, NInv, IInv, TypeOK, LogType
<1> QED
  BY <1>1, EndsOfLog DEF AInv, AOK, LogOK, Stored

\* A step that changes neither the object, nor its pass, nor a user's name.
LEMMA Elsewhere ==
    ASSUME AOK, KeepsNames, UNCHANGED <<crLog, worker>>
    PROVE  AOK'
<1>1. HandedOut' = HandedOut /\ Live' = Live /\ UsersOK' /\ Stored' = Stored
  BY SameUsers DEF Stored
<1> QED
  BY <1>1 DEF AOK, LogOK, VersionOK, PassOK

\* A step of the pass that changes neither its id, nor the object, nor a name.
LEMMA PassGoesOn ==
    ASSUME AOK, KeepsNames, UNCHANGED crLog, worker.pc # "idle",
           worker'.spec = worker.spec, worker'.base = worker.base,
           worker'.cur.userId = worker.cur.userId,
           worker'.pc \in {"list", "create"} => worker.cur.userId = None
    PROVE  AOK'
<1>1. HandedOut' = HandedOut /\ Live' = Live /\ UsersOK' /\ Stored' = Stored
  BY SameUsers DEF Stored
<1> QED
  BY <1>1 DEF AOK, LogOK, VersionOK, PassOK

\* What recording a condition, and finding a user, leave as it is.
LEMMA ConditionKeeps ==
    ASSUME NEW w \in WorkerType, NEW reason
    PROVE  /\ SetNotReady(w, reason).pc = "status"
           /\ SetNotReady(w, reason).spec = w.spec
           /\ SetNotReady(w, reason).base = w.base
           /\ SetNotReady(w, reason).cur.userId = w.cur.userId
  BY DEF SetNotReady, setNotReadyCondition, WorkerType, StatusType

LEMMA WithUserKeeps ==
    ASSUME NEW w \in WorkerType, NEW id
    PROVE  /\ WithUser(w, id).pc \in {"patch", "keys"}
           /\ WithUser(w, id).spec = w.spec
           /\ WithUser(w, id).base = w.base
           /\ WithUser(w, id).cur.userId = id
  BY DEF WithUser, WorkerType, StatusType

LEMMA BeginAOK == ASSUME AInv, Begin PROVE AOK'
<1> DEFINE w == [Idle EXCEPT !.spec = Cached.spec, !.base = Cached.status,
                             !.cur = Cached.status]
<1>0. Cached \in VersionType /\ VersionOK(Cached) /\ AOK /\ UNCHANGED <<crLog, users>>
  BY EndsOK DEF Begin, AInv
<1>1. CASE ~Cached.present
  <2>1. UNCHANGED worker /\ KeepsNames
    BY <1>0, <1>1 DEF Begin, KeepsNames
  <2> QED
    BY <1>0, <2>1, Elsewhere
<1>2. CASE Cached.present
  <2>1. w \in WorkerType /\ w.spec = Cached.spec /\ w.base = Cached.status /\ w.cur = Cached.status
    BY <1>0, ConstantTypes DEF VersionType, WorkerType
  <2>2. worker' \in {SetNotReady(w, deps), [w EXCEPT !.pc = FirstCall(Cached.status)]}
    BY <1>2 DEF Begin
  <2> HIDE DEF w
  <2>3. /\ worker'.spec = w.spec /\ worker'.base = w.base
        /\ worker'.cur.userId = w.cur.userId
        /\ worker'.pc \in {"list", "create"} => w.cur.userId = None
    <3>1. CASE worker' = SetNotReady(w, deps)
      BY <2>1, <3>1, ConditionKeeps
    <3>2. CASE worker' = [w EXCEPT !.pc = FirstCall(Cached.status)]
      BY <2>1, <3>2 DEF WorkerType, FirstCall
    <3> QED
      BY <2>2, <3>1, <3>2
  <2>4. LogOK' /\ UsersOK'
    BY <1>0 DEF AOK, LogOK, VersionOK, HandedOut, UsersOK, Live
  <2>5. PassOK'
    BY <1>0, <1>2, <2>1, <2>3 DEF VersionOK, PassOK, HandedOut
  <2> QED
    BY <2>4, <2>5 DEF AOK
<1> QED
  BY <1>1, <1>2

LEMMA GetAOK == ASSUME AInv, Get PROVE AOK'
<1>0. /\ worker \in WorkerType /\ worker.pc = "get" /\ UNCHANGED <<crLog, users>>
      /\ AOK /\ KeepsNames
  BY DEF AInv, NInv, IInv, TypeOK, Get, KeepsNames
<1>1. CASE worker' = WithUser(worker, worker.cur.userId)
  BY <1>0, <1>1, PassGoesOn, WithUserKeeps
<1>2. CASE worker' = ForgetUser(worker)
  <2>1. worker'.spec = worker.spec /\ worker'.cur.userId = None
    BY <1>0, <1>2 DEF ForgetUser, WorkerType, StatusType
  <2>2. LogOK' /\ UsersOK'
    BY <1>0 DEF AOK, LogOK, VersionOK, HandedOut, UsersOK, Live
  <2>3. PassOK'
    BY <1>0, <2>1 DEF AOK, PassOK, HandedOut
  <2> QED
    BY <2>2, <2>3 DEF AOK
<1>3. CASE worker' = SetNotReady(worker, "GetFailed")
  BY <1>0, <1>3, PassGoesOn, ConditionKeeps
<1> QED
  BY <1>1, <1>2, <1>3 DEF Get

\* A user that is found is the only one there is.
LEMMA ListAOK == ASSUME OneName, AInv, List PROVE AOK'
<1>0. /\ worker \in WorkerType /\ worker.pc = "list" /\ UNCHANGED <<crLog, users>>
      /\ AOK /\ KeepsNames /\ worker.cur.userId = None
  BY DEF AInv, AOK, PassOK, NInv, IInv, TypeOK, List, KeepsNames
<1>1. CASE worker' = [worker EXCEPT !.pc = "create"]
  BY <1>0, <1>1, PassGoesOn DEF WorkerType
<1>2. CASE worker' = SetNotReady(worker, "ListFailed")
  BY <1>0, <1>2, PassGoesOn, ConditionKeeps
<1>3. ASSUME NEW id \in Live, worker' = WithUser(worker, id) PROVE AOK'
  <2>1. /\ worker'.spec = worker.spec /\ worker'.cur.userId = id
        /\ worker'.pc \in {"patch", "keys"}
    BY <1>0, <1>3, WithUserKeeps
  <2>2. LogOK' /\ UsersOK'
    BY <1>0 DEF AOK, LogOK, VersionOK, HandedOut, UsersOK, Live
  <2>3. PassOK'
    BY <1>0, <2>1, OneUser DEF AOK, PassOK, HandedOut, Live, Stored
  <2> QED
    BY <2>2, <2>3 DEF AOK
<1>4. \A page \in Pages : Matches(page, worker.spec) \subseteq Live
  BY DEF Pages, Matches
<1> QED
  BY <1>1, <1>2, <1>3, <1>4 DEF List

\* A user is created only where a search found none, and there is but one name.
LEMMA CreatedAlone ==
    ASSUME OneName, AInv, worker.pc = "create", NEW id \in Ids, CreateAt(id)
    PROVE  /\ Live = {} /\ Live' = {id} /\ UsersOK'
           /\ HandedOut \subseteq HandedOut' /\ id \in HandedOut'
<1>1. /\ users'[id].state = "live" /\ users'[id].name = worker.spec.username
      /\ \A i \in Ids \ {id} : users'[i] = users[i]
      /\ Live' = Live \cup {id}
  BY Created DEF AInv, NInv
<1>2. worker.spec \in Specs
  BY DEF AInv, AOK, PassOK
<1>3. Live = {}
  <2>1. \A i \in Live : users[i].name = worker.spec.username
    BY <1>2 DEF OneName, AInv, AOK, UsersOK
  <2> QED
    BY <2>1 DEF AInv, NInv, NameFree
<1>4. UsersOK'
  BY <1>1, <1>2, <1>3 DEF UsersOK
<1>5. HandedOut \subseteq HandedOut' /\ id \in HandedOut'
  BY <1>1 DEF HandedOut
<1> QED
  BY <1>1, <1>3, <1>4, <1>5

LEMMA CreateAOK == ASSUME OneName, AInv, CreateServiceUser PROVE AOK'
<1>0. /\ worker \in WorkerType /\ worker.pc = "create" /\ worker.spec \in Specs
      /\ worker.cur.userId = None /\ UNCHANGED crLog /\ LogOK /\ AOK
  BY DEF AInv, AOK, PassOK, NInv, IInv, TypeOK, CreateServiceUser
<1>1. ASSUME NEW id \in Ids, CreateAt(id), worker' = WithUser(worker, id)
      PROVE  AOK'
  <2>1. /\ worker'.pc \in {"patch", "keys"} /\ worker'.spec = worker.spec
        /\ worker'.cur.userId = id
    BY <1>0, <1>1, WithUserKeeps
  <2>2. Live' = {id} /\ UsersOK' /\ HandedOut \subseteq HandedOut' /\ id \in HandedOut'
    BY <1>0, <1>1, CreatedAlone
  <2>3. LogOK'
    BY <1>0, <2>2 DEF LogOK, VersionOK
  <2>4. PassOK'
    BY <1>0, <2>1, <2>2 DEF PassOK
  <2> QED
    BY <2>2, <2>3, <2>4 DEF AOK
<1>2. CASE worker' = SetNotReady(worker, "CreateFailed")
  <2>1. /\ worker'.pc = "status" /\ worker'.spec = worker.spec
        /\ worker'.cur.userId = None
    BY <1>0, <1>2, ConditionKeeps
  <2>2. UsersOK' /\ HandedOut \subseteq HandedOut'
    <3>1. CASE UNCHANGED users
      BY <1>0, <3>1 DEF AOK, UsersOK, Live, HandedOut
    <3>2. CASE \E id \in Ids : CreateAt(id)
      BY <1>0, <3>2, CreatedAlone
    <3> QED
      BY <1>2, <3>1, <3>2 DEF CreateServiceUser
  <2>3. LogOK'
    BY <1>0, <2>2 DEF LogOK, VersionOK
  <2>4. PassOK'
    BY <1>0, <2>1, <2>2 DEF PassOK, HandedOut
  <2> QED
    BY <2>2, <2>3, <2>4 DEF AOK
<1> QED
  BY <1>1, <1>2 DEF CreateServiceUser

\* Once it has a user, the pass keeps its id.
KeepsId ==
    /\ worker.pc \in {"patch", "keys"} /\ worker'.pc \in {"keys", "status"}
    /\ worker'.spec = worker.spec /\ worker'.base = worker.base
    /\ worker'.cur.userId = worker.cur.userId
    /\ UNCHANGED crLog

LEMMA WithUserSteps ==
    ASSUME AInv,
           \/ PatchDisplayName \/ FinishKeys
           \/ \E kid \in Kids : Associate(kid) \/ Remove(kid)
    PROVE  KeepsId
<1> USE DEF KeepsId
<1>0. worker \in WorkerType
  BY DEF AInv, NInv, IInv, TypeOK
<1>1. CASE PatchDisplayName
  <2>1. worker' \in {[worker EXCEPT !.pc = "keys"], SetNotReady(worker, "PatchFailed")}
    BY <1>1 DEF PatchDisplayName
  <2> QED
    BY <1>0, <1>1, <2>1, ConditionKeeps DEF PatchDisplayName, WorkerType
<1>2. CASE FinishKeys
  BY <1>0, <1>2 DEF FinishKeys, setReadyCondition, WorkerType, StatusType
<1>3. ASSUME NEW kid \in Kids, Associate(kid) PROVE KeepsId
  <2>1. worker' \in {Claim(worker, kid), SetNotReady(worker, "AssociateKeyFailed")}
    BY <1>3 DEF Associate, AssociateFailed
  <2>2. /\ Claim(worker, kid).pc = worker.pc /\ Claim(worker, kid).spec = worker.spec
        /\ Claim(worker, kid).base = worker.base
        /\ Claim(worker, kid).cur.userId = worker.cur.userId
    BY <1>0 DEF Claim, WorkerType, StatusType
  <2> QED
    BY <1>0, <1>3, <2>1, <2>2, ConditionKeeps DEF Associate
<1>4. ASSUME NEW kid \in Kids, Remove(kid) PROVE KeepsId
  <2>1. worker' \in {[worker EXCEPT !.gone = @ \cup {kid}],
                     SetNotReady(worker, "RemoveKeyFailed")}
    BY <1>4 DEF Remove
  <2> QED
    BY <1>0, <1>4, <2>1, ConditionKeeps DEF Remove, WorkerType
<1> QED
  BY <1>1, <1>2, <1>3, <1>4

\* The patched status has the pass's id if the pass changed it, else the
\* stored one.
LEMMA PatchedId ==
    ASSUME AInv
    PROVE  Patched.userId =
                IF worker.cur.userId # worker.base.userId
                THEN worker.cur.userId ELSE Stored.status.userId
  BY EndsOK DEF VersionType, StatusType, Patched, MergeFrom

\* What a client, or the status patch, stores.
LEMMA StoredVersion ==
    ASSUME AInv, \/ \E s \in Specs : ApplySpec(s)
                 \/ DeleteObject
                 \/ StatusPatch /\ crLog' # crLog
    PROVE  \E v \in VersionType :
            /\ Publish(v)
            /\ v.present => v.spec \in Specs
            /\ v.status.userId \in {None, Stored.status.userId,
                                    IF StatusPatch THEN Patched.userId ELSE None}
<1>0. Stored \in VersionType /\ VersionOK(Stored)
  BY EndsOK
<1>1. CASE DeleteObject
  BY <1>1, ConstantTypes DEF DeleteObject, Absent, EmptyStatus
<1>2. ASSUME NEW s \in Specs, ApplySpec(s)
      PROVE  \E v \in VersionType : /\ Publish(v)
                                    /\ v.present => v.spec \in Specs
                                    /\ v.status.userId \in {None, Stored.status.userId}
  <2>1. CASE Stored.present
    <3> DEFINE v == [Stored EXCEPT !.spec = s]
    <3>1. v \in VersionType /\ v.status = Stored.status /\ v.spec = s
      BY <1>0, SpecsAssumption DEF VersionType
    <3>2. Publish(v)
      BY <1>2, <2>1 DEF ApplySpec
    <3> HIDE DEF v
    <3> QED
      BY <3>1, <3>2
  <2>2. CASE ~Stored.present
    <3>1. Publish(Present(s)) /\ Present(s) \in VersionType
      BY <1>2, <2>2, ConstantTypes, SpecsAssumption DEF ApplySpec, Present, VersionType
    <3> QED
      BY <3>1 DEF Present, EmptyStatus
  <2> QED
    BY <2>1, <2>2
<1>3. CASE StatusPatch /\ crLog' # crLog
  <2> DEFINE v == [Stored EXCEPT !.status = Patched]
  <2>1. Publish(v) /\ Stored.present
    BY <1>3 DEF StatusPatch
  <2>2. Patched \in StatusType
    BY <1>0, MergeFromStatus
    DEF AInv, NInv, IInv, TypeOK, Patched, VersionType, WorkerType
  <2>3. v \in VersionType /\ v.status = Patched /\ v.spec = Stored.spec
    BY <1>0, <2>2 DEF VersionType
  <2> HIDE DEF v
  <2> QED
    BY <1>0, <1>3, <2>1, <2>3 DEF VersionOK
<1> QED
  BY <1>1, <1>2, <1>3

LEMMA StoredAOK ==
    ASSUME AInv, \/ \E s \in Specs : ApplySpec(s)
                 \/ DeleteObject
                 \/ StatusPatch
    PROVE  AOK'
<1>0. AOK /\ UNCHANGED users /\ KeepsNames /\ HandedOut' = HandedOut /\ Live' = Live
      /\ UsersOK' /\ LogType
  <2>1. AOK /\ UNCHANGED users
    BY DEF AInv, ApplySpec, DeleteObject, StatusPatch
  <2> QED
    BY <2>1, SameUsers, EndsOK DEF KeepsNames
<1>1. CASE UNCHANGED crLog /\ StatusPatch
  <2>1. LogOK'
    BY <1>0, <1>1 DEF AOK, LogOK, VersionOK
  <2> QED
    BY <1>0, <1>1, <2>1 DEF AOK, PassOK, StatusPatch, Return, Idle
<1>2. CASE ~(UNCHANGED crLog /\ StatusPatch)
  <2> PICK v \in VersionType :
          /\ Publish(v)
          /\ v.present => v.spec \in Specs
          /\ v.status.userId \in {None, Stored.status.userId,
                                  IF StatusPatch THEN Patched.userId ELSE None}
    BY <1>2, StoredVersion
  <2>1. OldOr(v) /\ Stored' = v
    BY <1>0, PublishLog
  <2>2. VersionOK(v)
    <3>1. StatusPatch => Patched.userId \in HandedOut
      BY <1>0, PatchedId, EndsOK DEF AOK, PassOK, StatusPatch, VersionOK
    <3> QED
      BY <3>1, EndsOK DEF VersionOK, HandedOut
  <2>3. LogOK'
    BY <1>0, <2>1, <2>2 DEF AOK, LogOK, VersionOK, OldOr
  <2>4. PassOK'
    <3>1. CASE StatusPatch
      BY <3>1 DEF StatusPatch, Return, Idle, PassOK
    <3>2. CASE ~StatusPatch
      <4>1. None \notin Live /\ UNCHANGED worker
        BY <3>2, NoneAssumption DEF Live, ApplySpec, DeleteObject
      <4> QED
        BY <1>0, <2>1, <3>2, <4>1 DEF AOK, PassOK
    <3> QED
      BY <3>1, <3>2
  <2> QED
    BY <1>0, <2>3, <2>4 DEF AOK
<1> QED
  BY <1>1, <1>2

\* A delivery drops the head only, a new informer has the stored version only.
LEMMA DeliverLog ==
    ASSUME LogType, Deliver
    PROVE  /\ Stored' = Stored
           /\ \A i \in DOMAIN crLog' : \E j \in DOMAIN crLog : crLog'[i] = crLog[j]
<1>1. /\ Len(Tail(crLog)) = Len(crLog) - 1 /\ Len(Tail(crLog)) > 0
      /\ \A i \in 1 .. Len(crLog) - 1 : Tail(crLog)[i] = crLog[i + 1]
      /\ DOMAIN Tail(crLog) = 1 .. Len(crLog) - 1
  BY DEF LogType, Deliver
<1>2. \A i \in DOMAIN crLog' : i + 1 \in DOMAIN crLog /\ crLog'[i] = crLog[i + 1]
  BY <1>1 DEF Deliver, LogType
<1>3. Stored' = Stored
  BY <1>1 DEF Deliver, LogType, Stored
<1> QED
  BY <1>2, <1>3

LEMMA InformerAOK == ASSUME AInv, Deliver \/ Crash PROVE AOK'
<1>0. /\ AOK /\ UNCHANGED users /\ HandedOut' = HandedOut /\ Live' = Live /\ UsersOK'
  <2>1. AOK /\ KeepsNames /\ UNCHANGED users
    BY DEF AInv, KeepsNames, Deliver, Crash
  <2> QED
    BY <2>1, SameUsers
<1>1. CASE Deliver
  <2>1. /\ Stored' = Stored
        /\ \A i \in DOMAIN crLog' : \E j \in DOMAIN crLog : crLog'[i] = crLog[j]
    BY <1>1, EndsOK, DeliverLog
  <2>2. LogOK'
    BY <1>0, <2>1 DEF AOK, LogOK, VersionOK
  <2> QED
    BY <1>0, <1>1, <2>1, <2>2 DEF AOK, PassOK, Deliver
<1>2. CASE Crash
  <2>1. VersionOK(Stored) /\ \A i \in DOMAIN crLog' : crLog'[i] = Stored
    BY <1>2, EndsOK DEF Crash
  <2>2. LogOK'
    BY <1>0, <2>1 DEF LogOK, VersionOK
  <2> QED
    BY <1>0, <1>2, <2>2 DEF AOK, PassOK, Crash, Idle
<1> QED
  BY <1>1, <1>2

\* In Keyline, users only disappear behind the operator's back.
LEMMA DeleteUserAOK == ASSUME AInv, NEW id \in Ids, DeleteUser(id) PROVE AOK'
<1>1. /\ users'[id].state = "deleted" /\ id \in Live
      /\ \A i \in Ids \ {id} : users'[i] = users[i]
      /\ Live' = Live \ {id}
  BY Deleted DEF AInv, NInv
<1>2. AOK /\ UNCHANGED <<crLog, worker>>
  BY DEF AInv, DeleteUser
<1>3. HandedOut' = HandedOut
  BY <1>1 DEF HandedOut, Live
<1>4. LogOK'
  BY <1>2, <1>3 DEF AOK, LogOK, VersionOK
<1>5. UsersOK'
  <2>1. \A i \in Live' : i \in Live /\ users'[i] = users[i]
    BY <1>1 DEF Live
  <2> QED
    BY <1>2, <2>1 DEF AOK, UsersOK
<1>6. PassOK'
  BY <1>1, <1>2, <1>3 DEF AOK, PassOK, Stored
<1> QED
  BY <1>4, <1>5, <1>6 DEF AOK

LEMMA NextAInv ==
    ASSUME PageHoldsAll, OneName, AInv, [Next]_vars
    PROVE  AInv'
<1>0. NInv' /\ AOK /\ IInv
  BY NextNInv DEF AInv, NInv
<1>1. CASE PatchDisplayName \/ FinishKeys \/ \E kid \in Kids : Associate(kid) \/ Remove(kid)
  <2>1. KeepsNames
    BY <1>0, <1>1, PatchKeepsNames, KeyStepsKeepNames DEF FinishKeys, KeepsNames
  <2>2. AOK'
    BY <1>0, <1>1, <2>1, WithUserSteps, PassGoesOn DEF KeepsId
  <2> QED
    BY <1>0, <2>2 DEF AInv
<1>2. CASE DepsChange \/ UNCHANGED vars
           \/ \E id \in Ids, kid \in OthersKids, pem \in Pems : AssociateOutOfBand(id, kid, pem)
  <2>1. UNCHANGED <<crLog, worker>>
    BY <1>2 DEF DepsChange, AssociateOutOfBand, vars
  <2>2. KeepsNames
    BY <1>0, <1>2, KeyStepsKeepNames DEF DepsChange, vars, KeepsNames
  <2>3. AOK'
    BY <1>0, <2>1, <2>2, Elsewhere
  <2> QED
    BY <1>0, <2>3 DEF AInv
<1>3. CASE Begin \/ Get \/ List \/ CreateServiceUser
  BY <1>0, <1>3, BeginAOK, GetAOK, ListAOK, CreateAOK DEF AInv
<1>4. CASE StatusPatch \/ DeleteObject \/ \E s \in Specs : ApplySpec(s)
  BY <1>0, <1>4, StoredAOK DEF AInv
<1>5. CASE Deliver \/ Crash \/ \E id \in Ids : DeleteUser(id)
  BY <1>0, <1>5, InformerAOK, DeleteUserAOK DEF AInv
<1> QED
  BY <1>1, <1>2, <1>3, <1>4, <1>5 DEF Next, Reconcile, Environment

-----------------------------------------------------------------------------
(* The refinement mapping of Account *)

objs == [id \in Ids |-> IF id \in Live THEN users[id].name
                        ELSE IF users[id].state = "deleted" THEN "gone"
                        ELSE "unused"]
bound == Stored.status.userId

\* The mapped objects: names of the living ones, and of no other.
LEMMA MappedObjects ==
    ASSUME OneName, AInv
    PROVE  /\ \A id \in Ids : objs[id] \in Usernames <=> id \in Live
           /\ \A id \in Ids : objs[id] = "unused" <=> users[id].state = "unused"
           /\ Account!Living = Live
<1>1. \A id \in Live : users[id].name \in Usernames
  BY DEF OneName, AInv, AOK, UsersOK
<1>2. \A id \in Ids \ Live : users[id].state \in {"unused", "deleted"}
  BY DEF AInv, NInv, IInv, TypeOK, UserType, Live
<1>3. /\ \A id \in Ids : objs[id] \in Usernames <=> id \in Live
      /\ \A id \in Ids : objs[id] = "unused" <=> users[id].state = "unused"
  BY <1>1, <1>2, NamesAssumption DEF objs, Live
<1>4. Account!Living = {id \in Ids : objs[id] \in Usernames}
  BY DEF Account!Living, objs
<1> QED
  BY <1>3, <1>4 DEF Live

\* Steps after which Keyline's users have the same names and the stored id is
\* the same stutter.
LEMMA Stutters ==
    ASSUME Stored' = Stored, KeepsNames
    PROVE  UNCHANGED <<objs, bound>>
<1>1. Live' = Live
  BY DEF Live, KeepsNames
<1> QED
  BY <1>1 DEF objs, bound, Live, KeepsNames

LEMMA CreateRefines ==
    ASSUME OneName, AInv, CreateServiceUser
    PROVE  Account!Next \/ UNCHANGED <<objs, bound>>
<1>0. Stored' = Stored /\ worker.pc = "create" /\ worker.spec \in Specs
  BY DEF CreateServiceUser, Stored, AInv, AOK, PassOK
<1>1. CASE UNCHANGED users
  BY <1>0, <1>1, Stutters DEF KeepsNames
<1>2. ASSUME NEW id \in Ids, CreateAt(id) PROVE Account!Next
  <2> PICK n \in Usernames : n = worker.spec.username
    BY <1>0 DEF OneName
  <2>1. Live = {} /\ Live' = {id}
    BY <1>0, <1>2, CreatedAlone
  <2>2. /\ users'[id].name = n /\ \A i \in Ids \ {id} : users'[i] = users[i]
        /\ users[id].state = "unused"
    BY <1>2, Created DEF AInv, NInv
  <2>3. objs[id] = "unused" /\ \A i \in Ids : objs[i] # n
    BY <2>1, <2>2, MappedObjects
  <2>4. objs' = [objs EXCEPT ![id] = n]
    BY <2>1, <2>2 DEF objs
  <2>5. bound' = bound
    BY <1>0 DEF bound
  <2>6. Account!Create(id, n)
    BY <2>3, <2>4, <2>5 DEF Account!Create, Account!NameFree, objs, bound
  <2> QED
    BY <2>6 DEF Account!Next
<1> QED
  BY <1>1, <1>2 DEF CreateServiceUser

\* A stored version has the old id, or none, or that of the pass, which is not
\* the old one only when no living user is left that the old one names.
LEMMA StoredRefines ==
    ASSUME OneName, AInv, \/ \E s \in Specs : ApplySpec(s)
                          \/ DeleteObject
                          \/ StatusPatch
    PROVE  Account!Next \/ UNCHANGED <<objs, bound>>
<1>0. UNCHANGED users
  BY DEF ApplySpec, DeleteObject, StatusPatch
<1>1. objs' = objs
  BY <1>0 DEF objs, Live
<1>2. CASE UNCHANGED crLog /\ StatusPatch
  BY <1>0, <1>2, Stutters DEF Stored, KeepsNames
<1>3. CASE ~(UNCHANGED crLog /\ StatusPatch)
  <2> PICK v \in VersionType :
          /\ Publish(v)
          /\ v.status.userId \in {None, Stored.status.userId,
                                  IF StatusPatch THEN Patched.userId ELSE None}
    BY <1>3, StoredVersion
  <2>1. bound' = v.status.userId
    BY PublishLog, EndsOK DEF bound
  <2>2. CASE bound' = bound
    BY <1>1, <2>2
  <2>3. CASE bound' = None
    <3>1. Account!Forget
      BY <1>1, <2>3 DEF Account!Forget, objs, bound
    <3> QED
      BY <3>1 DEF Account!Next
  <2>4. CASE bound' \notin {None, bound}
    <3> PICK id \in HandedOut : id = worker.cur.userId
      BY <2>1, <2>4 DEF AInv, AOK, PassOK, StatusPatch, bound
    <3>1. StatusPatch /\ bound' = id /\ id \notin {None, worker.base.userId}
      BY <2>1, <2>4, PatchedId DEF bound
    <3>2. id \in Ids /\ users[id].state # "unused" /\ bound \notin Live
      BY <2>4, <3>1 DEF AInv, AOK, PassOK, HandedOut, bound, StatusPatch
    <3>3. Account!Bind(id)
      BY <1>1, <3>1, <3>2, MappedObjects DEF Account!Bind, objs, bound
    <3> QED
      BY <3>2, <3>3 DEF Account!Next
  <2> QED
    BY <2>2, <2>3, <2>4
<1> QED
  BY <1>2, <1>3

LEMMA LossRefines ==
    ASSUME OneName, AInv, NEW id \in Ids, DeleteUser(id)
    PROVE  Account!Next
<1>1. /\ users'[id].state = "deleted" /\ id \in Live
      /\ \A i \in Ids \ {id} : users'[i] = users[i]
      /\ Live' = Live \ {id}
  BY Deleted DEF AInv, NInv
<1>2. Stored' = Stored
  BY DEF DeleteUser, Stored
<1>3. objs' = [i \in Ids |-> IF i \in {id} THEN "gone" ELSE objs[i]]
  BY <1>1 DEF objs, Live
<1>4. Account!Lose({id})
  BY <1>2, <1>3 DEF Account!Lose, objs, bound
<1> QED
  BY <1>1, <1>4, MappedObjects DEF Account!Next

LEMMA NextRefines ==
    ASSUME OneName, AInv, [Next]_vars
    PROVE  Account!Next \/ UNCHANGED <<objs, bound>>
<1>0. IInv
  BY DEF AInv, NInv
<1>1. CASE PatchDisplayName \/ FinishKeys \/ \E kid \in Kids : Associate(kid) \/ Remove(kid)
  <2>1. KeepsNames
    BY <1>0, <1>1, PatchKeepsNames, KeyStepsKeepNames DEF FinishKeys, KeepsNames
  <2> QED
    BY <1>1, <2>1, WithUserSteps, Stutters DEF KeepsId, Stored
<1>2. CASE DepsChange \/ UNCHANGED vars
           \/ \E id \in Ids, kid \in OthersKids, pem \in Pems : AssociateOutOfBand(id, kid, pem)
  <2>1. Stored' = Stored
    BY <1>2 DEF DepsChange, AssociateOutOfBand, vars, Stored
  <2>2. KeepsNames
    BY <1>0, <1>2, KeyStepsKeepNames DEF DepsChange, vars, KeepsNames
  <2> QED
    BY <2>1, <2>2, Stutters
<1>3. CASE Begin \/ Get \/ List
  BY <1>3, Stutters DEF Begin, Get, List, Stored, KeepsNames
<1>4. CASE Deliver \/ Crash
  <2>1. Stored' = Stored /\ UNCHANGED users
    <3>1. CASE Deliver
      BY <3>1, EndsOK, DeliverLog DEF Deliver
    <3>2. CASE Crash
      <4>1. crLog' = <<Stored>> /\ UNCHANGED users
        BY <3>2 DEF Crash
      <4>2. Stored' = crLog'[Len(crLog')]
        BY DEF Stored
      <4> QED
        BY <4>1, <4>2
    <3> QED
      BY <1>4, <3>1, <3>2
  <2> QED
    BY <2>1, Stutters DEF KeepsNames
<1>5. CASE CreateServiceUser
  BY <1>5, CreateRefines
<1>6. CASE StatusPatch \/ DeleteObject \/ \E s \in Specs : ApplySpec(s)
  BY <1>6, StoredRefines
<1>7. CASE \E id \in Ids : DeleteUser(id)
  BY <1>7, LossRefines
<1> QED
  BY <1>1, <1>2, <1>3, <1>4, <1>5, <1>6, <1>7 DEF Next, Reconcile, Environment

\* Whatever answers, patches, events and processes are lost, the reconciler does
\* nothing to its user that a NamedResource may not do: it is never created
\* twice, and the status never leaves a living user for another.
THEOREM AccountSafe ==
    ASSUME PageHoldsAll, OneName
    PROVE  Spec => Account!Safety
<1>1. Init => Account!Init
  <2> SUFFICES ASSUME Init PROVE Account!Init
    OBVIOUS
  <2>1. Live = {} /\ \A id \in Ids : users[id].state = "unused"
    BY DEF Init, Live, Unused
  <2>2. Stored.status.userId = None
    BY DEF Init, Stored, Present, EmptyStatus
  <2> QED
    BY <2>1, <2>2 DEF Account!Init
<1>2. AInv /\ [Next]_vars => AInv'
  BY NextAInv
<1>3. AInv /\ [Next]_vars => [Account!Next]_<<objs, bound>>
  BY NextRefines
<1>4. Spec => []AInv
  BY InitAInv, <1>2, PTL DEF Spec
<1>5. Spec => Account!Init /\ [][Account!Next]_<<objs, bound>>
  BY <1>1, <1>3, <1>4, PTL DEF Spec
<1> QED
  BY <1>5, PTL DEF Account!Safety, objs, bound

================================================================================
