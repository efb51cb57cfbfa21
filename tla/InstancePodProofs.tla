--------------------------- MODULE InstancePodProofs ---------------------------
(***************************************************************************)
(* Proofs about the order of the config Secret and the Deployment in       *)
(* InstanceController: no pod runs an older config than the one whose hash *)
(* made Kubernetes create it.                                              *)
(***************************************************************************)
EXTENDS InstanceControllerProofs

\* Leader election leaves one replica at work.  A deposed leader that goes on
\* with its pass could store the config of an older spec.
OneReplica == \A q, r \in Replicas : q = r

\* Specs are numbered in the order of their submission.
Forward == \A e \in Edits : e[1] <= e[2]

ConfigOrNone == ConfigType \cup {None}

\* These two have no config or hash to compare, or c is not of an older spec.
AtLeast(c, h) == c # None /\ h # None => h.spec <= c.spec

\* The spec of h was submitted, and the running pass read it or a later one, so
\* that the next config that is built is not older than h.
Reached(h) ==
    h # None => /\ h.spec <= spec
                /\ \A r \in Replicas :
                    worker[r].pc # "idle" => h.spec <= worker[r].spec

\* Between the config Secret and the Deployment, the Secret has the pass's
\* config, or a later one.
PastConfig == {"pvc", "svc", "dep"}

SpecsInv ==
    \A r \in Replicas : worker[r].pc # "idle" =>
        /\ worker[r].spec <= spec
        /\ worker[r].config # None => worker[r].config.spec = worker[r].spec
        /\ worker[r].pc \in PastConfig => AtLeast(store.config, worker[r].config)

ConfigsInv ==
    /\ Reached(store.config)
    /\ \A r \in Replicas : /\ Reached(cache[r].config)
                           /\ AtLeast(store.config, cache[r].config)

\* PodNotOlderThanHash is not inductive: a pod starts with the stored config,
\* which must be as new as the hashes that are about, whenever it is there.
HashOK(h) == Reached(h) /\ AtLeast(store.config, h)

HashesInv ==
    /\ store.dep # None => HashOK(store.dep.hash)
    /\ \A p \in pods : HashOK(p.hash)

PodInv == TypeInv /\ SpecsInv /\ ConfigsInv /\ HashesInv /\ PodNotOlderThanHash

-----------------------------------------------------------------------------
(* What a step may do to specs, passes, objects and pods *)

\* The pass of r has become w.
Moved(r, w) ==
    w.pc # "idle" =>
        /\ \/ w.spec = spec' /\ w.config = None
           \/ /\ worker[r].pc # "idle" /\ w.spec = worker[r].spec
              /\ w.config = worker[r].config \/ w.config.spec = worker[r].spec
        /\ w.pc \in PastConfig =>
              \/ worker[r].pc \in PastConfig /\ w.config = worker[r].config
              \/ AtLeast(store'.config, w.config)

PassesMove == \A r \in Replicas : Moved(r, worker'[r])

StoreMoves ==
    /\ \/ store'.config \in {None, store.config}
       \/ \E r \in Replicas : worker[r].pc # "idle" /\ store'.config = worker[r].config
    /\ \A r \in Replicas : cache'[r].config \in {cache[r].config, store'.config}
    /\ store'.dep # None =>
          \/ store.dep # None /\ store'.dep.hash = store.dep.hash
          \/ \E r \in Replicas : worker[r].pc = "dep" /\ store'.dep.hash = worker[r].config

PodsMove ==
    \A p \in pods' :
        \/ p \in pods
        \/ /\ p.config \in {None, store.config}
           /\ \/ \E q \in pods : p.hash = q.hash
              \/ store.dep # None /\ p.hash = store.dep.hash

Moves == spec <= spec' /\ PassesMove /\ StoreMoves /\ PodsMove

-----------------------------------------------------------------------------
(* Such a step keeps the invariant *)

\* The numbers that are compared.
LEMMA Numbers ==
    ASSUME TypeInv
    PROVE  /\ spec \in Nat
           /\ \A r \in Replicas : worker[r].pc # "idle" => worker[r].spec \in Nat
           /\ \A c \in ConfigType : c.spec \in Nat
           /\ store.config \in ConfigOrNone
           /\ \A r \in Replicas : /\ cache[r].config \in ConfigOrNone
                                  /\ worker[r].config \in ConfigOrNone
           /\ store.dep # None => store.dep.hash \in ConfigOrNone
           /\ \A p \in pods : p.hash \in ConfigOrNone /\ p.config \in ConfigOrNone
<1> USE SpecsAssumption DEF TypeInv, TypeOK, ConfigOrNone
<1>1. /\ spec \in Nat /\ \A c \in ConfigType : c.spec \in Nat
      /\ \A r \in Replicas : worker[r].pc # "idle" => worker[r].spec \in Nat
  BY DEF PassOK, ConfigType
<1>2. /\ store.config \in ConfigOrNone
      /\ store.dep # None => store.dep.hash \in ConfigOrNone
  BY DEF ObjectsType
<1>3. \A r \in Replicas : /\ cache[r].config \in ConfigOrNone
                          /\ worker[r].config \in ConfigOrNone
  BY DEF ObjectsType, WorkerType
<1>4. \A p \in pods : p.hash \in ConfigOrNone /\ p.config \in ConfigOrNone
  OBVIOUS
<1> QED
  BY <1>1, <1>2, <1>3, <1>4

\* A spec that was reached stays reached: a new pass reads the newest.
LEMMA ReachedKept ==
    ASSUME TypeInv, TypeInv', spec <= spec', PassesMove
    PROVE  \A h \in ConfigOrNone : Reached(h) => Reached(h)'
<1> SUFFICES ASSUME NEW h \in ConfigOrNone, Reached(h), h # None
             PROVE  Reached(h)'
  BY DEF Reached
<1>0. h.spec \in Nat /\ spec \in Nat /\ spec' \in Nat
  <2>1. h \in ConfigType
    BY DEF ConfigOrNone
  <2> QED
    BY <2>1, SpecsAssumption DEF ConfigType, TypeInv, TypeOK
<1>1. h.spec <= spec'
  BY <1>0 DEF Reached
<1>2. ASSUME NEW r \in Replicas, worker'[r].pc # "idle"
      PROVE  h.spec <= worker'[r].spec
  BY <1>1, <1>2 DEF PassesMove, Moved, Reached
<1> QED
  BY <1>1, <1>2 DEF Reached

\* The config that is stored is as new as whatever was reached.
LEMMA StoredNewer ==
    ASSUME PodInv, StoreMoves, NEW h \in ConfigOrNone, Reached(h), AtLeast(store.config, h)
    PROVE  AtLeast(store'.config, h)
<1>1. CASE store'.config \in {None, store.config}
  BY <1>1 DEF AtLeast
<1>2. ASSUME NEW r \in Replicas, worker[r].pc # "idle", store'.config = worker[r].config
      PROVE  AtLeast(store'.config, h)
  BY <1>2 DEF AtLeast, Reached, PodInv, SpecsInv
<1> QED
  BY <1>1, <1>2 DEF StoreMoves

LEMMA MovesKeep ==
    ASSUME OneReplica, PodInv, TypeInv', Moves
    PROVE  PodInv'
<1>0. /\ TypeInv /\ spec <= spec' /\ PassesMove /\ StoreMoves /\ PodsMove
      /\ SpecsInv /\ ConfigsInv /\ HashesInv
  BY DEF PodInv, Moves
<1>1. \A h \in ConfigOrNone : Reached(h) => Reached(h)'
  BY <1>0, ReachedKept
<1>2. \A h \in ConfigOrNone :
        Reached(h) /\ AtLeast(store.config, h) => AtLeast(store'.config, h)
  BY <1>0, StoredNewer
<1>3. \A r \in Replicas : worker[r].pc # "idle" => Reached(worker[r].config)
  BY <1>0, Numbers DEF Reached, SpecsInv, OneReplica, ConfigOrNone
<1>4. SpecsInv'
  <2> SUFFICES ASSUME NEW r \in Replicas, worker'[r].pc # "idle"
               PROVE  /\ worker'[r].spec <= spec'
                      /\ worker'[r].config # None => worker'[r].config.spec = worker'[r].spec
                      /\ worker'[r].pc \in PastConfig => AtLeast(store'.config, worker'[r].config)
    BY DEF SpecsInv, AtLeast
  <2>1. Moved(r, worker'[r]) /\ spec \in Nat /\ spec' \in Nat
    BY <1>0, SpecsAssumption DEF PassesMove, TypeInv, TypeOK
  <2>2. worker'[r].spec <= spec'
    BY <1>0, <2>1, Numbers DEF Moved, SpecsInv
  <2>3. worker'[r].config # None => worker'[r].config.spec = worker'[r].spec
    BY <1>0, <2>1 DEF Moved, SpecsInv
  <2>4. ASSUME worker'[r].pc \in PastConfig
        PROVE  AtLeast(store'.config, worker'[r].config)
    <3>1. CASE worker[r].pc \in PastConfig /\ worker'[r].config = worker[r].config
      <4>1. worker[r].config \in ConfigOrNone /\ worker[r].pc # "idle"
        BY <1>0, <3>1, Numbers DEF PastConfig
      <4>2. AtLeast(store.config, worker[r].config)
        BY <1>0, <3>1, <4>1 DEF SpecsInv
      <4> QED
        BY <1>2, <1>3, <3>1, <4>1, <4>2
    <3> QED
      BY <2>1, <2>4, <3>1 DEF Moved
  <2> QED
    BY <2>2, <2>3, <2>4
<1>5. ConfigsInv'
  <2>1. \E c \in ConfigOrNone : store'.config = c /\ Reached(c)
    <3>1. CASE store'.config = None
      BY <3>1 DEF Reached, ConfigOrNone
    <3>2. CASE store'.config = store.config
      BY <1>0, <3>2, Numbers DEF ConfigsInv
    <3>3. ASSUME NEW r \in Replicas, worker[r].pc # "idle", store'.config = worker[r].config
          PROVE  \E c \in ConfigOrNone : store'.config = c /\ Reached(c)
      BY <1>0, <1>3, <3>3, Numbers
    <3> QED
      BY <1>0, <3>1, <3>2, <3>3 DEF StoreMoves
  <2>2. Reached(store.config)'
    <3> PICK c \in ConfigOrNone : store'.config = c /\ Reached(c)
      BY <2>1
    <3> QED
      BY <1>1 DEF Reached
  <2>3. ASSUME NEW r \in Replicas
        PROVE  Reached(cache[r].config)' /\ AtLeast(store'.config, cache'[r].config)
    <3>1. CASE cache'[r].config = store'.config
      <4>1. store'.config # None => store'.config.spec \in Nat
        BY <2>1, <1>0, Numbers DEF ConfigOrNone
      <4> QED
        BY <2>2, <3>1, <4>1 DEF Reached, AtLeast
    <3>2. CASE cache'[r].config = cache[r].config
      <4> PICK c \in ConfigOrNone : c = cache[r].config
        BY <1>0, Numbers
      <4>1. Reached(c) /\ AtLeast(store.config, c)
        BY <1>0 DEF ConfigsInv
      <4>2. Reached(c)' /\ AtLeast(store'.config, c)
        BY <1>1, <1>2, <4>1
      <4> QED
        BY <3>2, <4>2 DEF Reached
    <3> QED
      BY <1>0, <3>1, <3>2 DEF StoreMoves
  <2> QED
    BY <2>2, <2>3 DEF ConfigsInv, AtLeast
<1>6. \A h \in ConfigOrNone : HashOK(h) => HashOK(h)'
  BY <1>1, <1>2 DEF HashOK, AtLeast
<1>7. HashesInv'
  <2>1. ASSUME store'.dep # None
        PROVE  HashOK(store.dep.hash)'
    <3>1. \E h \in ConfigOrNone : store'.dep.hash = h /\ HashOK(h)
      <4>1. CASE store.dep # None /\ store'.dep.hash = store.dep.hash
        BY <1>0, <4>1, Numbers DEF HashesInv
      <4>2. ASSUME NEW r \in Replicas, worker[r].pc = "dep",
                   store'.dep.hash = worker[r].config
            PROVE  \E h \in ConfigOrNone : store'.dep.hash = h /\ HashOK(h)
        <5>1. Reached(worker[r].config) /\ AtLeast(store.config, worker[r].config)
          BY <1>0, <1>3, <4>2 DEF SpecsInv, PastConfig
        <5> QED
          BY <1>0, <4>2, <5>1, Numbers DEF HashOK
      <4> QED
        BY <1>0, <2>1, <4>1, <4>2 DEF StoreMoves
    <3> PICK h \in ConfigOrNone : store'.dep.hash = h /\ HashOK(h)
      BY <3>1
    <3> QED
      BY <1>6 DEF HashOK, Reached, AtLeast
  <2>2. ASSUME NEW p \in pods'
        PROVE  HashOK(p.hash)'
    <3>1. p.hash \in ConfigOrNone /\ HashOK(p.hash)
      BY <1>0, Numbers DEF PodsMove, HashesInv
    <3> QED
      BY <1>6, <3>1 DEF HashOK, Reached, AtLeast
  <2> QED
    BY <2>1, <2>2 DEF HashesInv
<1>8. PodNotOlderThanHash'
  <2> SUFFICES ASSUME NEW p \in pods', p.config # None, p.hash # None
               PROVE  p.config.spec >= p.hash.spec
    BY DEF PodNotOlderThanHash, Running
  <2>1. CASE p \in pods
    BY <2>1 DEF PodInv, PodNotOlderThanHash, Running
  <2>2. CASE p \notin pods
    <3>1. p.config = store.config
      BY <1>0, <2>2 DEF PodsMove
    <3>2. HashOK(p.hash) /\ p.hash \in ConfigOrNone
      BY <1>0, <2>2, Numbers DEF PodsMove, HashesInv
    <3> QED
      BY <1>0, <3>1, <3>2, Numbers DEF HashOK, AtLeast, ConfigOrNone
  <2> QED
    BY <2>1, <2>2
<1> QED
  BY <1>4, <1>5, <1>7, <1>8 DEF PodInv

-----------------------------------------------------------------------------
(* Every step of Next is such a step *)

\* Other passes do not move.
LEMMA PassMoved ==
    ASSUME TypeInv, NEW r \in Replicas, NEW w, BecomesPass(r, w), Moved(r, w)
    PROVE  PassesMove
<1>1. worker' = [worker EXCEPT ![r] = w] /\ worker \in [Replicas -> WorkerType]
  BY DEF BecomesPass, TypeInv, TypeOK
<1>2. worker'[r] = w
  BY <1>1
<1>3. ASSUME NEW q \in Replicas \ {r} PROVE Moved(q, worker'[q])
  <2>1. worker'[q] = worker[q]
    BY <1>1
  <2> QED
    BY <2>1 DEF Moved, PastConfig
<1> QED
  BY <1>2, <1>3 DEF PassesMove

LEMMA FailedMoved ==
    ASSUME TypeInv, NEW r \in Replicas, NEW reason \in Reasons,
           worker[r].pc # "idle", SetNotReady(r, reason)
    PROVE  PassesMove
<1>1. Moved(r, FailedPass(r, reason))
  BY SetNotReadyPass DEF Moved, PastConfig
<1> QED
  BY <1>1, SetNotReadyPass, PassMoved

LEMMA GotoMoved ==
    ASSUME TypeInv, NEW r \in Replicas, NEW pc \in NextPcs,
           worker[r].pc # "idle", Goto(r, pc),
           worker[r].pc \in PastConfig \/ AtLeast(store'.config, worker[r].config)
    PROVE  PassesMove
<1> DEFINE w == [worker[r] EXCEPT !.pc = pc]
<1>1. worker[r] \in WorkerType
  BY DEF TypeInv, TypeOK
<1>2. w.pc = pc /\ w.spec = worker[r].spec /\ w.config = worker[r].config
  BY <1>1 DEF WorkerType
<1>3. BecomesPass(r, w)
  BY GotoPass
<1> HIDE DEF w
<1>4. Moved(r, w)
  BY <1>2 DEF Moved
<1> QED
  BY <1>3, <1>4, PassMoved

LEMMA IdleMoved ==
    ASSUME TypeInv, NEW r \in Replicas, worker' = [worker EXCEPT ![r] = Idle]
    PROVE  PassesMove
  BY IdlePass, PassMoved DEF BecomesPass, Moved

LEMMA SameWorkersMoved == ASSUME UNCHANGED worker PROVE PassesMove
  BY DEF PassesMove, Moved, PastConfig

LEMMA SameStoreMoved == ASSUME NoWrite PROVE StoreMoves
  BY DEF StoreMoves, NoWrite

LEMMA SamePodsMoved == ASSUME UNCHANGED pods PROVE PodsMove
  BY DEF PodsMove

\* What a write does to the config Secret and the Deployment.
LEMMA PutFields ==
    ASSUME TypeInv, NEW o \in Objects, NEW v \in ValueType(o), Put(o, v)
    PROVE  /\ store'.config = IF o = "config" THEN v ELSE store.config
           /\ store'.dep = IF o = "dep" THEN v ELSE store.dep
           /\ \A q \in Replicas : cache'[q].config \in {cache[q].config, store'.config}
<1>1. /\ store \in ObjectsType /\ store' = [store EXCEPT ![o] = v]
      /\ cache \in [Replicas -> ObjectsType]
  BY DEF TypeInv, TypeOK, Put
<1>2. /\ store'.config = IF o = "config" THEN v ELSE store.config
      /\ store'.dep = IF o = "dep" THEN v ELSE store.dep
  BY <1>1, ObjectsUpdate DEF Objects
<1>3. \A q \in Replicas :
        [cache[q] EXCEPT ![o] = v].config = IF o = "config" THEN v ELSE cache[q].config
  <2> SUFFICES ASSUME NEW x \in ObjectsType
               PROVE  [x EXCEPT ![o] = v].config = IF o = "config" THEN v ELSE x.config
    BY <1>1
  <2> QED
    BY DEF ObjectsType
<1>4. ASSUME NEW q \in Replicas PROVE cache'[q].config \in {cache[q].config, store'.config}
  <2>1. CASE UNCHANGED cache
    BY <2>1
  <2>2. CASE cache' = [p \in Replicas |-> [cache[p] EXCEPT ![o] = v]]
    BY <1>2, <1>3, <2>2
  <2> QED
    BY <2>1, <2>2 DEF Put
<1> QED
  BY <1>2, <1>4

\* A write, of the config or the hash of a pass if it is of the config Secret or
\* of another hash.
LEMMA PutMoves ==
    ASSUME TypeInv, NEW o \in Objects, NEW v \in ValueType(o), Put(o, v),
           o = "config" =>
              \/ v = None
              \/ \E r \in Replicas : worker[r].pc # "idle" /\ v = worker[r].config,
           o = "dep" /\ v # None =>
              \/ store.dep # None /\ v.hash = store.dep.hash
              \/ \E r \in Replicas : worker[r].pc = "dep" /\ v.hash = worker[r].config
    PROVE  StoreMoves
<1>1. \A q \in Replicas : cache'[q].config \in {cache[q].config, store'.config}
  BY PutFields
<1>2. \/ store'.config \in {None, store.config}
      \/ \E r \in Replicas : worker[r].pc # "idle" /\ store'.config = worker[r].config
  BY PutFields
<1>3. store'.dep # None =>
        \/ store.dep # None /\ store'.dep.hash = store.dep.hash
        \/ \E r \in Replicas : worker[r].pc = "dep" /\ store'.dep.hash = worker[r].config
  BY PutFields
<1> QED
  BY <1>1, <1>2, <1>3 DEF StoreMoves

\* A step of a pass, or of the cluster, submits no spec.
LEMMA SameSpecMoves ==
    ASSUME TypeInv, UNCHANGED spec, PassesMove, StoreMoves, PodsMove
    PROVE  Moves
  BY SpecsAssumption DEF Moves, TypeInv, TypeOK

-----------------------------------------------------------------------------
(* The steps of a pass *)

LEMMA BeginMoves == ASSUME TypeInv, NEW r \in Replicas, Begin(r) PROVE Moves
<1> DEFINE w == [Idle EXCEPT !.pc = "creds", !.spec = spec,
                             !.base = cache[r].status, !.cur = cache[r].status]
<1>1. /\ w.pc = "creds" /\ w.spec = spec /\ w.config = None
      /\ worker' = [worker EXCEPT ![r] = w] /\ UNCHANGED spec
  BY DEF Idle, Begin, PassFrame
<1>2. spec \in Specs /\ cache[r].status \in StatusType
  BY DEF TypeInv, TypeOK, ObjectsType
<1>3. w \in WorkerType
  BY <1>2 DEF Idle, WorkerType
<1> HIDE DEF w
<1>4. BecomesPass(r, w) /\ Moved(r, w)
  BY <1>1, <1>2, <1>3 DEF BecomesPass, Moved, PastConfig
<1> QED
  BY <1>4, PassMoved, SameStoreMoved, SamePodsMoved, SameSpecMoves DEF Begin, PassFrame

LEMMA CredentialsMoves ==
    ASSUME TypeInv, NEW r \in Replicas, EnsureCredentials(r)
    PROVE  Moves
<1>0. /\ worker[r].pc = "creds" /\ UNCHANGED spec /\ PodsMove
      /\ "CredentialsError" \in Reasons /\ worker[r] \in WorkerType
  BY SamePodsMoved DEF EnsureCredentials, PassFrame, Reasons, TypeInv, TypeOK
<1>1. ASSUME NEW key \in Keys, WithKeypair(r, key) PROVE PassesMove
  <2> DEFINE w == [worker[r] EXCEPT !.pc = "build", !.keypair = key]
  <2>1. w.pc = "build" /\ w.spec = worker[r].spec /\ w.config = worker[r].config
    BY <1>0 DEF WorkerType
  <2>2. BecomesPass(r, w)
    BY <1>0, <1>1, WithKeypairPass
  <2> HIDE DEF w
  <2>3. Moved(r, w)
    BY <1>0, <2>1 DEF Moved, PastConfig
  <2> QED
    BY <2>2, <2>3, PassMoved
<1>2. ASSUME NEW key \in Keys, Put("creds", key) PROVE StoreMoves
  BY <1>2, PutMoves DEF Objects, ValueType
<1>3. CASE SetNotReady(r, "CredentialsError")
  <2>1. NoWrite \/ \E key \in Keys : Put("creds", key)
    BY <1>0, <1>3 DEF EnsureCredentials, CredentialsExist, WithKeypair, SetNotReady
  <2> QED
    BY <1>0, <1>2, <1>3, <2>1, FailedMoved, SameStoreMoved, SameSpecMoves
<1>4. CASE cache[r].creds # None /\ WithKeypair(r, cache[r].creds) /\ NoWrite
  <2>1. cache[r].creds \in Keys
    BY <1>4 DEF TypeInv, TypeOK, ObjectsType
  <2> QED
    BY <1>0, <1>1, <1>4, <2>1, SameStoreMoved, SameSpecMoves
<1>5. ASSUME NEW key \in Keys, Put("creds", key), WithKeypair(r, key) PROVE Moves
  BY <1>0, <1>1, <1>2, <1>5, SameSpecMoves
<1> QED
  BY <1>3, <1>4, <1>5 DEF EnsureCredentials, CredentialsExist

LEMMA BuildMoves == ASSUME TypeInv, NEW r \in Replicas, BuildConfig(r) PROVE Moves
<1>0. /\ worker[r].pc = "build" /\ UNCHANGED spec /\ StoreMoves /\ PodsMove
  BY SameStoreMoved, SamePodsMoved DEF BuildConfig, PassFrame
<1>1. CASE BuildFailures(worker[r].spec) = {}
  <2>0. worker \in [Replicas -> WorkerType] /\ worker[r].spec \in Specs
    BY <1>0 DEF TypeInv, TypeOK, PassOK
  <2>1. worker' = [worker EXCEPT ![r] = BuiltPass(r)]
    BY <1>1, <2>0 DEF BuildConfig, BuiltPass, WorkerType
  <2>2. BecomesPass(r, BuiltPass(r))
    BY <1>0, <2>0, <2>1, BuiltPassType DEF BecomesPass
  <2>3. BuiltPass(r).config.spec = worker[r].spec
    <3> DEFINE c == buildKeylineConfig(worker[r].spec, worker[r].keypair, secrets)
    <3>1. c.spec = worker[r].spec
      BY DEF buildKeylineConfig
    <3> HIDE DEF c
    <3>2. worker[r] \in WorkerType
      BY DEF TypeInv, TypeOK
    <3>3. [worker[r] EXCEPT !.pc = "config", !.config = c].config = c
      BY <3>2 DEF WorkerType
    <3> QED
      BY <3>1, <3>3 DEF BuiltPass, c
  <2>4. Moved(r, BuiltPass(r))
    BY <1>0, <2>3, BuiltPassType DEF Moved, PastConfig
  <2> QED
    BY <1>0, <2>2, <2>4, PassMoved, SameSpecMoves
<1>2. ASSUME NEW reason \in BuildFailures(worker[r].spec), SetNotReady(r, reason)
      PROVE  Moves
  <2>1. reason \in Reasons
    BY DEF BuildFailures, Reasons
  <2> QED
    BY <1>0, <1>2, <2>1, FailedMoved, SameSpecMoves
<1> QED
  BY <1>1, <1>2 DEF BuildConfig

\* An object of the pass: behind the config Secret, or the Secret itself.
LEMMA EnsureMoves ==
    ASSUME TypeInv, NEW r \in Replicas, NEW o \in Objects, NEW v \in ValueType(o),
           NEW call \in Calls, NEW pc \in NextPcs, NEW reason \in Reasons,
           worker[r].pc # "idle", Ensure(r, o, v, call, pc, reason),
           o = "config" => v = worker[r].config,
           o = "dep" => worker[r].pc = "dep" /\ v.hash = worker[r].config,
           o = "config" \/ worker[r].pc \in PastConfig
    PROVE  Moves
<1>0. UNCHANGED spec /\ PodsMove
  BY SamePodsMoved DEF Ensure, PassFrame
<1>1. CASE Put(o, v) /\ Goto(r, pc)
  <2>1. StoreMoves
    BY <1>1, PutMoves
  <2>2. worker[r].pc \in PastConfig \/ AtLeast(store'.config, worker[r].config)
    <3>1. CASE o = "config"
      <4>1. store'.config = worker[r].config
        BY <1>1, <3>1, ObjectsUpdate DEF Put, TypeInv, TypeOK, Objects
      <4>2. worker[r].config # None => worker[r].config.spec \in Nat
        BY Numbers DEF ConfigOrNone
      <4> QED
        BY <4>1, <4>2 DEF AtLeast
    <3> QED
      BY <3>1
  <2>3. PassesMove
    BY <1>1, <2>2, GotoMoved
  <2> QED
    BY <1>0, <2>1, <2>3, SameSpecMoves
<1>2. CASE SetNotReady(r, reason) /\ NoWrite
  BY <1>0, <1>2, FailedMoved, SameStoreMoved, SameSpecMoves
<1> QED
  BY <1>1, <1>2 DEF Ensure

LEMMA InPlaceMoves ==
    ASSUME TypeInv, NEW r \in Replicas, NEW pc \in NextPcs,
           worker[r].pc # "idle", InPlace(r, pc),
           worker[r].pc \in PastConfig \/ AtLeast(store.config, worker[r].config)
    PROVE  Moves
<1>1. UNCHANGED spec /\ PodsMove /\ StoreMoves /\ UNCHANGED store
  BY SamePodsMoved, SameStoreMoved DEF InPlace, PassFrame, NoWrite
<1>2. worker[r].pc \in PastConfig \/ AtLeast(store'.config, worker[r].config)
  BY <1>1
<1>3. PassesMove
  BY <1>2, GotoMoved DEF InPlace
<1> QED
  BY <1>1, <1>3, SameSpecMoves

LEMMA ConfigSecretMoves ==
    ASSUME PodInv, NEW r \in Replicas, EnsureConfigSecret(r)
    PROVE  Moves
<1>0. /\ TypeInv /\ worker[r] \in WorkerType /\ worker[r].pc = "config"
      /\ AfterConfig(worker[r].spec) \in NextPcs
  BY DEF PodInv, TypeInv, TypeOK, EnsureConfigSecret, AfterConfig, NextPcs
<1>1. worker[r].config \in ValueType("config")
  BY <1>0 DEF WorkerType, ValueType
<1>2. CASE cache[r].config = worker[r].config /\ InPlace(r, AfterConfig(worker[r].spec))
  <2>1. AtLeast(store.config, worker[r].config)
    BY <1>2 DEF PodInv, ConfigsInv
  <2> QED
    BY <1>0, <1>2, <2>1, InPlaceMoves
<1>3. CASE Ensure(r, "config", worker[r].config, "ConfigSecret",
                  AfterConfig(worker[r].spec), "ConfigSecretError")
  BY <1>0, <1>1, <1>3, EnsureMoves DEF Objects, Calls, Reasons
<1> QED
  BY <1>2, <1>3 DEF EnsureConfigSecret

LEMMA ObjectStepsMoves ==
    ASSUME TypeInv, NEW r \in Replicas,
           EnsurePVC(r) \/ EnsureService(r) \/ EnsureDeployment(r)
    PROVE  Moves
<1>0. worker[r] \in WorkerType /\ store \in ObjectsType
  BY DEF TypeInv, TypeOK
<1>1. CASE EnsurePVC(r)
  <2>1. worker[r].pc = "pvc" /\ "exists" \in ValueType("pvc")
    BY <1>1 DEF EnsurePVC, ValueType
  <2>2. CASE InPlace(r, "svc")
    BY <2>1, <2>2, InPlaceMoves DEF NextPcs, PastConfig
  <2>3. CASE Ensure(r, "pvc", "exists", "PVC", "svc", "PVCError")
    BY <2>1, <2>3, EnsureMoves DEF Objects, Calls, Reasons, NextPcs, PastConfig
  <2> QED
    BY <1>1, <2>2, <2>3 DEF EnsurePVC
<1>2. CASE EnsureService(r)
  <2>1. worker[r].pc = "svc" /\ "exists" \in ValueType("svc")
    BY <1>2 DEF EnsureService, ValueType
  <2>2. Ensure(r, "svc", "exists", "Service", "dep", "ServiceError")
    BY <1>2 DEF EnsureService
  <2> QED
    BY <2>1, <2>2, EnsureMoves DEF Objects, Calls, Reasons, NextPcs, PastConfig
<1>3. CASE EnsureDeployment(r)
  <2> DEFINE d == DeploymentFor(store.dep, worker[r].config)
  <2>1. store.dep \in DepType \cup {None} /\ worker[r].config \in ConfigType \cup {None}
    BY <1>0 DEF ObjectsType, DepType, WorkerType
  <2>2. d \in DepType /\ d.hash = worker[r].config
    BY <2>1 DEF DeploymentFor, DepType
  <2>3. d \in ValueType("dep")
    BY <2>2 DEF ValueType
  <2> HIDE DEF d
  <2>4. worker[r].pc = "dep" /\ Ensure(r, "dep", d, "Deployment", "available",
                                       "DeploymentError")
    BY <1>3 DEF EnsureDeployment, d
  <2> QED
    BY <2>2, <2>3, <2>4, EnsureMoves DEF Objects, Calls, Reasons, NextPcs, PastConfig
<1> QED
  BY <1>1, <1>2, <1>3

\* The steps that end a pass write at most its status.
LEMMA LastStepsMoves ==
    ASSUME TypeInv, NEW r \in Replicas,
           CheckAvailable(r) \/ TokenExchange(r) \/ StatusPatch(r)
    PROVE  Moves
<1>0. UNCHANGED spec /\ PodsMove /\ worker[r].pc # "idle"
  BY SamePodsMoved DEF CheckAvailable, TokenExchange, StatusPatch, PassFrame
<1>1. CASE CheckAvailable(r) \/ TokenExchange(r)
  <2>1. \A q \in Replicas \ {r} : worker'[q] = worker[q]
    BY <1>1 DEF CheckAvailable, TokenExchange, SetNotReady, TypeInv, TypeOK
  <2>2. /\ worker'[r].pc \in {"token", "status"}
        /\ worker'[r].spec = worker[r].spec /\ worker'[r].config = worker[r].config
    BY <1>1, CheckAvailableType, TokenType
  <2>3. ASSUME NEW q \in Replicas PROVE Moved(q, worker'[q])
    <3>1. CASE q = r
      BY <1>0, <2>2, <3>1 DEF Moved, PastConfig
    <3>2. CASE q # r
      BY <2>1, <3>2 DEF Moved, PastConfig
    <3> QED
      BY <3>1, <3>2
  <2>4. StoreMoves
    BY <1>1, SameStoreMoved DEF CheckAvailable, TokenExchange
  <2> QED
    BY <1>0, <2>3, <2>4, SameSpecMoves DEF PassesMove
<1>2. CASE StatusPatch(r)
  <2> DEFINE s == MergeFrom(worker[r].base, worker[r].cur, store.status)
  <2>1. /\ worker[r].base \in StatusType /\ worker[r].cur \in StatusType
        /\ store.status \in StatusType
    BY DEF TypeInv, TypeOK, WorkerType, ObjectsType
  <2>2. s \in ValueType("status")
    BY <2>1, MergeFromType DEF ValueType
  <2> HIDE DEF s
  <2>3. Put("status", s) \/ NoWrite
    BY <1>2 DEF StatusPatch, s
  <2>4. StoreMoves
    BY <2>2, <2>3, PutMoves, SameStoreMoved DEF Objects
  <2>5. PassesMove
    BY <1>2, IdleMoved DEF StatusPatch
  <2> QED
    BY <1>0, <2>4, <2>5, SameSpecMoves
<1> QED
  BY <1>1, <1>2

-----------------------------------------------------------------------------
(* The steps of the cluster and of others *)

LEMMA DeliverMoves ==
    ASSUME TypeInv, NEW r \in Replicas, NEW o \in Objects, Deliver(r, o)
    PROVE  Moves
<1>0. UNCHANGED <<spec, store, worker, pods>>
  BY DEF Deliver
<1>1. /\ store \in ObjectsType /\ cache[r] \in ObjectsType
      /\ cache \in [Replicas -> ObjectsType]
  BY DEF TypeInv, TypeOK
<1>2. [cache[r] EXCEPT ![o] = store[o]].config \in {cache[r].config, store.config}
  BY <1>1 DEF ObjectsType, Objects
<1>3. cache' = [cache EXCEPT ![r] = [cache[r] EXCEPT ![o] = store[o]]]
  BY <1>1 DEF Deliver
<1>4. StoreMoves
  BY <1>0, <1>1, <1>2, <1>3 DEF StoreMoves
<1> QED
  BY <1>0, <1>4, SameWorkersMoved, SamePodsMoved, SameSpecMoves

LEMMA PodStepsMoves ==
    ASSUME TypeInv,
           CreatePod \/ \E p \in pods : DeletePod(p) \/ StartPod(p) \/ RestartPod(p)
    PROVE  Moves
<1>0. NoWrite /\ UNCHANGED <<spec, worker>> /\ pods \subseteq PodType
  BY DEF CreatePod, DeletePod, StartPod, RestartPod, ClusterFrame, TypeInv,
         TypeOK, PodType
<1>1. ASSUME CreatePod PROVE PodsMove
  BY <1>1 DEF CreatePod, PodsMove
<1>2. ASSUME NEW p \in pods, DeletePod(p) \/ StartPod(p) \/ RestartPod(p)
      PROVE  PodsMove
  <2>1. /\ [p EXCEPT !.config = store.config].config = store.config
        /\ [p EXCEPT !.config = store.config].hash = p.hash
        /\ [p EXCEPT !.config = None].config = None
        /\ [p EXCEPT !.config = None].hash = p.hash
    BY <1>0 DEF PodType
  <2> QED
    BY <1>2, <2>1 DEF DeletePod, StartPod, RestartPod, PodsMove
<1> QED
  BY <1>0, <1>1, <1>2, SameStoreMoved, SameWorkersMoved, SameSpecMoves

LEMMA ReportAvailableMoves == ASSUME TypeInv, ReportAvailable PROVE Moves
<1> DEFINE d == [store.dep EXCEPT !.available = (Running # {})]
<1>1. store.dep \in DepType /\ store.dep # None
  BY DEF ReportAvailable, TypeInv, TypeOK, ObjectsType, DepType
<1>2. d \in DepType /\ d.hash = store.dep.hash
  BY <1>1 DEF DepType
<1>3. d \in ValueType("dep")
  BY <1>2 DEF ValueType
<1>4. Put("dep", d) /\ UNCHANGED <<spec, worker, pods>>
  BY DEF ReportAvailable, ClusterFrame
<1> HIDE DEF d
<1>5. StoreMoves
  BY <1>1, <1>2, <1>3, <1>4, PutMoves DEF Objects
<1> QED
  BY <1>4, <1>5, SameWorkersMoved, SamePodsMoved, SameSpecMoves

LEMMA EnvironmentMoves == ASSUME Forward, TypeInv, Environment PROVE Moves
<1>1. ASSUME NEW new \in Specs, EditSpec(new) PROVE Moves
  <2>1. spec <= spec'
    BY <1>1 DEF EditSpec, Forward
  <2> QED
    BY <1>1, <2>1, SameWorkersMoved, SamePodsMoved, SameStoreMoved
       DEF EditSpec, NoWrite, Moves
<1>2. ASSUME NEW n \in SecretNames, NEW v \in SecretValues \cup {None},
             SecretChange(n, v)
      PROVE  Moves
  BY <1>2, SameWorkersMoved, SamePodsMoved, SameStoreMoved, SameSpecMoves
     DEF SecretChange, NoWrite
<1>3. ASSUME NEW o \in OthersDelete, DeleteOwned(o) PROVE Moves
  <2>1. o \in Objects /\ None \in ValueType(o)
    BY ValuesAssumption DEF Objects, ValueType
  <2>2. StoreMoves
    BY <1>3, <2>1, PutMoves DEF DeleteOwned
  <2> QED
    BY <1>3, <2>2, SameWorkersMoved, SamePodsMoved, SameSpecMoves DEF DeleteOwned
<1>4. ASSUME NEW r \in Replicas, Crash(r) PROVE Moves
  <2>1. PassesMove
    BY <1>4, IdleMoved DEF Crash
  <2>2. StoreMoves
    BY <1>4 DEF Crash, StoreMoves, TypeInv, TypeOK
  <2> QED
    BY <1>4, <2>1, <2>2, SamePodsMoved, SameSpecMoves DEF Crash
<1>5. ASSUME NEW p \in pods, RestartPod(p) PROVE Moves
  BY <1>5, PodStepsMoves
<1> QED
  BY <1>1, <1>2, <1>3, <1>4, <1>5 DEF Environment

LEMMA InitPods == Init => PodInv
<1> SUFFICES ASSUME Init PROVE PodInv
  OBVIOUS
<1>1. store = NoObjects /\ cache = [r \in Replicas |-> NoObjects] /\ pods = {}
  BY DEF Init
<1>2. NoObjects.config = None /\ NoObjects.dep = None
  BY DEF NoObjects
<1>3. \A r \in Replicas : worker[r].pc = "idle"
  BY IdlePass DEF Init
<1> QED
  BY <1>1, <1>2, <1>3, InitType
     DEF PodInv, SpecsInv, ConfigsInv, HashesInv, PodNotOlderThanHash, Running,
         Reached, AtLeast

LEMMA NextPods ==
    ASSUME OneReplica, Forward
    PROVE  PodInv /\ [Next]_vars => PodInv'
<1> SUFFICES ASSUME PodInv, [Next]_vars PROVE PodInv'
  OBVIOUS
<1>0. TypeInv /\ TypeInv'
  BY NextType DEF PodInv
<1>1. ASSUME NEW r \in Replicas, Reconcile(r) PROVE Moves
  BY <1>0, <1>1, BeginMoves, CredentialsMoves, BuildMoves, ConfigSecretMoves,
     ObjectStepsMoves, LastStepsMoves DEF Reconcile
<1>2. ASSUME Rollout PROVE Moves
  BY <1>0, <1>2, PodStepsMoves DEF Rollout
<1>3. ASSUME UNCHANGED vars PROVE Moves
  BY <1>0, <1>3, SameWorkersMoved, SamePodsMoved, SameStoreMoved, SameSpecMoves
     DEF vars, NoWrite
<1>4. Moves
  BY <1>0, <1>1, <1>2, <1>3, DeliverMoves, ReportAvailableMoves, EnvironmentMoves
     DEF Next
<1> QED
  BY <1>0, <1>4, MovesKeep

\* ensureConfigSecret comes before ensureDeployment, and a pass builds its config
\* from the newest spec it read: with one replica at work, whatever fails, lags,
\* crashes or is deleted, no pod runs an older config than the hash in its
\* template speaks of.
THEOREM PodsFollowConfig ==
    ASSUME OneReplica, Forward
    PROVE  Spec => []PodNotOlderThanHash
<1>1. Init => PodInv
  BY InitPods
<1>2. PodInv /\ [Next]_vars => PodInv'
  BY NextPods
<1>3. PodInv => PodNotOlderThanHash
  BY DEF PodInv
<1> QED
  BY <1>1, <1>2, <1>3, PTL DEF Spec

================================================================================
