-------------------------- MODULE NamedResourceProofs --------------------------
(***************************************************************************)
(* What the promise of a NamedResource amounts to, for every number of     *)
(* ids and names.  The users, roles and applications that the reconcilers  *)
(* keep have these properties because they implement NamedResource.        *)
(***************************************************************************)
EXTENDS NamedResource, TLAPS

\* The marks of ids without an object are no names, and None is no id.
MarksApart == {"unused", "gone"} \cap Names = {} /\ None \notin Ids

\* No two living objects have one name.
OneObject == \A i, j \in Living : objects[i] = objects[j] => i = j

\* The status names nothing that Keyline never handed out.
BoundHandedOut == bound # None => bound \in Ids /\ objects[bound] # "unused"

Typed == objects \in [Ids -> Names \cup {"unused", "gone"}]

NInv == Typed /\ OneObject /\ BoundHandedOut

LEMMA InitNInv == ASSUME MarksApart PROVE Init => NInv
  BY DEF MarksApart, Init, NInv, Typed, OneObject, BoundHandedOut, Living

LEMMA NextNInv == ASSUME MarksApart PROVE NInv /\ [Next]_<<objects, bound>> => NInv'
<1> SUFFICES ASSUME NInv, [Next]_<<objects, bound>> PROVE NInv'
  OBVIOUS
<1> USE DEF NInv, Typed
<1>1. ASSUME NEW id \in Ids, NEW n \in Names, Create(id, n) PROVE NInv'
  <2>1. /\ objects' \in [Ids -> Names \cup {"unused", "gone"}] /\ bound' = bound
        /\ objects'[id] = n /\ \A i \in Ids \ {id} : objects'[i] = objects[i]
    BY <1>1 DEF Create
  <2>2. OneObject'
    BY <1>1, <2>1 DEF Create, NameFree, OneObject, Living
  <2>3. BoundHandedOut'
    BY <2>1 DEF BoundHandedOut, MarksApart
  <2> QED
    BY <2>1, <2>2, <2>3
<1>2. ASSUME NEW S \in SUBSET Living, Lose(S) PROVE NInv'
  <2>1. /\ objects' \in [Ids -> Names \cup {"unused", "gone"}] /\ bound' = bound
        /\ \A i \in Ids : objects'[i] = IF i \in S THEN "gone" ELSE objects[i]
    BY <1>2 DEF Lose
  <2>2. Living' \subseteq Living /\ \A i \in Living' : objects'[i] = objects[i]
    BY <2>1 DEF Living, MarksApart
  <2>3. OneObject'
    BY <2>2 DEF OneObject
  <2>4. BoundHandedOut'
    BY <2>1 DEF BoundHandedOut
  <2> QED
    BY <2>1, <2>3, <2>4
<1>3. ASSUME NEW id \in Ids, Bind(id) PROVE NInv'
  BY <1>3 DEF Bind, OneObject, BoundHandedOut, Living
<1>4. CASE Forget \/ UNCHANGED <<objects, bound>>
  BY <1>4 DEF Forget, OneObject, BoundHandedOut, Living
<1> QED
  BY <1>1, <1>2, <1>3, <1>4 DEF Next

\* "find by name in case the status was lost": however often an object is
\* created again after it was lost or its id was forgotten, at no time are there
\* two of one name, and a status only ever names an id that Keyline handed out.
THEOREM OneObjectPerName ==
    ASSUME MarksApart
    PROVE  Safety => [](OneObject /\ BoundHandedOut)
<1>1. NInv => OneObject /\ BoundHandedOut
  BY DEF NInv
<1> QED
  BY InitNInv, NextNInv, <1>1, PTL DEF Safety

\* A status that names a living object names that one as long as it lives, or
\* nothing: what a reconciler did with it cannot end up with another object.
\* An id whose object is gone never names an object again.
THEOREM BoundToTheLiving ==
    ASSUME MarksApart
    PROVE  Safety =>
             [][\A id \in Ids :
                   /\ id = bound /\ id \in Living => bound' \in {id, None}
                   /\ objects[id] = "gone" => objects'[id] = "gone"]_<<objects, bound>>
<1> DEFINE Stays == \A id \in Ids :
                       /\ id = bound /\ id \in Living => bound' \in {id, None}
                       /\ objects[id] = "gone" => objects'[id] = "gone"
<1>1. NInv /\ [Next]_<<objects, bound>> => [Stays]_<<objects, bound>>
  <2> SUFFICES ASSUME NInv, Next, NEW id \in Ids
               PROVE  /\ id = bound /\ id \in Living => bound' \in {id, None}
                      /\ objects[id] = "gone" => objects'[id] = "gone"
    OBVIOUS
  <2>1. ASSUME NEW i \in Ids, NEW n \in Names, Create(i, n)
        PROVE  bound' = bound /\ (objects[id] = "gone" => objects'[id] = "gone")
    BY <2>1 DEF Create, NInv, Typed
  <2>2. ASSUME NEW S \in SUBSET Living, Lose(S)
        PROVE  bound' = bound /\ (objects[id] = "gone" => objects'[id] = "gone")
    BY <2>2 DEF Lose
  <2>3. ASSUME NEW i \in Ids, Bind(i) PROVE bound \notin Living /\ UNCHANGED objects
    BY <2>3 DEF Bind
  <2> QED
    BY <2>1, <2>2, <2>3 DEF Next, Forget
<1> QED
  BY InitNInv, NextNInv, <1>1, PTL DEF Safety

================================================================================
