----------------------------- MODULE NamedResource -----------------------------
(***************************************************************************)
(* What the reconcilers of users, roles and applications promise about the *)
(* object in Keyline that a custom resource stands for.  The object has a  *)
(* name and gets its id from Keyline; the id is kept in the resource's     *)
(* status, which may be lost, outdated or never written ("find by name in  *)
(* case the status was lost").  The promise: Keyline never gets a second   *)
(* object of a name, the status never leaves an object that lives for      *)
(* another one, and a resource that stays wanted ends up with an object.   *)
(*                                                                         *)
(* Keyline's own behaviour is in it too: objects disappear, one by one or  *)
(* all at once, and ids are not used again.                                *)
(***************************************************************************)
CONSTANTS Ids, Names, None

VARIABLES
    objects,  \* per id: "unused", "gone" or the name of a living object
    bound,    \* the id in the resource's stored status
    wanted    \* an input: the resource is there and can be served

Living == {id \in Ids : objects[id] \in Names}

NameFree(n) == \A id \in Ids : objects[id] # n

Init ==
    /\ objects = [id \in Ids |-> "unused"]
    /\ bound = None

Create(id, n) ==
    /\ objects[id] = "unused"
    /\ NameFree(n)
    /\ objects' = [objects EXCEPT ![id] = n]
    /\ UNCHANGED bound

Lose(S) ==
    /\ objects' = [id \in Ids |-> IF id \in S THEN "gone" ELSE objects[id]]
    /\ UNCHANGED bound

\* The id may be that of an object which is gone by now.
Bind(id) ==
    /\ bound \notin Living
    /\ objects[id] # "unused"
    /\ bound' = id
    /\ UNCHANGED objects

Forget ==
    /\ bound' = None
    /\ UNCHANGED objects

Next ==
    \/ \E id \in Ids : Bind(id) \/ \E n \in Names : Create(id, n)
    \/ \E S \in SUBSET Living : Lose(S)
    \/ Forget

Provided == <>[]wanted => <>[](bound \in Living)

\* What no step may do, whatever happens, and what finally happens.
Safety == Init /\ [][Next]_<<objects, bound>>

Spec == Safety /\ Provided

=============================================================================
