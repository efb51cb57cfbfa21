---------------------------- MODULE StatusPatcher ----------------------------
(***************************************************************************)
(* internal/controller/helpers.go: how every reconciler of the operator    *)
(* writes the status of the object it reconciles.                          *)
(*                                                                         *)
(* newStatusPatcher deep-copies the object right after it was read; the    *)
(* reconciler then mutates its own copy, and setReady / setNotReady sends  *)
(* the JSON merge patch from the snapshot to the copy.  The patch carries  *)
(* no resourceVersion: a field that the reconciler did not change is left  *)
(* as it is stored, a field that it did change replaces the stored one     *)
(* whole, lists included.                                                  *)
(*                                                                         *)
(* A condition is abstracted to its status and reason; its message and its *)
(* transition time are left out.                                           *)
(***************************************************************************)

\* An object whose status was never written has no Ready condition.
NoCondition == [ready |-> FALSE, reason |-> "NoCondition"]

setNotReadyCondition(status, reason) ==
    [status EXCEPT !.cond = [ready |-> FALSE, reason |-> reason]]

setReadyCondition(status, reason) ==
    [status EXCEPT !.cond = [ready |-> TRUE, reason |-> reason]]

\* meta.IsStatusConditionTrue(status.Conditions, ConditionReady)
IsReady(status) == status.cond.ready

\* The status stored once the merge patch from base to obj is applied to stored.
MergeFrom(base, obj, stored) ==
    [f \in DOMAIN stored |-> IF obj[f] # base[f] THEN obj[f] ELSE stored[f]]

=============================================================================
