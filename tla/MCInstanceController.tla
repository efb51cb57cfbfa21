------------------------- MODULE MCInstanceController -------------------------
(***************************************************************************)
(* Finite instances of InstanceController for TLC.                         *)
(***************************************************************************)
EXTENDS InstanceController

\* Every edit goes to a spec that was not submitted before.
Forward == {e \in Specs \X Specs : e[1] < e[2]}

\* An edit may go back to an earlier spec.
AnyEdit == {e \in Specs \X Specs : e[1] # e[2]}

B(fault, edit, secret, crash, delete, restart) ==
    [kind \in BudgetKinds |->
        CASE kind = "fault" -> fault
          [] kind = "edit" -> edit
          [] kind = "secret" -> secret
          [] kind = "crash" -> crash
          [] kind = "delete" -> delete
          [] kind = "restart" -> restart]

SafetyBudget == B(1, 1, 0, 1, 0, 1)
TwoReplicasBudget == B(1, 0, 0, 1, 0, 0)
ServesBudget == B(1, 1, 1, 1, 1, 1)
RevertBudget == B(1, 2, 0, 0, 0, 1)

=============================================================================
