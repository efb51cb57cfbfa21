----------------------------- MODULE MCRoleBinding -----------------------------
(***************************************************************************)
(* A finite instance of RoleBinding for TLC.                               *)
(***************************************************************************)
EXTENDS RoleBinding

CONSTANTS admin, da, db

\* One name with two descriptions, of which either may as well be the first.
Redescribed == {[name |-> admin, description |-> d] : d \in {da, db}}

FirstDescribed == {[name |-> admin, description |-> da]}

BindingBudget ==
    [fault |-> 1, change |-> 2]

=============================================================================
