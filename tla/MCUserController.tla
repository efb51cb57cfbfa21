--------------------------- MODULE MCUserController ---------------------------
(***************************************************************************)
(* Finite instances of UserController for TLC.                             *)
(***************************************************************************)
EXTENDS UserController

CONSTANTS k1, k2, k3, p1, alice, d1

Keys(S, pem) == [k \in Kids |-> IF k \in S THEN pem ELSE None]

MCSpec(name, display, S, pem) ==
    [username |-> name, display |-> display, keys |-> Keys(S, pem)]

\* One name, a display name, and every set of the kids k1 and k2.
KeySpecs == {MCSpec(alice, d1, S, p1) : S \in SUBSET {k1, k2}}

\* No display name, one key.
SwapSpecs == {MCSpec(alice, None, {k}, p1) : k \in {k1, k2}}

\* No display name, one key or none.
OneKeySpecs == {MCSpec(alice, None, S, p1) : S \in {{}, {k1}}}

\* The display name and the keys vary together.
DisplaySpecs == {MCSpec(alice, None, {k1}, p1), MCSpec(alice, d1, {k2}, p1)}

B(fault, edit, delete, crash, outOfBand, dep) ==
    [kind \in BudgetKinds |->
        CASE kind = "fault" -> fault
          [] kind = "edit" -> edit
          [] kind = "delete" -> delete
          [] kind = "crash" -> crash
          [] kind = "outOfBand" -> outOfBand
          [] kind = "deps" -> dep]

\* Nothing but edits of the object.
Quiet == B(0, 2, 0, 0, 0, 0)
SafetyBudget == B(1, 1, 1, 1, 1, 1)
KeysBudget == B(2, 2, 0, 0, 1, 1)
RemoveFailsBudget == B(1, 2, 0, 0, 0, 0)
RecreatedBudget == B(0, 1, 0, 0, 1, 0)

=============================================================================
