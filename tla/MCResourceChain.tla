---------------------------- MODULE MCResourceChain ----------------------------
(***************************************************************************)
(* Finite instances of ResourceChain for TLC.                              *)
(***************************************************************************)
EXTENDS ResourceChain

CONSTANTS shop, x, y, d

\* What Keyline gives fields that nobody set.
Fresh == [f \in RealmFields |-> d]
FreshApp == [f \in AppFields |->
                IF f \in {"claimsMappingScript", "signingAlgorithm", "postLogoutUris"}
                THEN None ELSE d]

\* The virtual server's spec sets one field, and later another as well.
Set(fields) == [f \in RealmFields |-> IF f \in fields THEN x ELSE None]
OneField == {Set({"require2fa"})}
OneFieldOrTwo == OneField \cup {Set({"require2fa", "displayName"})}

App(set) ==
    [name |-> shop,
     fields |-> [f \in AppFields |-> IF f \in set THEN y
                                     ELSE IF f \in Optional THEN None ELSE x]]

\* Of the optional fields one spec sets the one that the creation leaves to a
\* later pass and the one that is compared only if set, the other none.
Scripted == {App({"claimsMappingScript", "accessTokenHeaderType"})}
ScriptedOrNot == Scripted \cup {App({"displayName"})}

\* An override of the signing algorithm, and none.
Overriding == {App({"signingAlgorithm"})}
OverridingOrNot == Overriding \cup {App({})}

ChainBudget == [fault |-> 1, change |-> 1]
OneEdit == [fault |-> 0, change |-> 1]

=============================================================================
