------------------------------ MODULE MCSetups ------------------------------
(* Two setups, the managed profile each would create, and one profile of the *)
(* operator's own.                                                           *)
EXTENDS CapabilitySetups

CONSTANTS s1, s2, g1, g2, o, a, b, w

MCOwn == s1 :> g1 @@ s2 :> g2
MCWanted == s1 :> {a} @@ s2 :> {b}
MCOperatorDocs == {a :> w @@ b :> Nobody}
MCBudget == [crash |-> 1, pause |-> 1, retry |-> 1, cancel |-> 1, edit |-> 3, any |-> 3]
RollbackBudget == [crash |-> 0, pause |-> 0, retry |-> 0, cancel |-> 0, edit |-> 4, any |-> 4]
FifoBudget == [crash |-> 1, pause |-> 0, retry |-> 0, cancel |-> 0, edit |-> 0, any |-> 1]
=============================================================================
