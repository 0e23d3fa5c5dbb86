--------------------------- MODULE MCTargetOrders ---------------------------
(* Instances of TargetOrders with one or two assets and agents. *)
EXTENDS TargetOrders, TLC

CONSTANTS a1, a2, g1, g2

(* No definition tells the agents apart. *)
AgentSymmetry == Permutations({g1, g2})

NeverExpires == [a \in Assets |-> NA]

(* The contract a2 expires before the last boundary. *)
A2Expires == [a \in Assets |-> IF a = a2 THEN 3 ELSE NA]

(* ... or at the last one. *)
A2ExpiresLast == [a \in Assets |-> IF a = a2 THEN 4 ELSE NA]

FullUniverse == {Assets}

(* All assets, or only the first. *)
FullOrFirst == {Assets, {a1}}
=============================================================================
