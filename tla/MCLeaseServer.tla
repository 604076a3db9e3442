--------------------------- MODULE MCLeaseServer ----------------------------
(***************************************************************************)
(* Values of LeaseServer's constants for TLC.                              *)
(***************************************************************************)
EXTENDS LeaseServerInv, TLC

CONSTANTS m1, m2, m3, a1, a2, a3

NoStatic == [m \in Mac |-> NoAddr]
StaticM1 == [m \in Mac |-> IF m = m1 THEN a1 ELSE NoAddr]

PoolA1A2 == <<a1, a2>>
PoolA1 == <<a1>>
AllAddr == Addr
NetA1A2 == {a1, a2}

DynamicSymmetry == Permutations({m2, m3})
ClientSymmetry == Permutations(Mac) \cup Permutations(Handler)
=============================================================================
