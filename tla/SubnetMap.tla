----------------------------- MODULE SubnetMap ------------------------------
(***************************************************************************)
(* What a config-provider promises of its subnets: a map from networks to  *)
(* definitions, in which a definition is added, replaced or removed as a   *)
(* whole.  SubnetStore, which keeps a definition in the rows of several    *)
(* tables and may be killed between any two statements, implements it.     *)
(***************************************************************************)
CONSTANTS Net, Value, NoValue

VARIABLE subnets

Init == subnets = [n \in Net |-> NoValue]

Add(n, v) == subnets[n] = NoValue /\ subnets' = [subnets EXCEPT ![n] = v]

Replace(n, v) == subnets[n] # NoValue /\ subnets' = [subnets EXCEPT ![n] = v]

Remove(n) == subnets[n] # NoValue /\ subnets' = [subnets EXCEPT ![n] = NoValue]

Next == \E n \in Net : Remove(n) \/ \E v \in Value : Add(n, v) \/ Replace(n, v)

Spec == Init /\ [][Next]_subnets
=============================================================================
