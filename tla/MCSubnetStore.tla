--------------------------- MODULE MCSubnetStore ----------------------------
(***************************************************************************)
(* Values of SubnetStore's constants for TLC: two networks, two            *)
(* definitions that differ in every list, two of the three added columns.  *)
(***************************************************************************)
EXTENDS SubnetStoreInv, TLC

CONSTANTS n1, n2, v1, v2, ranges, routers

Networks == <<n1, n2>>
Tables == <<ranges, routers>>
ListsOf == [v \in Value |-> [t \in Table |->
               IF v = v1 THEN (IF t = ranges THEN <<1, 2>> ELSE <<>>)
                         ELSE (IF t = ranges THEN <<3>> ELSE <<4>>)]]
BootpColumns == <<"next_server", "server_hostname">>

ProcSymmetry == Permutations(Proc)
=============================================================================
