--------------------------- MODULE MCConfigAdmin ---------------------------
(***************************************************************************)
(* Values of ConfigAdmin's constants for TLC.                              *)
(***************************************************************************)
EXTENDS ConfigAdminInv, TLC

CONSTANTS m1, m2, m3

M1 == {m1}
M1M2 == {m1, m2}
M3 == {m3}

HostSymmetry == Permutations(Host) \cup Permutations(Addr)
RequestSymmetry == Permutations(Request) \cup Permutations(Host) \cup Permutations(Addr)
=============================================================================
