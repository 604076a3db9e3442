------------------------------ MODULE MCDaemon ------------------------------
(***************************************************************************)
(* Values of Daemon's constants for TLC.                                   *)
(***************************************************************************)
EXTENDS DaemonInv, TLC

CONSTANTS m1

M1 == {m1}
NoStatic == [m \in Mac |-> NoAddr]
NoPool == <<>>
AllAddr == Addr
NoAddresses == {}

AddrSymmetry == Permutations(Addr)
=============================================================================
