------------------------- MODULE MCLeaseServerLive --------------------------
(***************************************************************************)
(* Values of LeaseServerLive's constants for TLC: addresses are integers   *)
(* below Modulus, and Pool is what the scan of two configured ranges       *)
(* tries, of which the first is written the wrong way round.               *)
(***************************************************************************)
EXTENDS LeaseServerLive, RangeScan

NoStatic == [m \in Mac |-> NoAddr]

Ranges == << [start |-> 4, end |-> 1], [start |-> 1, end |-> 4] >>

ScannedPool == ScanOrder(Ranges)

AllAddr == Addr
=============================================================================
