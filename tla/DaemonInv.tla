----------------------------- MODULE DaemonInv ------------------------------
(***************************************************************************)
(* The inductive invariants behind the properties of Daemon, apart from    *)
(* their proofs (Daemon_proofs) so that TLC can check them too.            *)
(*                                                                         *)
(* DInv holds of any number of handlers: LeaseInv, of LeaseServer, for the *)
(* addresses about which ExclusiveThroughReconfiguration makes no promise, *)
(* and what an API request is about to write.  PingInv is about one        *)
(* handler that pings: the address it puts on the deny list is not one     *)
(* that a client has from this server.                                     *)
(***************************************************************************)
EXTENDS Daemon, LeaseServerInv

Waived == reserved \cup raced \cup revoked

AdminInv ==
    /\ admin.pc # "idle" => admin.host \in Host /\ admin.op # "none"
    /\ admin.pc # "idle" /\ admin.op # "delete" => admin.val \in reserved
    /\ admin.pc \in {"lookup", "insert", "overwrite"} => admin.op # "delete"
    /\ admin.pc = "revoke"
         => admin.at \in Addr /\ admin.row \in Row /\ admin.row.state = "expired"
    /\ admin.pc \in {"insert", "overwrite"} => admin.at = admin.val /\ admin.row \in Row

DInv == DTypeOK /\ AdminInv /\ LeaseInv(Waived)

\* The client that h looks for an address for has no lease that lasts.
WithoutLease(h) == \A a \in Addr \ Waived : ~Live(leases[a], pkt[h].mac)

PingStage(h) ==
    /\ ~stale[h]
    /\ pc[h] \in {"pool", "deny", "row", "ping", "mark"} => WithoutLease(h)
    /\ pc[h] = "mark" => ip[h] \in Squatted \cup Waived

PingInv == DenyThroughReconfiguration /\ \A h \in Handler : PingStage(h)
=============================================================================
