-------------------------- MODULE LeaseServerInv ---------------------------
(***************************************************************************)
(* The inductive invariant behind ExclusiveUnlessRaced, apart from its     *)
(* proof (LeaseServer_proofs) so that TLC can check it too.                *)
(*                                                                         *)
(* The invariant is about one handler at a time.  StageInv(h) says what    *)
(* the locals of h hold at each of its steps; RowInv(h) says that, unless  *)
(* a lease was stored under h's eyes, what h found in the row of ip[h] is  *)
(* still so.  ClientInv says that what a client believes is in the table,  *)
(* TableInv that no dynamic lease runs for longer than LeaseTime.  All     *)
(* but the first leave out the addresses that are waived: here those of    *)
(* static hosts and those a race was lost on; Daemon has other reasons.    *)
(***************************************************************************)
EXTENDS LeaseServer

StageInv(h) ==
    /\ pc[h] # "idle" => pkt[h] \in Packet
    /\ pc[h] = "idle" => ~await[h]
    /\ pc[h] \in Decided \cup {"deny", "row", "mark", "reply"} => ip[h] \in Addr
    /\ pc[h] \notin {"idle", "relread", "relwrite"} => pkt[h].type # "RELEASE"
    /\ pc[h] \in {"bymac", "pool", "deny", "row", "ping", "mark", "kind"}
         => pkt[h].type # "BOOTP"
    /\ pkt[h].type = "REQUEST" /\ pc[h] \in {"subnet", "kind", "lookup", "add", "update", "reply"}
         => ip[h] = pkt[h].req
    /\ pc[h] \in {"lookup", "add", "update", "reply"}
         => /\ lease[h] \in Row
            /\ lease[h].mac = pkt[h].mac /\ lease[h].state = "active"
            /\ lease[h].end <= now + LeaseTime
    /\ pc[h] = "relwrite"
         => /\ lease[h] \in Row
            /\ lease[h].mac = pkt[h].mac /\ lease[h].state = "expired"
    /\ pc[h] \in {"update", "relwrite"} => HasRow(leases, ip[h])

Granting == Decided \ {"relwrite"}

RowInv(h, waived) ==
    ip[h] \notin waived =>
        /\ pc[h] \in Granting /\ ~stale[h] /\ leases[ip[h]].state = "active"
             => leases[ip[h]].mac = pkt[h].mac \/ now > leases[ip[h]].end
        /\ pc[h] \in {"lookup", "add", "update"} /\ ~stale[h]
             /\ leases[ip[h]].state = "active" /\ leases[ip[h]].mac = pkt[h].mac
             => leases[ip[h]].end <= lease[h].end
        /\ pc[h] = "relwrite" /\ ~stale[h] /\ leases[ip[h]].state = "active"
             => leases[ip[h]].mac = pkt[h].mac
        /\ pc[h] = "reply" /\ pkt[h].type = "REQUEST" /\ await[h] /\ now < lease[h].end
             => /\ leases[ip[h]].state = "active" /\ leases[ip[h]].mac = pkt[h].mac
                /\ leases[ip[h]].end >= lease[h].end

ClientInv(waived) ==
    \A m \in Mac, a \in Addr \ waived :
        Holds(m, a) => /\ leases[a].state = "active" /\ leases[a].mac = m
                       /\ leases[a].end >= client[m].end

TableInv(waived) ==
    \A a \in Addr \ waived :
        leases[a].state = "active" => leases[a].end <= now + LeaseTime

CacheInv(waived) == \A m \in Mac : cache.static[m] \in waived \cup {NoAddr}

LeaseInv(waived) ==
    /\ TypeOK
    /\ CacheInv(waived) /\ TableInv(waived) /\ ClientInv(waived)
    /\ \A h \in Handler : StageInv(h) /\ RowInv(h, waived)

IInv == cache = Configured /\ LeaseInv(StaticAddr \cup raced)

(***************************************************************************)
(* What one handler adds: no row is ever stored behind its back, and a     *)
(* client that has released its lease has no other before the RELEASE is   *)
(* carried out.                                                            *)
(***************************************************************************)
SerialInv ==
    /\ raced = {}
    /\ \A h \in Handler :
          /\ ~stale[h]
          /\ pc[h] \in {"relread", "relwrite"}
               => pkt[h].type = "RELEASE" /\ client[pkt[h].mac].st # "bound"

(***************************************************************************)
(* What becomes of a server whose pingCheck sends no ping: its loop over   *)
(* PingRetries has no iteration, and every address counts as in use.       *)
(***************************************************************************)
\* The database has rows for the static hosts alone.
OnlyReserved == \A a \in Addr \ StaticAddr : leases[a] = NoRow

Settling == {"subnet", "kind", "lookup", "add", "update", "reply", "relwrite"}

UnpingedInv ==
    /\ OnlyReserved
    /\ \A h \in Handler : pc[h] \in Settling => ip[h] \in StaticAddr

(***************************************************************************)
(* And with one handler, what it found in the table is there until it     *)
(* writes: the inductive invariant behind OneLeasePerClient,               *)
(* MartiansAreSquatters, RenewalNeverRefused, ReleaseFrees and the         *)
(* refinement of LeaseBook.                                                *)
(***************************************************************************)
\* Client m may be given address a: no other client's lease on it lasts, or it is
\* the static address of m.
Free(m, a) ==
    \/ leases[a].state = "active" => leases[a].mac = m \/ now > leases[a].end
    \/ Static[m] = a

\* The row h writes, of its client's lease, with its end set to some past time.
Ended(h) ==
    /\ leases[ip[h]].state = "active" /\ leases[ip[h]].mac = pkt[h].mac
    /\ \E e \in 0 .. now :
          lease[h] = [leases[ip[h]] EXCEPT !.state = "expired", !.end = e]

AloneInv(h) ==
    LET m == pkt[h].mac
        row == leases[ip[h]]
    IN  /\ pc[h] = "idle" => pkt[h] = NoPacket
        /\ pc[h] \in {"bymac", "pool", "deny", "row", "ping", "mark"} => m \in Dynamic
        /\ pc[h] \in {"subnet", "kind", "lookup", "add", "update", "reply"}
             => m \in Dynamic \/ ip[h] = Static[m]
        /\ pc[h] \in {"pool", "deny", "row", "ping", "mark"}
             => \A a \in Addr : ~Live(leases[a], m)
        /\ pc[h] \in {"subnet", "kind", "lookup", "add", "update", "relwrite"} /\ m \in Dynamic
             => \A a \in Addr \ {ip[h]} : ~Live(leases[a], m)
        /\ pc[h] = "mark" /\ PingRetries > 0 => ip[h] \in Squatted \cup StaticAddr
        /\ pc[h] \in Granting => Free(m, ip[h])
        /\ pc[h] \in {"lookup", "add", "update"} /\ row.state = "active" /\ row.mac = m
             => row.end <= lease[h].end \/ Static[m] = ip[h]
        /\ pc[h] \in {"kind", "lookup", "add", "update", "reply"} /\ pkt[h].type = "REQUEST"
             => ip[h] \in Subnet
        /\ pc[h] = "add" => row = NoRow
        /\ pc[h] = "relwrite" => Ended(h)

LedgerInv ==
    /\ \A a \in Addr :
          /\ leases[a].state = "active"
               => leases[a].end <= now + LeaseTime \/ Static[leases[a].mac] = a
          /\ leases[a] # NoRow => leases[a].mac \in Dynamic \/ a \in StaticAddr
    /\ \A m \in Mac : client[m].st = "bound" => client[m].ip \in Subnet
    /\ OneLeasePerClient
    /\ PingRetries > 0 => MartiansAreSquatters

BookInv == SerialInv /\ LedgerInv /\ \A h \in Handler : AloneInv(h)
=============================================================================
