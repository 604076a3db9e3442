--------------------------- MODULE ConfigAdminInv ---------------------------
(***************************************************************************)
(* The inductive invariants behind the properties of ConfigAdmin, apart    *)
(* from their proofs (ConfigAdmin_proofs) so that TLC can check them too.  *)
(*                                                                         *)
(* IInv holds of any number of requests, whatever fails.  RequestInv(r)    *)
(* says what r knows at each of its steps; GhostInv(m) follows the one     *)
(* reservation of host m through the request that moves or revokes it.     *)
(*                                                                         *)
(* FreshInv, about the copy of the configuration, holds of requests that   *)
(* do not overlap, while the plugin answers.  SerialInv holds if the lease *)
(* table answers too: a host has its reservation or a request at work to   *)
(* give it, and no packet takes it away.                                   *)
(***************************************************************************)
EXTENDS ConfigAdmin

RequestInv(r) ==
    /\ ~up => pc[r] = "idle"
    /\ pc[r] # "idle" => job[r] \in HostJob \cup NetJob
    /\ pc[r] \in {"find", "revoke", "lookup", "insert", "overwrite"} => job[r] \in HostJob
    /\ pc[r] \in {"find", "revoke"} => job[r].op # "add"
    /\ pc[r] \in {"lookup", "insert", "overwrite"} => job[r].op # "delete"
    /\ pc[r] = "revoke"
         => /\ at[r] \in Addr /\ row[r] \in Row
            /\ row[r].mac = job[r].key /\ row[r].state = "expired"
    /\ pc[r] \in {"insert", "overwrite"}
         => /\ at[r] = job[r].val /\ row[r] \in Row
            /\ row[r].mac = job[r].key /\ Permanent(row[r])

\* While r works on host m the store names the address r was given for it, and m
\* keeps one address at most: at first the one that r is to revoke, then r's own.
OneAtWork(r, m) ==
    /\ store.hosts[m] = job[r].val
    /\ \A a, b \in Addr : Keeps(m, a) /\ Keeps(m, b) => a = b
    /\ job[r].op = "add" \/ pc[r] \in {"lookup", "insert", "overwrite"}
         => \A a \in Addr : Keeps(m, a) => a = job[r].val
    /\ pc[r] = "revoke" => \A a \in Addr : Keeps(m, a) => a = at[r]

GhostInv(m) ==
    m \notin broken =>
        /\ \A q, r \in Request : Working(q, m) /\ Working(r, m) => q = r
        /\ \A r \in Request : Working(r, m) => OneAtWork(r, m)
        /\ (\A r \in Request : ~Working(r, m))
              => \A a \in Addr : Keeps(m, a) => store.hosts[m] = a

IInv ==
    /\ TypeOK
    /\ now <= MaxTime
    /\ \A r \in Request : RequestInv(r)
    /\ \A m \in Mac : GhostInv(m)
    /\ Doubled(store) \subseteq contested

(***************************************************************************)
(* One request at a time.                                                  *)
(***************************************************************************)
Refreshing == {"nets", "hosts", "install"}

FreshInv ==
    up => /\ (\A r \in Request : pc[r] \notin Refreshing) => cache = store
          /\ \A r \in Request :
                /\ pc[r] = "hosts" => fetched[r].nets = store.nets
                /\ pc[r] = "install" => fetched[r] = store

\* The copy and the store name an address for two hosts only if it is contested, also
\* while the copy is behind: AllocateIP gives nobody the address of another host.
CopyInv ==
    up => \A m, n \in Mac, a \in Addr :
              m # n /\ cache.hosts[m] = a /\ store.hosts[n] = a => a \in contested

\* What the request at work has still to do.
WorkInv(r) ==
    /\ Committed(r) /\ job[r].kind = "hosts" => store.hosts[job[r].key] = job[r].val
    /\ pc[r] = "revoke"
         => \A m \in Mac \ Dhcp :
                m # job[r].key /\ store.hosts[m] = at[r] => at[r] \in contested
    /\ pc[r] = "insert" /\ HasRow(leases, at[r]) => at[r] \in contested
    /\ pc[r] = "overwrite" => HasRow(leases, at[r])

\* A host that sends no packets has its reservation, or a request at work to give it.
KeptInv ==
    up => \A m \in Mac \ Dhcp, a \in Addr \ contested :
              store.hosts[m] = a => Keeps(m, a) \/ \E r \in Request : Working(r, m)

SerialInv == FreshInv /\ CopyInv /\ KeptInv /\ \A r \in Request : WorkInv(r)
=============================================================================
