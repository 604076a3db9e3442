------------------------------- MODULE Daemon -------------------------------
(***************************************************************************)
(* The daemon as a whole, as far as its leases go: LeaseServer's handlers, *)
(* step by step, and between their steps those of an API request on a      *)
(* static host (internal/api/api.go, the allocator's Refresh,              *)
(* SeedStaticLease and RevokeStaticLease), and crashes after which         *)
(* cmd/dhcpd/main.go starts the daemon again on the database that is left. *)
(*                                                                         *)
(* ConfigAdmin is about requests that overlap with each other, here there  *)
(* is one at a time, so the two reads and the assignment of its Refresh    *)
(* are one step.  The subnets do not change.  LeaseServer's constant       *)
(* Static is what is configured at first; later it is "store".             *)
(***************************************************************************)
EXTENDS LeaseServer, StaticLeases

CONSTANTS Host,         \* clients the API makes static hosts of
          MaxRequests   \* the bound on the API requests

ASSUME HostAssumption == Host \subseteq Mac /\ MaxRequests \in Nat

VARIABLES
    store,      \* the static hosts of the config provider
    admin,      \* the API request: where it is, what it asks for, and the row it
                \*   is about to write, with its address
    requests,   \* the number of API requests that reached the store
    reserved,   \* history: the addresses that were ever a static host's
    revoked     \* history: the addresses in use on which RevokeStaticLease ended
                \*   a lease

provider == <<store, requests, reserved>>
dvars == <<vars, provider, admin, revoked>>

NoRequest == [pc |-> "idle", op |-> "none", host |-> NoMac, val |-> NoAddr,
              at |-> NoAddr, row |-> NoRow]

DTypeOK ==
    /\ store \in [Mac -> Addr \cup {NoAddr}]
    /\ admin \in [pc: {"idle", "refresh", "find", "revoke", "lookup", "insert", "overwrite"},
                  op: {"none", "add", "update", "delete"}, host: Host \cup {NoMac},
                  val: Addr \cup {NoAddr}, at: Addr \cup {NoAddr}, row: Row \cup {NoRow}]
    /\ {store[m] : m \in Mac} \cup {cache.static[m] : m \in Mac} \subseteq reserved \cup {NoAddr}
    /\ admin.pc \in {"revoke", "overwrite"} => HasRow(leases, admin.at)
    /\ requests \in 0 .. MaxRequests /\ reserved \in SUBSET Addr /\ revoked \in SUBSET Addr

DInit ==
    /\ Init
    /\ store = Static
    /\ admin = NoRequest
    /\ requests = 0
    /\ reserved = StaticAddr
    /\ revoked = {}

(***************************************************************************)
(* A request on a static host.                                             *)
(***************************************************************************)
AdminGoto(label) == admin' = [admin EXCEPT !.pc = label]

AfterRevoke ==
    IF admin.op = "update"
    THEN admin' = [admin EXCEPT !.pc = "lookup", !.at = NoAddr, !.row = NoRow]
    ELSE admin' = NoRequest

\* The run of the plugin.  The statement fails when it would add a host that is
\* there, or change one that is not; the request may fail after it (a timeout).
WriteHost(op, m, a) ==
    /\ admin = NoRequest /\ requests < MaxRequests
    /\ requests' = requests + 1
    /\ (store[m] = NoAddr) <=> (op = "add")
    /\ store' = [store EXCEPT ![m] = a]
    /\ reserved' = reserved \cup ({a} \ {NoAddr})
    /\ \/ admin' = [NoRequest EXCEPT !.pc = "refresh", !.op = op, !.host = m, !.val = a]
       \/ DbFaults /\ admin' = NoRequest
    /\ UNCHANGED <<vars, revoked>>

\* A failed Refresh is only logged.
Refresh ==
    /\ admin.pc = "refresh"
    /\ AdminGoto(IF admin.op = "add" THEN "lookup" ELSE "find")
    /\ \/ cache' = [cache EXCEPT !.static = store]
       \/ DbFaults /\ cache' = cache
    /\ UNCHANGED <<db, now, pc, locals, client, await, history, provider, revoked>>

FindLease ==
    /\ admin.pc = "find"
    /\ LET found == GetLeaseByMAC(leases, admin.host)
       IN  \/ \E a \in found :
                admin' = [admin EXCEPT !.pc = "revoke", !.at = a,
                              !.row = [leases[a] EXCEPT !.state = "expired", !.end = now]]
           \/ (found = {} \/ DbFaults) /\ AfterRevoke
    /\ UNCHANGED <<vars, provider, revoked>>

\* Some client has the address, or is about to be told that it has.
InUse(a) ==
    \/ \E m \in Mac : Holds(m, a)
    \/ \E h \in Handler : pc[h] = "reply" /\ ip[h] = a

RevokeLease ==
    /\ admin.pc = "revoke"
    /\ \/ /\ leases' = UpdateLease(leases, admin.at, admin.row)
          /\ revoked' = IF InUse(admin.at) THEN revoked \cup {admin.at} ELSE revoked
       \/ DbFaults /\ UNCHANGED <<leases, revoked>>
    /\ AfterRevoke
    /\ UNCHANGED <<deny, cache, now, pc, locals, client, await, history, provider>>

\* A bug to compare with: a state of its own, of which db.go has a comment.
ReservedRow(m) == [SeededRow(m) EXCEPT !.end = now + Forever, !.state = "reserved"]

PermanentRow(m) == [SeededRow(m) EXCEPT !.end = now + Forever]

LookupAddress ==
    /\ admin.pc = "lookup"
    /\ \/ admin' = [admin EXCEPT !.pc = IF HasRow(leases, admin.val) THEN "overwrite" ELSE "insert",
                                 !.at = admin.val, !.row = PermanentRow(admin.host)]
       \/ DbFaults /\ admin' = NoRequest
    /\ UNCHANGED <<vars, provider, revoked>>

InsertSeed ==
    /\ admin.pc = "insert"
    /\ \/ CanAdd(leases, admin.at) /\ leases' = AddLease(leases, admin.at, admin.row)
       \/ (~CanAdd(leases, admin.at) \/ DbFaults) /\ UNCHANGED leases
    /\ admin' = NoRequest
    /\ UNCHANGED <<deny, cache, now, pc, locals, client, await, history, provider, revoked>>

OverwriteSeed ==
    /\ admin.pc = "overwrite"
    /\ \/ leases' = UpdateLease(leases, admin.at, admin.row)
       \/ DbFaults /\ UNCHANGED leases
    /\ admin' = NoRequest
    /\ UNCHANGED <<deny, cache, now, pc, locals, client, await, history, provider, revoked>>

(***************************************************************************)
(* The daemon dies, by a signal or a crash, and starts again: handlers and *)
(* request are gone, the tables stay, the cache is loaded and the static   *)
(* hosts are seeded.  Nothing is answered in between, so it is one step.   *)
(***************************************************************************)
\* A bug to compare with: the schema is created anew whenever the file is opened.
ReopenEmpty(t) == [a \in Addr |-> NoRow]

\* CREATE TABLE IF NOT EXISTS.
Reopen(t) == t

Restart ==
    /\ \E owner \in Owners(store) :
         leases' = SeedAll(Reopen(leases), owner, [m \in Mac |-> PermanentRow(m)])
    /\ cache' = [cache EXCEPT !.static = store]
    /\ pc' = [h \in Handler |-> "idle"]
    /\ pkt' = [h \in Handler |-> NoPacket]
    /\ ip' = [h \in Handler |-> NoAddr]
    /\ todo' = [h \in Handler |-> <<>>]
    /\ scanning' = [h \in Handler |-> FALSE]
    /\ lease' = [h \in Handler |-> NoRow]
    /\ await' = [h \in Handler |-> FALSE]
    /\ stale' = [h \in Handler |-> FALSE]
    /\ admin' = NoRequest
    /\ UNCHANGED <<deny, now, client, raced, provider, revoked>>

(***************************************************************************)
(* The system.                                                             *)
(***************************************************************************)
AdminStep ==
    \/ \E m \in Host :
          \/ \E a \in Addr, op \in {"add", "update"} : WriteHost(op, m, a)
          \/ WriteHost("delete", m, NoAddr)
    \/ Refresh \/ FindLease \/ RevokeLease
    \/ LookupAddress \/ InsertSeed \/ OverwriteSeed

DNext ==
    \/ Next /\ UNCHANGED <<provider, admin, revoked>>
    \/ AdminStep
    \/ Restart

DSpec == DInit /\ [][DNext]_dvars

(***************************************************************************)
(* Properties.                                                             *)
(***************************************************************************)
\* Whatever the API does to static hosts between two steps of a handler, and
\* whenever the daemon is restarted, no two clients hold unexpired leases on one
\* address; but for the addresses that were ever a static host's (AllocateIP
\* hands them out without a look at the table), those a race of two handlers was
\* lost on, and those on which RevokeStaticLease, which ends "any active database
\* lease" of the host, ended one that was still in use.
ExclusiveThroughReconfiguration ==
    \A a \in Addr \ (reserved \cup raced \cup revoked) :
        \A m, n \in Mac : Holds(m, a) /\ Holds(n, a) => m = n

\* The deny list, which is for ever, has no address a client is given: with the
\* same exceptions only squatters get on it.
DenyThroughReconfiguration == deny \subseteq Squatted \cup reserved \cup raced \cup revoked
=============================================================================
