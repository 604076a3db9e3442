---------------------------- MODULE ConfigAdmin ----------------------------
(***************************************************************************)
(* The configuration: the config-provider plugin and its database          *)
(* (internal/plugin/manager.go, cmd/plugins/sqlite3-config,                *)
(* internal/sqlite3store), the handlers of internal/api/api.go that change *)
(* it, the allocator's copy of it, the leases stored for static hosts, and *)
(* the start of the daemon (cmd/dhcpd/main.go).                            *)
(*                                                                         *)
(* An API request is a process.  It runs the plugin once to write, then    *)
(* reloads the allocator's copy (two more runs of the plugin, then the     *)
(* assignment under the lock), then brings the lease table in line with    *)
(* the static host it changed.  Nothing is locked from one of these steps  *)
(* to the next, so requests overlap.  A run of the plugin is one step.     *)
(*                                                                         *)
(* DHCP packets take one step here; LeaseServer is about their insides.    *)
(***************************************************************************)
EXTENDS StaticLeases

CONSTANTS Net,          \* subnets, by network address
          Settings,     \* what a subnet may be set to
          Host,         \* clients the API makes static hosts of
          Dhcp,         \* clients that send DHCP packets
          Request,      \* the API requests that can be under way at one time
          PluginFaults, \* whether a run of the plugin may fail, or time out
          DbFaults,     \* whether a query on the lease table may fail
          LeaseTime, Forever, MaxTime

ASSUME PartiesAssumption == Host \subseteq Mac /\ Dhcp \subseteq Mac
ASSUME SettingsAssumption == NoAddr \notin Settings
ASSUME FaultsAssumption == PluginFaults \in BOOLEAN /\ DbFaults \in BOOLEAN
ASSUME TimesAssumption ==
    /\ LeaseTime \in Nat /\ Forever \in Nat /\ MaxTime \in Nat
    /\ LeaseTime + MaxTime < Forever

VARIABLES
    store,      \* the plugin's database
    cache,      \* the allocator's subnets and static
    leases, now,
    up,         \* the daemon runs
    pc,         \* pc[r]: where request r is
    job,        \* job[r]: what it asks for
    fetched,    \* fetched[r]: what its Refresh has read
    at, row,    \* the row it is about to write, and its address
    broken,     \* history: hosts with a request cut short, or with two at a time
    contested   \* history: addresses configured for two hosts at a time, or leased
                \* to a client while a request was about to add a row for them

reads == <<fetched, at, row>>
daemon == <<cache, up>>
history == <<broken, contested>>
vars == <<store, cache, leases, now, up, pc, job, fetched, at, row, broken, contested>>

(***************************************************************************)
(* Types.  NoAddr marks what is not configured.                            *)
(***************************************************************************)
Config == [nets: [Net -> Settings \cup {NoAddr}], hosts: [Mac -> Addr \cup {NoAddr}]]

EmptyConfig == [nets |-> [n \in Net |-> NoAddr], hosts |-> [m \in Mac |-> NoAddr]]

HostJob ==
    [kind: {"hosts"}, op: {"add", "update"}, key: Host, val: Addr]
        \cup [kind: {"hosts"}, op: {"delete"}, key: Host, val: {NoAddr}]

NetJob ==
    [kind: {"nets"}, op: {"add", "update"}, key: Net, val: Settings]
        \cup [kind: {"nets"}, op: {"delete"}, key: Net, val: {NoAddr}]

NoJob == [kind |-> "none", op |-> "none", key |-> NoMac, val |-> NoAddr]

PC == {"idle", "write", "nets", "hosts", "install", "find", "revoke", "lookup",
       "insert", "overwrite"}

TypeOK ==
    /\ store \in Config /\ cache \in Config
    /\ leases \in Table
    /\ now \in Nat
    /\ up \in BOOLEAN
    /\ pc \in [Request -> PC]
    /\ job \in [Request -> HostJob \cup NetJob \cup {NoJob}]
    /\ fetched \in [Request -> Config]
    /\ at \in [Request -> Addr \cup {NoAddr}]
    /\ row \in [Request -> Row \cup {NoRow}]
    /\ broken \in SUBSET Mac /\ contested \in SUBSET Addr

\* A request whose write is in the store and which is not done.
Committed(r) == pc[r] \notin {"idle", "write"}

\* The addresses two hosts are configured for.
Doubled(config) ==
    {a \in Addr : \E m, n \in Mac : m # n /\ config.hosts[m] = a /\ config.hosts[n] = a}

Init ==
    /\ store = EmptyConfig /\ cache = EmptyConfig
    /\ leases = [a \in Addr |-> NoRow]
    /\ now = 0
    /\ up = TRUE
    /\ pc = [r \in Request |-> "idle"]
    /\ job = [r \in Request |-> NoJob]
    /\ fetched = [r \in Request |-> EmptyConfig]
    /\ at = [r \in Request |-> NoAddr]
    /\ row = [r \in Request |-> NoRow]
    /\ broken = {} /\ contested = {}

(***************************************************************************)
(* Ways for a request to go on.                                            *)
(***************************************************************************)
Goto(r, label) == pc' = [pc EXCEPT ![r] = label]

Forget(r) ==
    /\ job' = [job EXCEPT ![r] = NoJob]
    /\ fetched' = [fetched EXCEPT ![r] = EmptyConfig]
    /\ at' = [at EXCEPT ![r] = NoAddr]
    /\ row' = [row EXCEPT ![r] = NoRow]

Done(r) == Goto(r, "idle") /\ Forget(r)

Continue(r, label) ==
    /\ Goto(r, label)
    /\ at' = [at EXCEPT ![r] = NoAddr]
    /\ row' = [row EXCEPT ![r] = NoRow]
    /\ fetched' = [fetched EXCEPT ![r] = EmptyConfig]
    /\ job' = job

\* A bug to compare with: neither update nor delete revokes the old lease.
AfterRefreshNoRevoke(r) ==
    IF job[r].kind = "nets" \/ job[r].op = "delete" THEN Done(r) ELSE Continue(r, "lookup")

\* After Refresh, which may have failed: a failure is only logged.
AfterRefresh(r) ==
    IF job[r].kind = "nets" THEN Done(r)
    ELSE Continue(r, IF job[r].op = "add" THEN "lookup" ELSE "find")

\* A bug to compare with: an update does not store the lease for the new address.
AfterRevokeNoSeed(r) == Done(r)

AfterRevoke(r) == IF job[r].op = "update" THEN Continue(r, "lookup") ELSE Done(r)

(***************************************************************************)
(* The write: add, update and delete, of subnets and of static hosts.  The *)
(* statement of internal/sqlite3store fails when it would add what is      *)
(* there, or change what is not.  A run of the plugin that times out, or   *)
(* whose answer is lost, is reported as failed whether or not the          *)
(* statement was carried out, and the handler stops there.                 *)
(***************************************************************************)
Accept(r, j) ==
    /\ up /\ pc[r] = "idle"
    /\ Goto(r, "write")
    /\ job' = [job EXCEPT ![r] = j]
    /\ UNCHANGED <<store, daemon, leases, now, reads, history>>

Applies(j) == (store[j.kind][j.key] = NoAddr) <=> (j.op = "add")

Store(j) ==
    /\ store' = [store EXCEPT ![j.kind][j.key] = j.val]
    /\ contested' = contested \cup Doubled(store')

\* Another request on the same static host is between its write and its end.
Overlaps(r) ==
    /\ job[r].kind = "hosts"
    /\ \E q \in Request \ {r} : Committed(q) /\ job[q].key = job[r].key

Break(r, is) ==
    broken' = IF is /\ job[r].kind = "hosts" THEN broken \cup {job[r].key} ELSE broken

RunWrite(r) ==
    /\ pc[r] = "write"
    /\ \/ /\ Applies(job[r])
          /\ Store(job[r])
          /\ Continue(r, "nets")
          /\ Break(r, Overlaps(r))
       \/ /\ PluginFaults /\ Applies(job[r])
          /\ Store(job[r])
          /\ Done(r)
          /\ Break(r, TRUE)
       \/ /\ ~Applies(job[r]) \/ PluginFaults
          /\ Done(r)
          /\ UNCHANGED <<store, history>>
    /\ UNCHANGED <<daemon, leases, now>>

(***************************************************************************)
(* Refresh.                                                                *)
(***************************************************************************)
FetchSubnets(r) ==
    /\ pc[r] = "nets"
    /\ \/ /\ Goto(r, "hosts")
          /\ fetched' = [fetched EXCEPT ![r].nets = store.nets]
          /\ UNCHANGED <<job, at, row>>
       \/ PluginFaults /\ AfterRefresh(r)
    /\ UNCHANGED <<store, daemon, leases, now, history>>

FetchStaticHosts(r) ==
    /\ pc[r] = "hosts"
    /\ \/ /\ Goto(r, "install")
          /\ fetched' = [fetched EXCEPT ![r].hosts = store.hosts]
          /\ UNCHANGED <<job, at, row>>
       \/ PluginFaults /\ AfterRefresh(r)
    /\ UNCHANGED <<store, daemon, leases, now, history>>

\* A bug to compare with: only the static hosts are replaced.
LoadHosts(config) == [cache EXCEPT !.hosts = config.hosts]

Load(config) == config

Install(r) ==
    /\ pc[r] = "install"
    /\ cache' = Load(fetched[r])
    /\ AfterRefresh(r)
    /\ UNCHANGED <<store, up, leases, now, history>>

(***************************************************************************)
(* RevokeStaticLease, in the update and the delete of a static host.       *)
(***************************************************************************)
FindLease(r) ==
    /\ pc[r] = "find"
    /\ LET found == GetLeaseByMAC(leases, job[r].key)
       IN  \/ \E a \in found :
                /\ Goto(r, "revoke")
                /\ at' = [at EXCEPT ![r] = a]
                /\ row' = [row EXCEPT ![r] = [leases[a] EXCEPT !.state = "expired", !.end = now]]
                /\ UNCHANGED <<job, fetched, broken>>
           \/ found = {} /\ AfterRevoke(r) /\ UNCHANGED broken
           \/ DbFaults /\ AfterRevoke(r) /\ Break(r, TRUE)
    /\ UNCHANGED <<store, daemon, leases, now, contested>>

RevokeLease(r) ==
    /\ pc[r] = "revoke"
    /\ \/ leases' = UpdateLease(leases, at[r], row[r]) /\ UNCHANGED broken
       \/ DbFaults /\ Break(r, TRUE) /\ UNCHANGED leases
    /\ AfterRevoke(r)
    /\ UNCHANGED <<store, daemon, now, contested>>

(***************************************************************************)
(* SeedStaticLease, in the add and the update of a static host, and for    *)
(* every host when the daemon starts.                                      *)
(***************************************************************************)
\* A bug to compare with: a state of its own, of which db.go has a comment.
ReservedRow(m) == [mac |-> m, end |-> now + Forever, state |-> "reserved", static |-> TRUE]

SeededRow(m) == [mac |-> m, end |-> now + Forever, state |-> "active", static |-> TRUE]

LookupAddress(r) ==
    /\ pc[r] = "lookup"
    /\ \/ /\ Goto(r, IF HasRow(leases, job[r].val) THEN "overwrite" ELSE "insert")
          /\ at' = [at EXCEPT ![r] = job[r].val]
          /\ row' = [row EXCEPT ![r] = SeededRow(job[r].key)]
          /\ UNCHANGED <<job, fetched>>
       \/ DbFaults /\ Done(r)
    /\ UNCHANGED <<store, daemon, leases, now, history>>

InsertSeed(r) ==
    /\ pc[r] = "insert"
    /\ \/ CanAdd(leases, at[r]) /\ leases' = AddLease(leases, at[r], row[r])
       \/ (~CanAdd(leases, at[r]) \/ DbFaults) /\ UNCHANGED leases
    /\ Done(r)
    /\ UNCHANGED <<store, daemon, now, history>>

OverwriteSeed(r) ==
    /\ pc[r] = "overwrite"
    /\ \/ leases' = UpdateLease(leases, at[r], row[r])
       \/ DbFaults /\ UNCHANGED leases
    /\ Done(r)
    /\ UNCHANGED <<store, daemon, now, history>>

(***************************************************************************)
(* The daemon stops, by a signal or a crash, and its memory and its        *)
(* requests are gone; the two databases stay.  Before it starts again the  *)
(* configuration may be edited by other means (config.json5 by hand, the   *)
(* migration tool).                                                        *)
(***************************************************************************)
Stop ==
    /\ up
    /\ up' = FALSE
    /\ cache' = EmptyConfig
    /\ pc' = [r \in Request |-> "idle"]
    /\ job' = [r \in Request |-> NoJob]
    /\ fetched' = [r \in Request |-> EmptyConfig]
    /\ at' = [r \in Request |-> NoAddr]
    /\ row' = [r \in Request |-> NoRow]
    /\ broken' = broken \cup {job[r].key : r \in {q \in Request : Committed(q) /\ job[q].kind = "hosts"}}
    /\ UNCHANGED <<store, leases, now, contested>>

Edit(m, a) ==
    /\ ~up
    /\ store' = [store EXCEPT !.hosts[m] = a]
    /\ broken' = broken \cup {m}
    /\ contested' = contested \cup Doubled(store')
    /\ UNCHANGED <<daemon, leases, now, pc, job, reads>>

Start ==
    /\ ~up
    /\ up' = TRUE
    /\ cache' = store
    /\ \E owner \in Owners(store.hosts) :
         leases' = SeedAll(leases, owner, [m \in Mac |-> SeededRow(m)])
    /\ UNCHANGED <<store, now, pc, job, reads, history>>

(***************************************************************************)
(* DHCP packets, of clients that ask for any address.                      *)
(***************************************************************************)
\* The addresses AllocateIP may give client m.
Allocatable(m) ==
    LET static == cache.hosts[m]
        held == {a \in GetLeaseByMAC(leases, m) : now < leases[a].end}
    IN  IF static # NoAddr THEN {static}
        ELSE IF held # {} THEN held
        ELSE {a \in Addr : RowFree(leases[a], m, now)}

\* A REQUEST that is acknowledged: AllocateIP, then CreateLease.
Grant(m, a) ==
    /\ up
    /\ a \in Allocatable(m)
    /\ LET new == [mac |-> m, end |-> now + LeaseTime, state |-> "active",
                   static |-> cache.hosts[m] # NoAddr]
       IN  leases' = IF HasRow(leases, a) THEN UpdateLease(leases, a, new)
                     ELSE AddLease(leases, a, new)
    /\ contested' = IF \E r \in Request : pc[r] = "insert" /\ at[r] = a
                    THEN contested \cup {a} ELSE contested
    /\ UNCHANGED <<store, daemon, now, pc, job, reads, broken>>

Release(m) ==
    /\ up
    /\ \E a \in GetLeaseByMAC(leases, m) :
         leases' = UpdateLease(leases, a, [leases[a] EXCEPT !.state = "expired", !.end = now])
    /\ UNCHANGED <<store, daemon, now, pc, job, reads, history>>

Tick ==
    /\ now < MaxTime
    /\ now' = now + 1
    /\ UNCHANGED <<store, daemon, leases, pc, job, reads, history>>

(***************************************************************************)
(* The system.                                                             *)
(***************************************************************************)
Step(r) ==
    \/ \E j \in HostJob \cup NetJob : Accept(r, j)
    \/ RunWrite(r) \/ FetchSubnets(r) \/ FetchStaticHosts(r) \/ Install(r)
    \/ FindLease(r) \/ RevokeLease(r)
    \/ LookupAddress(r) \/ InsertSeed(r) \/ OverwriteSeed(r)

Next ==
    \/ \E r \in Request : Step(r)
    \/ \E m \in Dhcp : Release(m) \/ \E a \in Addr : Grant(m, a)
    \/ Stop \/ Start \/ \E m \in Host, a \in Addr \cup {NoAddr} : Edit(m, a)
    \/ Tick

Spec == Init /\ [][Next]_vars

(***************************************************************************)
(* Properties.                                                             *)
(***************************************************************************)
Quiet == up /\ \A r \in Request : pc[r] = "idle"

\* A lease no client ever asked for: it is stored for a static host.
Permanent(lease) == lease.state = "active" /\ lease.end >= Forever

\* Address a is kept for client m.
Keeps(m, a) == Permanent(leases[a]) /\ leases[a].mac = m

\* Request r is on static host m, and its write is in the store.
Working(r, m) == Committed(r) /\ job[r].kind = "hosts" /\ job[r].key = m

\* When every request has been answered, the allocator decides on what the
\* store says: refreshAllocator, in every handler that writes, sees to it.
CacheFresh == Quiet => cache = store

\* When every request has been answered, each static host that sends no DHCP packets
\* (CreateLease would make its reservation an ordinary lease) has its reservation,
\* whatever hosts were moved, deleted or given each other's old address before,
\* and whenever the daemon was stopped; unless its address is another host's too,
\* or a client got in between the query and the INSERT of SeedStaticLease.
Reserved ==
    Quiet =>
        \A m \in Mac \ Dhcp :
            LET a == store.hosts[m]
            IN  a # NoAddr /\ a \notin contested => Keeps(m, a)

\* RevokeStaticLease leaves no reservation behind: an address is kept for a
\* host for a hundred years only while it is configured, or a request on the host
\* is still at work; unless two requests on that host overlapped, or one was cut
\* short after its write, or the host was edited while the daemon was down.
NoGhostReservation ==
    \A m \in Mac, a \in Addr :
        Keeps(m, a) => \/ store.hosts[m] = a
                       \/ m \in broken
                       \/ \E r \in Request : Working(r, m)
=============================================================================
