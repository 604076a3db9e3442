---------------------------- MODULE LeaseServer -----------------------------
(***************************************************************************)
(* The DHCP server: the packet handlers of internal/dhcp/server.go, each a *)
(* goroutine of its own, with the calls they make into                     *)
(* internal/allocator/allocator.go and, through it, into the tables of     *)
(* internal/db/db.go.                                                      *)
(*                                                                         *)
(* A handler is a process.  It takes one step for each thing that other    *)
(* goroutines can come between: a query, a ping, a read of the allocator's *)
(* cached configuration, the reply.  Nothing is locked from one step to    *)
(* the next, and every handler may be at any step at any time.             *)
(*                                                                         *)
(* The clients are external: "client" holds what each believes of its own  *)
(* lease, which is what the server's answers are good for.                 *)
(***************************************************************************)
EXTENDS LeaseTable, Integers, Sequences

CONSTANTS Handler,      \* the goroutines that can exist at one time
          Static,       \* the static address of each client, or NoAddr
          Pool,         \* the addresses of the dynamic ranges, in scan order
          Subnet,       \* the addresses that lie in a configured subnet
          BootpSubnet,  \* those whose subnet has enable_bootp
          Squatted,     \* addresses some host took without a lease
          LeaseTime, PingRetries,   \* as in config.Global
          Forever,      \* the end of a lease of a hundred years
          DbFaults,     \* whether a query may fail
          LossyNet,     \* whether a reply may be lost
          MaxTime       \* the bound on the clock

ASSUME HandlerAssumption == Handler # {}
ASSUME StaticAssumption == Static \in [Mac -> Addr \cup {NoAddr}]
ASSUME ConfigAssumption ==
    /\ Pool \in Seq(Addr)
    /\ Subnet \subseteq Addr
    /\ BootpSubnet \subseteq Subnet
    /\ Squatted \subseteq Addr
ASSUME TimeAssumption ==
    /\ LeaseTime \in Nat /\ PingRetries \in Int /\ Forever \in Nat /\ MaxTime \in Nat
ASSUME FaultAssumption == DbFaults \in BOOLEAN /\ LossyNet \in BOOLEAN

VARIABLES
    leases, deny,   \* the database
    cache,          \* what the allocator last loaded from the config provider
    now,            \* the clock
    pc,             \* pc[h]: where handler h is
    pkt,            \* pkt[h]: the packet it handles
    ip,             \* ip[h]: the address it considers, and then has chosen
    todo,           \* todo[h]: the addresses of the range scan still to try
    scanning,       \* scanning[h]: the scan has begun, the requested address is done
    lease,          \* lease[h]: the *db.Lease it is about to write
    client,         \* client[m]: the lease client m believes it has
    await,          \* await[h]: the client still accepts h's reply
    stale,          \* history: another handler stored a lease at ip[h] after h decided
    raced           \* history: the addresses a race was lost on

db == <<leases, deny>>
locals == <<pkt, ip, todo, scanning, lease>>
history == <<stale, raced>>
vars == <<leases, deny, cache, now, pc, pkt, ip, todo, scanning, lease, client,
          await, stale, raced>>

(***************************************************************************)
(* Types.                                                                  *)
(***************************************************************************)
Packet == [type: {"DISCOVER", "REQUEST", "RELEASE", "BOOTP"}, mac: Mac,
           req: Addr \cup {NoAddr}]

NoPacket == [type |-> "NONE", mac |-> NoMac, req |-> NoAddr]

Cache == [static: [Mac -> Addr \cup {NoAddr}], pool: Seq(Addr),
          nets: SUBSET Addr, bootp: SUBSET Addr]

Configured == [static |-> Static, pool |-> Pool, nets |-> Subnet,
               bootp |-> BootpSubnet]

Unbound == [st |-> "init", ip |-> NoAddr, end |-> 0]

Client == [st: {"init", "offered", "bound"}, ip: Addr \cup {NoAddr}, end: Nat]

PC == {"idle", "static", "bymac", "pool", "deny", "row", "ping", "mark",
       "subnet", "kind", "lookup", "add", "update", "reply", "relread", "relwrite"}

StaticAddr == {Static[m] : m \in Mac} \ {NoAddr}

\* Where a handler relies on what it read of the row of ip[h].
Decided == {"ping", "subnet", "kind", "lookup", "add", "update", "relwrite"}

\* Client m has a lease on address a, and it has not run out.
Holds(m, a) == client[m].st = "bound" /\ client[m].ip = a /\ now < client[m].end

TypeOK ==
    /\ leases \in Table
    /\ deny \in SUBSET Addr
    /\ cache \in Cache
    /\ now \in Nat
    /\ pc \in [Handler -> PC]
    /\ pkt \in [Handler -> Packet \cup {NoPacket}]
    /\ ip \in [Handler -> Addr \cup {NoAddr}]
    /\ todo \in [Handler -> Seq(Addr)]
    /\ scanning \in [Handler -> BOOLEAN]
    /\ lease \in [Handler -> Row \cup {NoRow}]
    /\ client \in [Mac -> Client]
    /\ await \in [Handler -> BOOLEAN]
    /\ stale \in [Handler -> BOOLEAN]
    /\ raced \in SUBSET Addr

(***************************************************************************)
(* The state a first start leaves: an empty database, the configuration    *)
(* loaded (NewAllocator) and a hundred-year lease stored for each static   *)
(* host (seedStaticLeases).                                                *)
(***************************************************************************)
SeededRow(m) == [mac |-> m, end |-> Forever, state |-> "active", static |-> TRUE]

\* Two static hosts may name one address: the row is the one stored last.
Seeded ==
    {[a \in Addr |-> IF a \in StaticAddr THEN SeededRow(owner[a]) ELSE NoRow] :
        owner \in {f \in [StaticAddr -> Mac] : \A a \in StaticAddr : Static[f[a]] = a}}

Init ==
    /\ leases \in Seeded
    /\ deny = {}
    /\ cache = Configured
    /\ now = 0
    /\ pc = [h \in Handler |-> "idle"]
    /\ pkt = [h \in Handler |-> NoPacket]
    /\ ip = [h \in Handler |-> NoAddr]
    /\ todo = [h \in Handler |-> <<>>]
    /\ scanning = [h \in Handler |-> FALSE]
    /\ lease = [h \in Handler |-> NoRow]
    /\ client = [m \in Mac |-> Unbound]
    /\ await = [h \in Handler |-> FALSE]
    /\ stale = [h \in Handler |-> FALSE]
    /\ raced = {}

(***************************************************************************)
(* Ways for a handler to go on.                                            *)
(***************************************************************************)
Goto(h, label) == pc' = [pc EXCEPT ![h] = label]

Done(h) ==
    /\ Goto(h, "idle")
    /\ pkt' = [pkt EXCEPT ![h] = NoPacket]
    /\ ip' = [ip EXCEPT ![h] = NoAddr]
    /\ todo' = [todo EXCEPT ![h] = <<>>]
    /\ scanning' = [scanning EXCEPT ![h] = FALSE]
    /\ lease' = [lease EXCEPT ![h] = NoRow]
    /\ stale' = [stale EXCEPT ![h] = FALSE]

\* The replies client m no longer waits for: it takes the first one only.
Settled(m) == [g \in Handler |-> await[g] /\ pkt[g].mac # m]

\* The reply leaves its client in state c, unless it is lost or comes too late.
Answer(h, c) ==
    \/ /\ await[h]
       /\ client' = [client EXCEPT ![pkt[h].mac] = c]
       /\ await' = Settled(pkt[h].mac)
    \/ /\ LossyNet \/ ~await[h]
       /\ client' = client
       /\ await' = [await EXCEPT ![h] = FALSE]

NoReply(h) == client' = client /\ await' = [await EXCEPT ![h] = FALSE]

\* A REQUEST that cannot be served is answered by a DHCPNAK, on which its
\* client starts again; any other packet is dropped.
Refuse(h) ==
    /\ Done(h)
    /\ IF pkt[h].type = "REQUEST" THEN Answer(h, Unbound) ELSE NoReply(h)

\* AllocateIP returned address a to its caller.
Allocated(h, a) ==
    IF pkt[h].type = "REQUEST" /\ a # pkt[h].req
    THEN Refuse(h)
    ELSE /\ Goto(h, "subnet")
         /\ ip' = [ip EXCEPT ![h] = a]
         /\ todo' = [todo EXCEPT ![h] = <<>>]
         /\ scanning' = [scanning EXCEPT ![h] = FALSE]
         /\ UNCHANGED <<pkt, lease, client, await, stale>>

\* The scan of the dynamic ranges goes on with the addresses in queue.
Scan(h, queue) ==
    IF queue = <<>>
    THEN Refuse(h)
    ELSE /\ Goto(h, "deny")
         /\ ip' = [ip EXCEPT ![h] = Head(queue)]
         /\ todo' = [todo EXCEPT ![h] = Tail(queue)]
         /\ scanning' = [scanning EXCEPT ![h] = TRUE]
         /\ stale' = [stale EXCEPT ![h] = FALSE]
         /\ UNCHANGED <<pkt, lease, client, await>>

\* The address considered is not for this client.
NextCandidate(h) ==
    IF scanning[h]
    THEN Scan(h, todo[h])
    ELSE /\ Goto(h, "pool")
         /\ ip' = [ip EXCEPT ![h] = NoAddr]
         /\ stale' = [stale EXCEPT ![h] = FALSE]
         /\ UNCHANGED <<pkt, todo, scanning, lease, client, await>>

(***************************************************************************)
(* A packet arrives, and handlePacket starts a handler for it.  What the   *)
(* client does to its own lease as it sends the packet happens here too:   *)
(* packets are lost in transit (then they never arrive), not delayed.      *)
(***************************************************************************)
Receive(h, p, label) ==
    /\ pc[h] = "idle"
    /\ Goto(h, label)
    /\ pkt' = [pkt EXCEPT ![h] = p]
    /\ UNCHANGED <<leases, deny, cache, now, ip, todo, scanning, lease, stale, raced>>

\* A client that discovers has no lease, or has forgotten it.
ReceiveDiscover(h, m, a) ==
    /\ Receive(h, [type |-> "DISCOVER", mac |-> m, req |-> a], "static")
    /\ client' = [client EXCEPT ![m] = Unbound]
    /\ await' = [Settled(m) EXCEPT ![h] = TRUE]

\* A client renews the address it has, or asks for one it was offered or had
\* before.  A REQUEST may be sent again before it is answered.
ReceiveRequest(h, m, a) ==
    /\ Receive(h, [type |-> "REQUEST", mac |-> m, req |-> a], "static")
    /\ client' = IF client[m].st = "bound" /\ client[m].ip = a
                 THEN client ELSE [client EXCEPT ![m] = Unbound]
    /\ await' = [g \in Handler |->
                    \/ g = h
                    \/ (await[g] /\ pkt[g].mac # m)
                    \/ (await[g] /\ pkt[g].type = "REQUEST" /\ pkt[g].req = a)]

ReceiveRelease(h, m) ==
    /\ Receive(h, [type |-> "RELEASE", mac |-> m, req |-> NoAddr], "relread")
    /\ client' = [client EXCEPT ![m] = Unbound]
    /\ await' = Settled(m)

ReceiveBootP(h, m) ==
    /\ Receive(h, [type |-> "BOOTP", mac |-> m, req |-> NoAddr], "static")
    /\ UNCHANGED <<client, await>>

\* Packets that change nothing here: handleDecline logs, a REQUEST that names
\* another server is ignored, one that names no address is answered by a
\* DHCPNAK.  Their client goes without its lease.
ReceiveUnserved(h, m) ==
    /\ pc[h] = "idle"
    /\ client' = [client EXCEPT ![m] = Unbound]
    /\ await' = Settled(m)
    /\ UNCHANGED <<leases, deny, cache, now, pc, pkt, ip, todo, scanning, lease,
                   stale, raced>>

(***************************************************************************)
(* AllocateIP.                                                             *)
(***************************************************************************)
\* getStaticIP; for BootP the static address is the only one.
CheckStatic(h) ==
    /\ pc[h] = "static"
    /\ LET a == cache.static[pkt[h].mac]
       IN  \/ a # NoAddr /\ Allocated(h, a)
           \/ /\ a = NoAddr /\ pkt[h].type # "BOOTP"
              /\ Goto(h, "bymac")
              /\ UNCHANGED <<locals, client, await, stale>>
           \/ a = NoAddr /\ pkt[h].type = "BOOTP" /\ Refuse(h)
    /\ UNCHANGED <<db, cache, now, raced>>

\* The client's own lease, while it lasts; else the address it asks for; else
\* any address of a range.
LookupByMAC(h) ==
    /\ pc[h] = "bymac"
    /\ LET found == GetLeaseByMAC(leases, pkt[h].mac)
           usable == {a \in found : now < leases[a].end}
       IN  \/ \E a \in usable : Allocated(h, a)
           \/ /\ usable = {}
              /\ Goto(h, IF pkt[h].req = NoAddr THEN "pool" ELSE "deny")
              /\ ip' = [ip EXCEPT ![h] = pkt[h].req]
              /\ UNCHANGED <<pkt, todo, scanning, lease, client, await, stale>>
           \/ DbFaults /\ Refuse(h)
    /\ UNCHANGED <<db, cache, now, raced>>

ReadPool(h) ==
    /\ pc[h] = "pool"
    /\ Scan(h, cache.pool)
    /\ UNCHANGED <<db, cache, now, raced>>

CheckDeny(h) ==
    /\ pc[h] = "deny"
    /\ \/ /\ ~IsDenyAddress(deny, ip[h])
          /\ Goto(h, "row")
          /\ UNCHANGED <<locals, client, await, stale>>
       \/ /\ IsDenyAddress(deny, ip[h]) \/ DbFaults
          /\ NextCandidate(h)
    /\ UNCHANGED <<db, cache, now, raced>>

\* isIPAvailable, once the deny list is passed.
CheckRow(h) ==
    /\ pc[h] = "row"
    /\ LET row == GetLeaseByIP(leases, ip[h])
       IN  \/ /\ RowFree(row, pkt[h].mac, now)
              /\ Goto(h, "ping")
              /\ UNCHANGED <<locals, client, await, stale>>
           \/ /\ ~RowFree(row, pkt[h].mac, now) \/ DbFaults
              /\ NextCandidate(h)
    /\ UNCHANGED <<db, cache, now, raced>>

\* Hosts that may answer a ping: squatters, and clients that have a lease.
Answering == Squatted \cup {a \in Addr : \E m \in Mac : Holds(m, a)}

\* pingCheck: one ping without an answer makes the address good.  A host that
\* is there may fail to answer; without retries nothing is pinged and the
\* address counts as in use.
PingSilent(h) ==
    /\ pc[h] = "ping"
    /\ PingRetries > 0
    /\ Allocated(h, ip[h])
    /\ UNCHANGED <<db, cache, now, raced>>

PingAnswered(h) ==
    /\ pc[h] = "ping"
    /\ PingRetries <= 0 \/ ip[h] \in Answering
    /\ Goto(h, "mark")
    /\ UNCHANGED <<db, cache, now, locals, client, await, stale, raced>>

\* The address goes on the deny list; a failure to store it is only logged.
MarkMartian(h) ==
    /\ pc[h] = "mark"
    /\ \/ deny' = AddDenyAddress(deny, ip[h])
       \/ DbFaults /\ deny' = deny
    /\ NextCandidate(h)
    /\ UNCHANGED <<leases, cache, now, raced>>

(***************************************************************************)
(* The rest of handleDiscover, handleRequest and handleBootP.              *)
(***************************************************************************)
\* A bug to compare with: the literal &db.Lease{...} without its State.
NewLeaseNoState(m, isStatic) ==
    [mac |-> m, end |-> now + LeaseTime, state |-> "none", static |-> isStatic]

\* The row CreateLease is going to write.
NewLease(m, isStatic) ==
    [mac |-> m, end |-> now + LeaseTime, state |-> "active", static |-> isStatic]

FindSubnet(h) ==
    /\ pc[h] = "subnet"
    /\ LET type == pkt[h].type
           served == IF type = "BOOTP" THEN cache.bootp ELSE cache.nets
       IN  \/ ip[h] \notin served /\ Refuse(h)
           \/ /\ ip[h] \in served /\ type = "DISCOVER"
              /\ Answer(h, [st |-> "offered", ip |-> ip[h], end |-> 0])
              /\ Done(h)
           \/ /\ ip[h] \in served /\ type = "REQUEST"
              /\ Goto(h, "kind")
              /\ UNCHANGED <<locals, client, await, stale>>
           \/ /\ ip[h] \in served /\ type = "BOOTP"
              /\ Goto(h, "lookup")
              /\ lease' = [lease EXCEPT ![h] = NewLease(pkt[h].mac, TRUE)]
              /\ UNCHANGED <<pkt, ip, todo, scanning, client, await, stale>>
    /\ UNCHANGED <<db, cache, now, raced>>

\* isStaticLease, then the beginning of CreateLease.
CheckKind(h) ==
    /\ pc[h] = "kind"
    /\ Goto(h, "lookup")
    /\ LET m == pkt[h].mac
       IN  lease' = [lease EXCEPT ![h] = NewLease(m, cache.static[m] # NoAddr)]
    /\ UNCHANGED <<db, cache, now, pkt, ip, todo, scanning, client, await, stale, raced>>

LookupRow(h) ==
    /\ pc[h] = "lookup"
    /\ \/ /\ Goto(h, IF HasRow(leases, ip[h]) THEN "update" ELSE "add")
          /\ UNCHANGED <<locals, client, await, stale>>
       \/ DbFaults /\ Refuse(h)
    /\ UNCHANGED <<db, cache, now, raced>>

\* h has stored a lease at ip[h].  The second conjunct and the third are
\* history: whoever decided on that address before now relies on an old row.
Stored(h) ==
    /\ Goto(h, "reply")
    /\ stale' = [g \in Handler |->
                    g # h /\ (stale[g] \/ (ip[g] = ip[h] /\ pc[g] \in Decided))]
    /\ raced' = IF stale[h] THEN raced \cup {ip[h]} ELSE raced
    /\ UNCHANGED <<deny, cache, now, locals, client, await>>

InsertLease(h) ==
    /\ pc[h] = "add"
    /\ \/ /\ CanAdd(leases, ip[h])
          /\ leases' = AddLease(leases, ip[h], lease[h])
          /\ Stored(h)
       \/ /\ ~CanAdd(leases, ip[h]) \/ DbFaults
          /\ Refuse(h)
          /\ UNCHANGED <<db, cache, now, raced>>

OverwriteLease(h) ==
    /\ pc[h] = "update"
    /\ \/ /\ leases' = UpdateLease(leases, ip[h], lease[h])
          /\ Stored(h)
       \/ /\ DbFaults
          /\ Refuse(h)
          /\ UNCHANGED <<db, cache, now, raced>>

\* The DHCPACK, or the BOOTREPLY of which a client keeps nothing here.
SendReply(h) ==
    /\ pc[h] = "reply"
    /\ IF pkt[h].type = "REQUEST"
       THEN Answer(h, [st |-> "bound", ip |-> ip[h], end |-> lease[h].end])
       ELSE NoReply(h)
    /\ Done(h)
    /\ UNCHANGED <<db, cache, now, raced>>

(***************************************************************************)
(* ReleaseLease.                                                           *)
(***************************************************************************)
ReadForRelease(h) ==
    /\ pc[h] = "relread"
    /\ LET found == GetLeaseByMAC(leases, pkt[h].mac)
       IN  \/ \E a \in found :
                /\ Goto(h, "relwrite")
                /\ ip' = [ip EXCEPT ![h] = a]
                /\ lease' = [lease EXCEPT ![h] =
                                [leases[a] EXCEPT !.state = "expired", !.end = now]]
                /\ UNCHANGED <<pkt, todo, scanning, client, await, stale>>
           \/ /\ found = {} \/ DbFaults
              /\ Refuse(h)
    /\ UNCHANGED <<db, cache, now, raced>>

\* History: a client that released and took the address again, before the
\* RELEASE is carried out.
Overtaken(h) ==
    LET m == pkt[h].mac
    IN  \/ client[m].st = "bound" /\ client[m].ip = ip[h]
        \/ \E g \in Handler : /\ await[g]
                              /\ pkt[g].type = "REQUEST" /\ pkt[g].mac = m
                              /\ pkt[g].req = ip[h]

WriteRelease(h) ==
    /\ pc[h] = "relwrite"
    /\ \/ /\ leases' = UpdateLease(leases, ip[h], lease[h])
          /\ raced' = IF stale[h] \/ Overtaken(h) THEN raced \cup {ip[h]} ELSE raced
       \/ DbFaults /\ UNCHANGED <<leases, raced>>
    /\ Done(h)
    /\ NoReply(h)
    /\ UNCHANGED <<deny, cache, now>>

(***************************************************************************)
(* The system.                                                             *)
(***************************************************************************)
Tick ==
    /\ now < MaxTime
    /\ now' = now + 1
    /\ UNCHANGED <<db, cache, pc, locals, client, await, history>>

Arrival(h) ==
    \E m \in Mac :
        \/ \E a \in Addr \cup {NoAddr} : ReceiveDiscover(h, m, a)
        \/ \E a \in Addr : ReceiveRequest(h, m, a)
        \/ ReceiveRelease(h, m)
        \/ ReceiveBootP(h, m)
        \/ ReceiveUnserved(h, m)

Step(h) ==
    \/ CheckStatic(h) \/ LookupByMAC(h) \/ ReadPool(h) \/ CheckDeny(h) \/ CheckRow(h)
    \/ PingSilent(h) \/ PingAnswered(h) \/ MarkMartian(h)
    \/ FindSubnet(h) \/ CheckKind(h) \/ LookupRow(h) \/ InsertLease(h)
    \/ OverwriteLease(h) \/ SendReply(h) \/ ReadForRelease(h) \/ WriteRelease(h)

Next == Tick \/ \E h \in Handler : Arrival(h) \/ Step(h)

Spec == Init /\ [][Next]_vars

(***************************************************************************)
(* Properties.                                                             *)
(***************************************************************************)
\* Dynamic clients and addresses: AllocateIP hands a static address to its host
\* without a look at the database, so the promises are about the others.
Dynamic == {m \in Mac : Static[m] = NoAddr}

Live(row, m) == row.state = "active" /\ row.mac = m /\ now < row.end

\* The lease server's promise: at no time do two clients hold unexpired
\* leases on one address that is not a static host's.
Exclusive ==
    \A a \in Addr \ StaticAddr : \A m, n \in Mac : Holds(m, a) /\ Holds(n, a) => m = n

\* What is left of Exclusive when handlers overlap (handlePacket runs each
\* packet in a goroutine): it holds of every address on which no handler stored
\* a lease, or a release, over one stored after it had decided.  So these two
\* races are the only ways to a double grant.
ExclusiveUnlessRaced ==
    \A a \in Addr \ (StaticAddr \cup raced) :
        \A m, n \in Mac : Holds(m, a) /\ Holds(n, a) => m = n

\* GetLeaseByMAC and AllocateIP together never let a client collect addresses:
\* it has at most one lease that has not run out, however it asks.
OneLeasePerClient ==
    \A m \in Dynamic : \A a, b \in Addr : Live(leases[a], m) /\ Live(leases[b], m) => a = b

\* pingCheck puts squatters on the deny list and nobody else: never the address
\* of a client that has it from this server, its own or another's.
MartiansAreSquatters == deny \subseteq Squatted \cup StaticAddr

\* And when handlers overlap: isIPAvailable pings an address after it read its
\* row, and whoever answers is put on the deny list for good.  No other client has
\* the address then, unless a lease on it was stored between the two, or a race
\* was lost on it before.
PingsNoClientUnlessOvertaken ==
    \A h \in Handler :
        pc[h] = "ping" /\ ~stale[h] /\ ip[h] \notin StaticAddr \cup raced
            => \A m \in Mac \ {pkt[h].mac} : ~Holds(m, ip[h])

\* A client that asks for the address it holds is not refused: no DHCPNAK comes
\* while its lease lasts.
RefusesHolder(h) ==
    /\ pkt[h].type = "REQUEST" /\ pc[h] # "reply" /\ pc'[h] = "idle"
    /\ Holds(pkt[h].mac, pkt[h].req) /\ pkt[h].req \notin StaticAddr

RenewalNeverRefused == [][\A h \in Handler : ~RefusesHolder(h)]_vars

\* ReleaseLease ends the one lease its client has: none is left in the table
\* that would keep an address from the others.
LeavesLease(h) ==
    /\ pc[h] = "relwrite" /\ pc'[h] = "idle" /\ pkt[h].mac \in Dynamic
    /\ \E a \in Addr : Live(leases'[a], pkt[h].mac)

ReleaseFrees == [][\A h \in Handler : ~LeavesLease(h)]_vars

\* A static host's address stays its own: SeedStaticLease stores a lease that is
\* "effectively permanent" for it, and it keeps the others from the address.
ReservationKept ==
    \A a \in StaticAddr : \A m \in Dynamic : ~RowFree(leases[a], m, now)

\* With packets handled one at a time, the table changes only as LeaseBook says:
\* what a handler read is still true when it writes.
Book == INSTANCE LeaseBook WITH leases <- leases, now <- now,
                               Static <- Static, LeaseTime <- LeaseTime

ImplementsBook == Book!Spec
=============================================================================
