# Verification of go-dhcpd

TLA+ models of the DHCP daemon in `src/`, model-checked with TLC, with the safety
properties that hold and both refinements proved with TLAPS for every number of handlers,
requests, processes, clients and addresses.

The question the project asks first is the one the daemon exists for: **can two
clients come to believe, at one time, that the same address is theirs?** With
packets handled one at a time: no (proved). With the goroutines the code starts:
yes, and only in two ways (proved: those ways; shown by a run: that they occur).
The other questions: do the configuration, which an HTTP API changes in a separate
process's database, the allocator's copy of it and the leases kept for static hosts
stay in agreement? Does that database change as a whole, though every request is a
process that may be killed? Does a handler serve the packet that was sent, though it
reads it out of a buffer it shares? And is a client that keeps asking served?

## The system

`cmd/dhcpd` starts one process. It opens the lease database, loads the
configuration through a plugin, stores a lease for each static host, and then
runs the DHCP server and the HTTP API side by side.

```
  clients ── UDP/raw ──> read loops ──go──> handlers ──> Allocator ──> lease database
                        (server.go)       (server.go)  (allocator.go)     (db.go)
                                                          ▲  cached subnets, static hosts
  administrators ── HTTP ──> API handlers ──── Refresh ───┤  (mu)
                              (api.go)  └── Seed/Revoke ──┘
                                 │ one process per call, 15 s timeout
                                 ▼
                      plugin manager ──> sqlite3-config / file-config ──> their store
```

### Components

| Component | State it keeps | Operations | Modelled in |
|---|---|---|---|
| Packet handlers, `dhcp/server.go` 221-657 | none between packets; locals of one goroutine per packet | DISCOVER, REQUEST, RELEASE, DECLINE, INFORM, BOOTP | `LeaseServer` (what they do to the leases), `Listener` (what they read of the packet and what they reply) |
| Allocator, `allocator/allocator.go` | cached subnets and static hosts (`mu`) | AllocateIP, isIPAvailable, pingCheck, CreateLease, ReleaseLease; Refresh, SeedStaticLease, RevokeStaticLease | `LeaseServer`; `ConfigAdmin`, `Daemon` |
| Range scan, `allocator.go` 205-232 | none | walk a range as uint32 | `RangeScan` |
| Lease database, `db/db.go` | `leases` (`ip_address` UNIQUE), `deny_addresses` | queries and single-row writes | `LeaseTable` |
| Read loops and counters, `server.go` 159-219, `rawsocket.go` | one 1500-byte buffer per UDP connection, `Stats` | read, parse, start a handler | `Listener` |
| Packet codec, `dhcp/packet.go` | none | parse, getters, build | `PacketCodec` |
| API handlers that write, `api/api.go` 268-400 | none | add, update, delete of subnets and static hosts | `ConfigAdmin`; those of static hosts in `Daemon` |
| Plugin manager and protocol, `plugin/manager.go`, `pluginapi/` | which plugin provides the configuration | run the plugin once per request, with a timeout | `ConfigAdmin` (a run is one step), `SubnetStore` (a run is a process) |
| sqlite3-config and `sqlite3store` | subnets with their lists, static hosts | migrate, list, insert, update, delete | `SubnetStore`; `ConfigAdmin` (`store`) |
| file-config | config.json5 | list; refuses every write | `ConfigAdmin` (`Edit`) |
| Start and stop, `cmd/dhcpd/main.go` | -- | load, seed, serve, stop | `ConfigAdmin` (`Start`, `Stop`), `Daemon` (`Restart`), `StaticLeases` |
| Migration tool | -- | copies config.json5 into the plugin's store | `ConfigAdmin` (`Edit`) |
| Expiration loop, `server.go` 704-712 | none | logs | its body changes nothing, so there is nothing to model |
| API handlers that read, PAM, config parsing, logger, version | none that decides anything | -- | not modelled, see below |

### What is hard here

* `handlePacket` runs in a goroutine per packet and no lock spans a query and the
  write that relies on it: the row read by `isIPAvailable` is read again by
  `CreateLease`, then written.
* A ping takes up to `ping_retries` seconds between the check of the row and the
  allocation; an OFFER stores nothing at all.
* `ReleaseLease` and `RevokeStaticLease` read a row and write the whole row back.
* The UDP socket's loop reads every packet into one buffer, and the parsed packet is
  slices of it: a handler may find a later packet where its own was. The packet
  socket takes unicast packets too, so one REQUEST may be handled twice at a time.
* `Refresh` fetches two lists by two runs of the plugin, outside the lock, and
  installs what it has; requests of the API overlap.
* A subnet is a row and ten child tables, read by eleven queries without a
  transaction, in a database that several plugin processes migrate and write.
* A plugin run may time out after its statement took effect; the API handler then
  stops without a refresh. A failed refresh, seed or revocation is only logged.
* Replies are lost; clients repeat themselves; leases run out with nothing to mark
  the row, as `ExpireLeases` is never called: every reader must look at the end.
* A static host's reservation *is* its row in the lease table, which its own
  packets rewrite.

`PROJECT.json` lists these one by one under `hazards`, each at its line, with the
properties that cover it or the reason none does yet.

## The modules

| Module | Content |
|---|---|
| `LeaseTable` | The two tables as values, the queries and statements of `db.go` as operators |
| `StaticLeases` | What seeding at start makes of the leases table |
| `RangeScan` | The addresses the scan of a range tries, in arithmetic modulo `Modulus` |
| `RangeScan_proofs` | Which scans end, and what they try |
| `LeaseServer` | The packet handlers and the allocator, one step per query, ping, cache read and reply; the clients; the properties |
| `LeaseBook` | The abstract specification: a lease is taken, extended or given up in one step |
| `LeaseServerLive` | `LeaseServer` with clients that retry, fairness, and the liveness property |
| `LeaseServerInv` | The inductive invariant `IInv`, what one handler adds, `SerialInv` and `BookInv`, and what is left without pings, `UnpingedInv` |
| `LeaseServer_proofs` | `IInv` is inductive; typing; the only ways to a double grant, and to a client on the deny list; with one handler there is no double grant; a server that cannot ping |
| `LeaseServerBook_proofs` | With one handler: one lease per client, the deny list, renewals, releases, and `LeaseBook` is implemented |
| `ConfigAdmin` | Plugin store, API requests, Refresh, seed and revoke, stop and start; the properties |
| `ConfigAdminInv`, `ConfigAdmin_proofs` | Its inductive invariants and their proofs |
| `Daemon` | `LeaseServer` composed with an API request, crash and restart, step by step |
| `DaemonInv`, `Daemon_proofs` | Its inductive invariants and their proofs |
| `SubnetStore` | The plugin's processes on one SQLite file: locks, transactions, migration, listing |
| `SubnetMap` | The abstract specification of it: a map from networks to definitions |
| `SubnetStoreInv`, `SubnetStore_proofs` | Its inductive invariant; the properties and the refinement of `SubnetMap` |
| `PacketCodec` | A packet in a buffer: `ParsePacket`, `parseOptions`, the getters, `ToBytes` |
| `PacketCodec_proofs` | What is parsed lies in the bytes; what is written is read back |
| `Listener` | Sockets, read loops, counters, and the handlers as readers of their packet |
| `ListenerInv`, `Listener_proofs` | The inductive invariant of `Listener`; the properties |
| `MC*`, `*.cfg` | Instances for TLC |

`LeaseServer` and `ConfigAdmin` extend `LeaseTable`; `LeaseServer` instantiates
`LeaseBook` (`Book`) with its own `leases`, `now`, `Static` and `LeaseTime`.
`LeaseServerLive` and `Daemon` extend `LeaseServer`, so the handlers in them are the
same definitions; `MCLeaseServerLive` lets `RangeScan` compute the pool the handlers
scan. `SubnetStore` instantiates `SubnetMap` (`Map`), `Listener` extends `PacketCodec`.

### LeaseServer

`pc[h]` is the place of handler `h`; the labels and the code they stand for:

| Label | Action | Code |
|---|---|---|
| idle | `ReceiveDiscover`, `ReceiveRequest`, `ReceiveRelease`, `ReceiveBootP`, `ReceiveUnserved` | `handlePacket`, the head of each handler |
| static | `CheckStatic` | `getStaticIP` under `RLock` |
| bymac | `LookupByMAC` | `GetLeaseByMAC` in `AllocateIP` |
| pool | `ReadPool` | the ranges, under `RLock` |
| deny, row | `CheckDeny`, `CheckRow` | `isIPAvailable`: two queries |
| ping, mark | `PingSilent`, `PingAnswered`, `MarkMartian` | `pingCheck`, `AddDenyAddress` |
| subnet | `FindSubnet` | `findSubnetForIP`, then the OFFER of a DISCOVER |
| kind | `CheckKind` | `isStaticLease`, the literal `db.Lease` in `CreateLease` |
| lookup | `LookupRow` | `GetLeaseByIP` in `CreateLease` |
| add, update | `InsertLease`, `OverwriteLease` | `AddLease`, `UpdateLease` |
| reply | `SendReply` | the DHCPACK or BOOTREPLY |
| relread, relwrite | `ReadForRelease`, `WriteRelease` | `ReleaseLease`: a query, a write |

A query that fails (`DbFaults`) takes the path the code takes: the handler gives
up, or the address is passed over. `Refuse` is the DHCPNAK of a REQUEST and
silence for the others. `Seeded` and `Init` are the state `seedStaticLeases`
leaves on an empty database.

The clients are outside the repository. `client[m]` is what `m` believes; a client
takes the first answer to what it sent last (`await`), an answer may be lost
(`LossyNet`), and it stops using a lease at its end. Clients ask for any address
at any time, release what they have or not, and repeat themselves.

Two variables are history and decide nothing: `stale[h]` (a lease was stored at
the address `h` relies on, after `h` read its row) and `raced` (the addresses on
which such an `h` then wrote, or on which a RELEASE was carried out after its client
had taken the address again). They name the race, so that a property can say that
nothing else goes wrong.

Left out, and why that is sound for the properties stated:

* A client is one normalised MAC address; client ids, host names and the spelling
  of addresses do not enter a decision (one place where a spelling does is a hazard
  in `PROJECT.json`). Static hosts given by a host name, which the code resolves by
  DNS, are left out.
* A packet lost on its way to the server never arrives; one delayed is not
  modelled, only handlers that are slow, which has the same effect on what a
  handler reads and writes.
* Rows whose ends are equal may be returned in any order by `ORDER BY ... LIMIT 1`.
* INFORM reads and answers; it changes nothing.
* The configuration in `cache` does not change here; in `Daemon` it does.

### LeaseServerLive and RangeScan

`Ask` is a client that wants a lease: DISCOVER, then a REQUEST for what was offered,
then REQUESTs that renew; nobody releases. Nobody does because an OFFER reserves
nothing: a client that takes and releases addresses for ever could, by bad luck each
time, take the one another was just offered, and no fairness of the code forbids it.
`MCLeaseServerLive` gives `LeaseServer` as `Pool` what `ScanOrder` makes of two
configured ranges, one written the wrong way round, one that holds a squatted address
and ends at the address the second client needs. A range that ends at the last address
of all is one the loop never leaves (`Ends` is false, a hazard in `PROJECT.json`); no
run scans one, `ScanEnds` says that these are all.

### Daemon

`DNext` is a step of `LeaseServer` (`Next`, unchanged), a step of an API request on a
static host (`AdminStep`), or `Restart`. `admin` is where the request is: `refresh`
(the two plugin runs and the assignment of `Refresh`, one step as requests do not
overlap here), `find` and `revoke` for `RevokeStaticLease`, `lookup`, `insert` and
`overwrite` for `SeedStaticLease`, each a query or a statement with handler steps
before and after. `Restart` is a stop at any point, in the middle of a handler or of
a request, with the start after it: handlers, request and cache are gone, the tables
stay, the hosts in the store are seeded; one step, as nothing is served in between.

`reserved` (addresses that were ever a static host's) and `revoked` are history. They
name what the properties do not promise. `revoked` is there because without it both
properties fail, in a way worth knowing: a host m1 is given a1, whose row m2 holds or
later takes over; m1 has leased another address by itself; deleting m1 ends "any
active database lease" of m1, which is the dynamic one it still uses, and that address
goes to a second client.

### SubnetStore

A process `p` is one run of sqlite3-config: `pc[p]` goes through `inspect` and `alter`
(the migration in `OpenDB`), then `insert`, `select`/`update`/`clear`, `write`,
`commit`, or `delete`, or `rows` and `lists`. `tx[p]` is the copy its transaction
works on, `reserved` and `shared` SQLite's locks as the driver uses them with a
deferred BEGIN: the first write takes RESERVED, a transaction that has read holds
SHARED, COMMIT waits for the readers, and a transaction that has read and finds
RESERVED taken is refused at once. `Busy` is the end of the wait of 5 s, `Kill` the
timeout of `plugin/manager.go` at any statement. SQLite is external: what is modelled
is what the code relies on. The nine string lists and the ranges are treated alike, so
`TableOrder` names as many as one likes; columns of the row and lists together are one
`Value`. Static hosts have no lists; they are single statements and stay in
`ConfigAdmin`.

A process works off `alters` and `todo`, the columns to add and the queries to make,
in the order of the code (`Index`, `Before`): they are sets, not sequences, because
what is left of them is what an argument about a killed or overtaken process needs. A
list is read back by position (`IsNth`, `ChildList`), which is `ORDER BY position`.

`Definition` is the refinement mapping: the definition whose row and lists are stored
for a network, or `Torn`, which is no value of `SubnetMap`. `held` is history: what
each network was while a process reads.

### Listener and PacketCodec

In `PacketCodec` what the code has as a Go slice is a place, `[at, len]`, in a buffer;
`At` reads it. An address, the cookie and the hardware address take one byte each; the
option codes, the walk of `parseOptions`, the cut of a length to one byte and the
padding are as in the code. `Options` visits positions as the loop does and keeps the
last place of each code that fits in the packet (`Fits`), which is the loop's check
before it slices. `ToBytes` is a set, since Go ranges over the map of
options in any order. `Writable` is a packet the code could send (codes of their own,
values that fit), `Readable` that `ParsePacket` finds in the bytes what the packet has.

In `Listener` a packet goes to the raw socket, and to the UDP socket too if it is
unicast (a relay's, a RELEASE). `loop[s]` reads, increments `PacketsReceived` in a
load and a store, and starts a handler. A handler takes one step for each place in
the code that reads a slice (`ReadKind`, `ReadMAC`, `ReadArgs`, `Allocate`, `Verify`,
`FindSubnet`, `CreateLease`, `BuildReply`, `SendReply`); `Memory(h)` is where it
looks: its own bytes (`ReadDHCPPacket` copies) or the loop's buffer. The leases are a
set of `[ip, mac]` without times, as `LeaseServer` has the rest. `own` is what was sent,
`overwritten` and `overlapped` say where the code gives up its promise. The router
option is as long as the subnet has routers (`ReplyOptions`); `RoutersFit` says that they
are fewer than 256 bytes, which nothing in the code ensures. `Rest` is the
loops waiting when all `MaxPackets` have been dealt with.

### ConfigAdmin

`pc[r]` is the place of API request `r`: `write` is the run of the plugin that
changes the store, `nets` and `hosts` the two runs of `Refresh`, `install` its
assignment under the lock, `find` and `revoke` are `RevokeStaticLease`, `lookup`,
`insert` and `overwrite` are `SeedStaticLease`. A run that times out may have
committed or not; either way the handler stops there. `Stop` covers signals and
crashes (nothing is flushed on a signal that a crash would lose), `Start` loads,
seeds and serves: one step, as no goroutine runs before it ends. `Edit` is a change
to the store while the daemon is down (config.json5 by hand, the migration tool).

DHCP packets are single steps here, `Grant` and `Release`. `ImplementsBook` in
`LeaseServer_serial` is what justifies that for handlers that do not overlap; what
overlap adds is the subject of `LeaseServer` and `Daemon`. The values of a subnet are
one value (`Settings`), and a plugin that cannot write (file-config) is the case in
which no request gets past `write`. `broken` and `contested` are history, as above:
the hosts and addresses about which the code gives up its promise, in the cases the
property's comment names. `Reserved` is about the hosts that send no DHCP packets here
(`Mac \ Dhcp`): a host's own packet makes its reservation an ordinary lease, which is
finding 2.

## The runs

Deadlock is checked in every run. An inductive invariant that is proved below is also
an invariant of the run of its module, where TLC shows that states satisfy it. The
symmetries permute clients, handlers, requests, hosts, addresses or processes that no definition and no constant of the run tells
apart; the run with a liveness property has none.

| Run | Distinct states | What it shows |
|---|---|---|
| `LeaseServer_concurrent` | 2.6 million | 2 handlers, 2 clients, 1 address, failing queries, lost replies. `IInv` holds; a double grant is always on a raced address (`ExclusiveUnlessRaced`), and a client that answers a ping always overtook it (`PingsNoClientUnlessOvertaken`) |
| `LeaseServer_serial` | 1.2 million | 1 handler, 3 clients, one of them a static host whose address lies in the pool of 2, BootP, a third address, squatted and outside every subnet. `BookInv`; `Exclusive`, `OneLeasePerClient`, `MartiansAreSquatters`, `RenewalNeverRefused`, `ReleaseFrees`; `ImplementsBook`: the handlers implement `LeaseBook` |
| `LeaseServer_live` | 30 000 | 1 handler, 2 clients, 4 addresses below `Modulus` 8, one squatted, lost replies. `EveryClientServed` |
| `LeaseServer_race` | violated | `Exclusive` with 2 handlers: both clients are acknowledged one address |
| `LeaseServer_reservation` | violated | `ReservationKept`: a static host's own packet ends its reservation |
| `ConfigAdmin_serial` | 576 000 | 1 request at a time, 2 hosts, 2 addresses, a subnet, a dynamic client, stops, edits. `SerialInv`; `CacheFresh`, `Reserved`, `NoGhostReservation` |
| `ConfigAdmin_concurrent` | 930 000 | 2 requests at a time on a host and 2 addresses, plugin runs that time out after they committed, failing queries, stops, packets of the host and of another client. `IInv`; `NoGhostReservation` |
| `ConfigAdmin_refresh` | violated | `CacheFresh` with 2 requests: the older list is installed last, and stays |
| `Daemon` | 4.5 million | 1 handler and up to 2 API requests on a static host interleaved, restarts at any point, 2 clients, 2 addresses. `DInv`, `PingInv`; `ExclusiveThroughReconfiguration`, `DenyThroughReconfiguration` |
| `SubnetStore` | 290 000 | 2 plugin processes, 2 networks, 2 definitions that differ in every list, an old or a new schema, kills. `IInv`; `ImplementsMap`: a subnet changes as a whole; `ListingWithinWindow`, `ChildrenHaveParents`, `QueriesFindTheirColumns` |
| `Listener` | 920 000 | 2 read loops, 2 handlers, any 2 of 10 packets. `IInv`; `RawServedAsSent`, `UdpServedAsSentUnlessOverwritten`, `RepliesReadable`, `CountsExactUnlessOverlapped` |
| `Listener_overwrite` | violated | `LeasesAsAsked`: a packet read into the buffer of another changes what is leased |

**Fairness.** Only `LiveSpec` states any: every other property is a safety property,
and the model lets the daemon stop. `WF` of each handler's steps: the Go scheduler
runs every runnable goroutine, a query returns, a ping has a timeout. `SF` of each
client's packets: a client repeats itself, and of packets sent again and again some
arrive while the server can take one. `SF` of the delivery of each kind of reply: the
network loses replies, but not all for ever. Nothing of the code is assumed fair
beyond the scheduler.

**Bounds.** `MaxTime` bounds the clock (guard of `Tick`). With `LeaseTime` 2 and
`MaxTime` 3, a lease can be taken, renewed half way, run out and be taken by
another client, who may hold it past the end of the first; nothing compares times
further apart than one lease. Two handlers suffice for every race, since both races
are between two; the proof covers more. One address in `concurrent` makes every
interleaving a conflict; the choice between addresses is in `serial`.
`Forever` (100 years) is any number the clock does not reach. In `ConfigAdmin` two
addresses are enough to move and double, two hosts to exchange; the clock is
frozen (`MaxTime` 0) where no lease that runs out takes part.

In `live` the clock stops at `MaxTime` 2 and there is one address more than clients
need: a lease that ends exactly where the clock stops never counts as run out (`After`
is strict), which is the bound's doing. It has one handler: with two, the ping of one
may be answered by the client the other has just served, and the deny list takes an
address for good.

In `Daemon` a lease can be renewed and moved but does not run out (`LeaseTime` 2,
`MaxTime` 1): expiry meets no request there that the other runs do not have; what
matters is the order of steps, and revocation, which ends leases by itself. There is
no pool: the clients ask for addresses, so every address is tried in every order.
`MaxRequests` is 2: a reservation is made, and moved or deleted. The queries of the
request do not fail in this run (`DbFaults`); they do in `ConfigAdmin_concurrent`.

In `SubnetStore` an id is handed out twice at most (`MaxId`, guard of `Insert`):
enough for a network to be deleted and inserted again while a listing still asks for
the old id. Two child tables stand for ten, two added columns for three: what can go
wrong lies between a first and a next one. In `Listener` two packets are sent
(`MaxPackets`); a unicast one is received twice. `MinLen` is short and so is every
packet; nothing in the codec depends on 300.

**Mutants.** For each property of a passing run, `PROJECT.json` names a plausible bug
(a dropped check of the row's owner, `ORDER BY` without `DESC`, a lease without its
state, an update that does not revoke or does not seed, a refresh that replaces only
one list, `<` for `<=` in the scan, tables created anew at start, an id without
AUTOINCREMENT, child rows not cleared, an option written without its length); with the
bug in place of the definition, TLC finds the property violated. Their definitions
stand before the ones they change, marked "A bug to compare with".

## What is proved

All of it for any sets of clients, addresses, handlers, requests, processes, tables and
packets, finite or not unless said, with or without faults unless said, from the ASSUMEs
of the models alone (null values are not members of the sets they stand beside; the
constants have their types; a BootP subnet is a subnet).

| Theorem | For | Says |
|---|---|---|
| `LeaseServer_proofs`: `Typing`, `Invariance` | | `[]TypeOK`, `[]IInv` |
| `OnlyRacesDoubleGrant` | any number of handlers | `[]ExclusiveUnlessRaced`: the named races are the only ways to a double grant |
| `OnlyOvertakingDenies` | any number of handlers | `[]PingsNoClientUnlessOvertaken`: whom a handler pings is no other client, unless it was given the address since the check of its row |
| `UnpingedServesNobody` | `PingRetries <= 0` | `[]OnlyReserved`: no address but the static hosts' ever has a row |
| `SerialNoRace`, `SerialExclusive` | one handler | `raced` stays empty, hence `[]Exclusive` |
| `LeaseServerBook_proofs`: `SerialBook`, `SerialOneLease` | one handler | `[]BookInv`, `[]OneLeasePerClient` |
| `SerialMartians` | one handler, `PingRetries > 0` | `[]MartiansAreSquatters` |
| `SerialRenewal`, `SerialRelease` | one handler, no failing query | the action properties `RenewalNeverRefused`, `ReleaseFrees` |
| `SerialImplementsBook` | one handler | `Spec => ImplementsBook`, the refinement of `LeaseBook` |
| `RangeScan_proofs`: `ScanEnds` | a range of any addresses | its scan ends if and only if its end is not the last address of all |
| `ScanExact` | a range that does not end there | the addresses tried are those from start to end, once and in order |
| `ConfigAdmin_proofs`: `TypeCorrect`, `Invariance` | | `[]TypeOK`, `[]IInv` |
| `NoGhosts` | any number of requests | `[]NoGhostReservation` |
| `SerialFresh` | one request, a plugin that answers | `[]CacheFresh` |
| `SerialInvariance`, `SerialReserved` | one request, no faults | `[]SerialInv`, `[]Reserved` |
| `SubnetStore_proofs`: `TypeCorrect`, `Invariance` | | `[]TypeOK`, `[]IInv` |
| `NoOrphans`, `Migrated`, `ListingExact` | any number of processes | `[]ChildrenHaveParents`, `[]QueriesFindTheirColumns`, `[]ListingWithinWindow` |
| `StoreImplementsMap` | any number of processes | `Spec => ImplementsMap`, the refinement of `SubnetMap` |
| `Listener_proofs`: `TypeCorrect`, `Invariance` | finitely many handlers | `[]TypeOK`, `[]IInv` |
| `RawServed`, `UdpServed`, `CountsExact` | finitely many handlers | `[]RawServedAsSent`, `[]UdpServedAsSentUnlessOverwritten`, `[]CountsExactUnlessOverlapped` |
| `RepliesRead` | finitely many handlers, `RoutersFit` | `[]RepliesReadable` |
| `PacketCodec_proofs`: `ParsedWithin` | any bytes | every place `ParsePacket` returns lies within them |
| `RoundTrip` | a `Writable` packet, any order of its options | what `ToBytes` writes is `Readable` |
| `LongValueLost` | any packet and bytes | if `Readable`, each option value is shorter than 256 |
| `Daemon_proofs`: `DaemonTyped`, `DaemonInvariance` | any number of handlers | `[]DTypeOK`, `[]DInv` |
| `ReconfigurationExclusive` | any number of handlers | `[]ExclusiveThroughReconfiguration` |
| `PingInvariance`, `ReconfigurationDeniesSquatters` | one handler, `PingRetries > 0`, finitely many addresses | `[]PingInv`, `[]DenyThroughReconfiguration` |

"One handler" and "one request" are hypotheses of the theorem (`\A g, h \in Handler :
g = h`), which the runs `LeaseServer_race` and `ConfigAdmin_refresh` show to be needed;
"no failing query" is `DbFaults = FALSE`. `RoutersFit` is needed by `LongValueLost`: an
option with a longer value is not read back from any bytes. "Finitely many handlers" is
an ASSUME of `Listener` (`IsFiniteSet(Handler)`), as the goroutines of a process are: a counter's
debt (`Due`) is the number of them on their way to an increment. "Finitely many
addresses" (`IsFiniteSet(Addr)`; there are 2^32) is a hypothesis of the two theorems
that need it: of infinitely many leases none need end last, and `ORDER BY` would find
none.

**LeaseServer.** `Exclusive` is about clients, who hold what some reply told them; the
table is what the handlers decide on. `ClientInv` ties the two: a client's lease on an
address not raced is in the table, active, its own, and ends no earlier than the client
thinks. One row names one client, so two holders of one address are the same, which is
`ExclusiveUnlessRaced`. `ClientInv` is kept only if no handler writes over a live row of
another client. That is a fact about the row a handler read *earlier*; `RowInv` carries
it along: from the check of the row to the write, what was read is still so (the row is
the handler's client's, or not active, or run out) unless `stale[h]`. The second conjunct
of `RowInv` says that a renewal does not shorten the row, since of two REQUESTs of one
client the one that computed its end first may write last; the last says the table still
backs the reply that is about to go out. `TableInv` (no dynamic lease runs beyond
`LeaseTime` from now) is what makes the row a renewal overwrites end before the new one.
`StageInv` holds the types and facts of the locals at each label. Each action has a
lemma; `StoredInv` and `WriteReleaseInv` are the ones where the history variables are
needed. All parts but `StageInv` say nothing of the addresses that are `waived`, a
parameter: for `LeaseServer` those are the static and the raced ones, `Daemon` has more,
and the lemmas are proved for any. `SerialInv` adds what one handler gives: nothing is
stored behind its back, and a client that sent a RELEASE has no lease until it is carried out.

The deny list under several handlers is a corollary: at the ping, if the handler is not
`stale`, `RowInv` says that the row names its own client or has run out, and `ClientInv`
that whoever holds the address is named by the row. What `ping_retries` below 0 makes of
the server needs an invariant of its own, `UnpingedInv`: `PingSilent` is the only way from
a scan to an allocation, so handlers that go on have a static address, and rows are
written for no other.

**The book.** With one handler the book is right because what a handler found in the
table is there until it writes. `AloneInv(h)` says what that is at each label: `Free`
(the address may be given to the client), that the client has no live row but the one at
`ip[h]` once `LookupByMAC` has passed over the others, that the row a RELEASE writes
is the row that is there, ended (`Ended`). `LedgerInv` is the table between packets:
a row belongs to a dynamic client or lies on a static address, no client has two. Each of
the four properties is then one step from `BookInv`, and so is each step of the
refinement: a write that is carried out is a `Take` or a `GiveUp` of the book,
everything else leaves it alone.

**ConfigAdmin.** `RequestInv(r)` is what request `r` carries at each label. `GhostInv(m)`
is the argument: for a host not `broken` at most one request is at work; while it is, the
store already names the new address, and the host keeps one address at most, at first
the one the request is to revoke and then the request's own (`OneAtWork`); while none
is, it keeps nothing but what the store says. For the copy, `FreshInv` says what of the
store has been fetched at each label; `Reserved` needs besides that the cache names no
address for a second host (`CopyInv`, otherwise a packet of that host would be given it),
that the request at work will in fact restore the reservation (`WorkInv`), and that a
reservation, once there, is not taken by a packet (`KeptInv`).

**Daemon.** `DInv` is the same `LeaseInv`, with every address that was ever reserved,
raced on or revoked `Waived`, and `AdminInv`, what the request carries at each label. A
handler's step is one of `LeaseServer` that may waive more (`HandlerStepInv`). A
request's write goes to an address that is, or was, a static host's, which is waived
(`SeedInv`), or ends a lease: then either nobody counts on the row, and `RowInv` speaks
of active rows only, or the address becomes `revoked` (`RowWritten`, `RevokeLeaseInv`).
Since the row is read before and written after steps of handlers, it is the row that is
there at the write that must be harmless, not the one that was read. A restart leaves all
other rows alone (`SeededAgain`), and with the handlers idle only `ClientInv` is left to
show. For the deny list, `PingInv` says that while a handler tries addresses its client
has no lease that lasts (`LastingFound`: `LookupByMAC` would have found one), which needs
that no other handler gives it one meanwhile. So if a client answers the ping, the row
tells of it (`ClientInv`), and `isIPAvailable` let it pass as the handler's own client's
(`RowInv`), which has none.

**SubnetStore.** The file is whole at all times (`Whole`): ids are unique and never used
again, a child row has its parent, and each row has just the child rows of its
definition. A transaction's copy is what its statements so far make of the file *as it is
now* (`TxInv`), which is stated by what it holds: one that has written holds RESERVED,
one that has read holds SHARED and nobody commits past it. So a COMMIT turns a whole file
into a whole file and, through `Definition`, is one step of `SubnetMap`. `MigrateInv`: a
process knows of every column that is missing, as columns are only ever added; hence it
can stand at no query before all are there. `ListInv`: of a list not yet read, the id is
either still its network's, or the network was gone meanwhile and no other row will ever
have that id, so that the query yields the empty list, which is what `NoValue` in
`held` allows.

**Listener.** `FrameInv(h)`: every place of `h`'s packet lies in the bytes that came, and
those bytes are the ones `h` would read in its loop's buffer now, unless `overwritten`.
That places fit is proved of `parseOptions` for packets of any length and content
(`OptionPlaces`). `ReplyInv(h)` says that a reply on its way is `Writable` if the routers
fit: a handler that replies with an address has one (if it is the one the packet asks
for, the packet has a place for it), and the answer is one of the three types. With `RoundTrip` that is
`RepliesRead`. `StageInv(h)` says what `h` has made of them, so that what is leased is
what was asked for by a packet still intact. `CountInv(c)` is the argument for a counter
that is loaded and stored in two steps: stored value plus debt never exceeds what was to
be counted (a store of an old value only lowers it), and equals it unless two increments
have overlapped.

**PacketCodec.** Both directions recurse: `parseOptions` walks from option to option,
`ToBytes` joins a sequence of sequences. The library's induction theorems take an operator
as a parameter, which these provers cannot instantiate, so induction is done on sets: a
set that has 0, and n + 1 with every n, has every number (`InductiveSet`, from the least
element a set of naturals has, `LeastNatural`). The steps a fact holds of are such a set.
`WalkDefined` and `FlattenDefined` show in this way that the two recursions have a
solution, without which nothing follows from their definition. `Flattened` says where each
joined sequence begins; so `Written` knows where the bytes of each option are (`LaidOut`),
whatever their order. `WalkThrough` is the walk over bytes so laid out: it visits the first
option, with each option the next, and stops at the end option; hence what it finds are
the options that were written, each code once (`OptionsRead`). `Pad` adds nothing before
the end option. `LongValueLost` goes the other way: the length of an option is read out of
one byte.

**RangeScan.** Up to the end of the range the sum does not wrap (`NoWrap`); the address
after it is past the end unless it wraps to 0 (`AfterEnd`), so the length of the loop is
determined.

**Model-checked only.** `EveryClientServed`, the one liveness property, under fairness.

**Beyond the prover.** Liveness under fairness, and ENABLED. Powers: `RangeScan` has
`Modulus` as a constant for 2^32. What `ScanOrder` makes of several ranges (each range's
addresses, one after the other) is left to `LeaseServer_live`. No module has a RECURSIVE
operator: `RangeScan` gives the address of an iteration directly, and `Options` is built
on a recursive function.

## Findings

1. **A double grant** (`LeaseServer_race`). `Docs/PROJECT_SUMMARY.md:184` says the ping
   check prevents IP conflicts. Two REQUESTs for a free address, handled at a time,
   pass the check of the row and the ping, and both are acknowledged: `CreateLease`
   turns the second into an UPDATE of the first's row (`allocator.go` 321-329).
2. **A reservation that ends** (`LeaseServer_reservation`). `allocator.go:354` calls a
   static host's lease effectively permanent. Its own REQUEST makes it last
   `LeaseTime`, its own RELEASE ends it; the row was all that kept others off.
3. **A stale configuration** (`ConfigAdmin_refresh`). `api.go:389-390` says that after a
   successful write the allocator sees the new data. Two overlapping requests may
   install their lists in the reverse order of fetching them; the older one stays
   until the next write.
4. **A lease nobody asked for** (`Listener_overwrite`). `server.go` 315 and 331 say
   "Verify IP is available for this MAC" and then "Create lease". On the UDP socket,
   where relayed packets and renewals arrive, both read the address out of the one
   buffer of `handleConnection` (195): when the next packet is read in between, the
   lease is stored for what that packet has there, and a client's lease may be
   replaced by another's. The raw socket copies each packet (`RawServedAsSent` holds).

Besides these, `Daemon` shows by which chain `RevokeStaticLease` ends a lease that is
not the reservation (see `revoked` above), and `PROJECT.json` lists under `hazards`
what the models have as the code has it but no doc denies.

## Not modelled

* API handlers that read, PAM, logger, version: no state of the daemon depends on them.
* Parsing of the configuration and its defaults: it yields `LeaseTime`, `PingRetries`
  and the subnets, which are constants here.
* Validation in the plugin: the models start from definitions it lets pass. One
  consequence of it, the spelling of a MAC address, is a hazard without a property.
* Static hosts given by a host name (the code asks DNS at each packet), and the ARP
  lookup, whose answer is only logged.
* Why a client declines an address: `handleDecline` logs, so the models have a packet
  that changes nothing.
* Errors of a read: the loop counts them and goes on.
* The length of a hardware address (`HwLen`), which a packet gives itself: it is cut out of
  the packet by a sum of bytes, a hazard without a property. A client is one value here.
* Subnet options of a reply but the routers, the BOOTREPLY's file and server names,
  setters of `packet.go` that put one value into the map.
* ExpireLeases (nothing calls it) and the statistics queries of `db.go`.

## Plan

Done: all modules above; the inductive invariants of `LeaseServer`, `ConfigAdmin`,
`Daemon`, `SubnetStore` and `Listener`; every safety property the passing runs check, the
codec's round trip, the arithmetic of the scan, and the two refinements.

Left, if the code changes: a reservation that keeps in the lease table what its host's own
packets overwrite (finding 2), a transaction around check and write (finding 1) and a copy
of each UDP packet (finding 4) would each turn a run that expects a violation into one
that passes, and the history variables `raced`, `stale` and `overwritten` into constants.
