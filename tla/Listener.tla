------------------------------ MODULE Listener ------------------------------
(***************************************************************************)
(* The two read loops of internal/dhcp/server.go, the goroutines they      *)
(* start, and the memory these share: the buffer of handleConnection, the  *)
(* counters of Stats.                                                      *)
(*                                                                         *)
(* handleRawSocket gets a buffer of its own for each packet                *)
(* (ReadDHCPPacket copies the payload).  handleConnection reads every      *)
(* packet into one buffer, and the Packet it hands to a goroutine holds    *)
(* slices of that buffer.  So a handler takes one step for each time it    *)
(* reads such a slice, and the loop may have read another packet before.   *)
(*                                                                         *)
(* What the allocator does with what it is given is LeaseServer's subject: *)
(* here it is one step on a table without times.  There are no static      *)
(* hosts, and so a BootP request is dropped.                               *)
(***************************************************************************)
EXTENDS PacketCodec, FiniteSets

CONSTANTS Handler,      \* the goroutines that can exist at one time
          Wires,        \* what clients and relays send: [bytes, unicast]
          Self,         \* the server's address
          Subnet,       \* the addresses of the one subnet, all of them dynamic
          Routers, LeaseTime,   \* what it says of the subnet
          MaxPackets    \* the bound on the packets sent

ASSUME WireAssumption ==
    \A w \in Wires : w.bytes \in Seq(Byte) /\ w.unicast \in BOOLEAN
ASSUME SubnetAssumption ==
    /\ Self \in Byte /\ LeaseTime \in Byte
    /\ Subnet \subseteq Byte \ {0} /\ Routers \in Seq(Byte)
ASSUME BoundAssumption == MaxPackets \in Nat /\ IsFiniteSet(Handler)

VARIABLES
    queue,      \* queue[s]: what socket s has received and nobody has read
    sent,       \* the number of packets sent
    loop,       \* loop[s]: where the read loop of socket s is, the length of what
                \*   it read last, the counter it is incrementing as loaded
    buffer,     \* buffer[s]: the buffer it read that into
    pc,         \* pc[h]: where handler h is
    source,     \* source[h]: the socket its packet came from
    own,        \* own[h]: the bytes of its packet as they came, which are what
                \*   a handler of the raw socket reads all along
    packet,     \* packet[h]: what ParsePacket returned
    kind,       \* kind[h]: the message type
    register,   \* register[h]: the counter it is incrementing, as loaded
    mac,        \* mac[h]: macAddr
    want,       \* want[h]: the place of the address it asks for
    given,      \* given[h]: the address AllocateIP returned, or AtWant: what is
                \*   found at want[h]
    answer,     \* answer[h]: the type of its reply, 0 for none
    reply,      \* reply[h]: the reply, as it was given to ToBytes
    dest,       \* dest[h]: the address and port the reply was sent to
    leases,     \* the rows of the lease table: [ip, mac]
    granted,    \* history: granted[h] is the row h stored
    stats,      \* the counters
    seen,       \* history: how often each was to be incremented
    overlapped, \* history: the counters that two incremented at the same time
    overwritten \* history: overwritten[h]: the loop read into h's buffer

net == <<queue, sent>>
frame == <<source, own, packet>>
counts == <<stats, seen, overlapped>>
args == <<kind, mac, want, given>>
out == <<answer, reply, dest>>
vars == <<queue, sent, loop, buffer, pc, source, own, packet, kind, register, mac,
          want, given, answer, reply, dest, leases, granted, stats, seen,
          overlapped, overwritten>>

Socket == {"raw", "udp"}

\* PacketsReceived, and a counter for each type of message.
Received == 0
Counted == {DHCPDiscover, DHCPRequest, DHCPDecline, DHCPRelease, DHCPInform}
Counter == {Received} \cup Counted

Nowhere == Place(0, 0)
NoPacket == ParsePacket(<<0, 0, 0, 0, 0>>)
NoReply == [options |-> <<>>]
NoDest == [ip |-> 0, port |-> 0]
AtWant == -1
Broadcast == 255
NoGrant == [ip |-> 0, mac |-> 0]

\* A bug to compare with: the raw socket's loop has one buffer for all packets too.
SharedMemory(h) == buffer[source[h]]

\* What handler h finds at a place of its packet now.
Memory(h) == IF source[h] = "raw" THEN own[h] ELSE buffer["udp"]
Read(h, place) == At(Memory(h), place)[1]

\* What its client wrote there.
Wrote(h, place) == At(own[h], place)[1]

PC == {"idle", "kind", "count", "store", "mac", "args", "allocate", "verify", "subnet",
       "lease", "release", "reply", "send", "sent"}

TypeOK ==
    /\ \A s \in Socket : queue[s] \in Seq(Seq(Byte))
    /\ sent \in 0 .. MaxPackets
    /\ loop \in [Socket -> [at: {"read", "count", "store", "start"}, n: Nat, register: Nat]]
    /\ buffer \in [Socket -> Seq(Byte)]
    /\ pc \in [Handler -> PC]
    /\ kind \in [Handler -> Byte] /\ mac \in [Handler -> Byte]
    /\ given \in [Handler -> Byte \cup {AtWant}]
    /\ \A h \in Handler :
          /\ pc[h] \in {"verify", "lease"} => kind[h] = DHCPRequest /\ want[h].len = 1
          /\ pc[h] \in {"send", "sent"} => reply[h] # NoReply
          /\ pc[h] = "reply" => answer[h] # 0
    /\ \A r \in leases : r.ip \in Byte /\ r.mac \in Byte
    /\ \A q, r \in leases : q.ip = r.ip => q = r
    /\ stats \in [Counter -> Nat] /\ seen \in [Counter -> Nat]

Init ==
    /\ queue = [s \in Socket |-> <<>>]
    /\ sent = 0
    /\ loop = [s \in Socket |-> [at |-> "read", n |-> 0, register |-> 0]]
    /\ buffer = [s \in Socket |-> <<>>]
    /\ pc = [h \in Handler |-> "idle"]
    /\ source = [h \in Handler |-> "raw"]
    /\ own = [h \in Handler |-> <<>>]
    /\ packet = [h \in Handler |-> NoPacket]
    /\ kind = [h \in Handler |-> 0]
    /\ register = [h \in Handler |-> 0]
    /\ mac = [h \in Handler |-> 0]
    /\ want = [h \in Handler |-> Nowhere]
    /\ given = [h \in Handler |-> AtWant]
    /\ answer = [h \in Handler |-> 0]
    /\ reply = [h \in Handler |-> NoReply]
    /\ dest = [h \in Handler |-> NoDest]
    /\ leases = {}
    /\ granted = [h \in Handler |-> NoGrant]
    /\ stats = [c \in Counter |-> 0]
    /\ seen = [c \in Counter |-> 0]
    /\ overlapped = {}
    /\ overwritten = [h \in Handler |-> FALSE]

(***************************************************************************)
(* A client or a relay sends a packet.  The raw socket taps the interface  *)
(* and has no look at the destination, so it gets them all; the UDP socket *)
(* is bound to one address and gets those sent to it.                      *)
(***************************************************************************)
Send(w) ==
    /\ sent < MaxPackets
    /\ sent' = sent + 1
    /\ queue' = [s \in Socket |-> IF s = "raw" \/ w.unicast
                                  THEN Append(queue[s], w.bytes) ELSE queue[s]]
    /\ UNCHANGED <<loop, buffer, pc, frame, args, register, out, leases, granted,
                   counts, overwritten>>

(***************************************************************************)
(* The read loops.                                                         *)
(***************************************************************************)
LoopAt(s, label) == loop' = [loop EXCEPT ![s].at = label]

\* The bytes read go to the front of the buffer; what is behind them stays.
Fill(old, bytes) == bytes \o SubSeq(old, Len(bytes) + 1, Len(old))

LastRead(s) == SubSeq(buffer[s], 1, loop[s].n)

ReadPacket(s) ==
    /\ loop[s].at = "read" /\ queue[s] # <<>>
    /\ queue' = [queue EXCEPT ![s] = Tail(@)]
    /\ buffer' = [buffer EXCEPT ![s] = IF s = "raw" THEN Head(queue[s])
                                       ELSE Fill(@, Head(queue[s]))]
    /\ loop' = [loop EXCEPT ![s].at = "count", ![s].n = Len(Head(queue[s]))]
    /\ seen' = [seen EXCEPT ![Received] = @ + 1]
    /\ overwritten' = [h \in Handler |->
                          overwritten[h] \/ (s = source[h] /\ s = "udp" /\ pc[h] # "idle"
                                             /\ buffer'["udp"] # buffer["udp"])]
    /\ UNCHANGED <<sent, pc, frame, args, register, out, leases, granted, stats,
                   overlapped>>

\* s.stats.PacketsReceived++: a load and a store.
LoadReceived(s) ==
    /\ loop[s].at = "count"
    /\ loop' = [loop EXCEPT ![s].at = "store", ![s].register = stats[Received]]
    /\ overlapped' = IF \E r \in Socket : loop[r].at = "store"
                     THEN overlapped \cup {Received} ELSE overlapped
    /\ UNCHANGED <<net, buffer, pc, frame, args, register, out, leases, granted,
                   stats, seen, overwritten>>

StoreReceived(s) ==
    /\ loop[s].at = "store"
    /\ LoopAt(s, "start")
    /\ stats' = [stats EXCEPT ![Received] = loop[s].register + 1]
    /\ UNCHANGED <<net, buffer, pc, frame, args, register, out, leases, granted,
                   seen, overlapped, overwritten>>

\* ParsePacket, and a goroutine for what it returned.  (A goroutine can always be
\* started; the model has as many as Handler has.)
StartHandler(s, h) ==
    /\ loop[s].at = "start" /\ Parseable(LastRead(s)) /\ pc[h] = "idle"
    /\ LoopAt(s, "read")
    /\ pc' = [pc EXCEPT ![h] = "kind"]
    /\ source' = [source EXCEPT ![h] = s]
    /\ own' = [own EXCEPT ![h] = LastRead(s)]
    /\ packet' = [packet EXCEPT ![h] = ParsePacket(LastRead(s))]
    /\ UNCHANGED <<net, buffer, args, register, out, leases, granted, counts,
                   overwritten>>

DropPacket(s) ==
    /\ loop[s].at = "start" /\ ~Parseable(LastRead(s))
    /\ LoopAt(s, "read")
    /\ UNCHANGED <<net, buffer, pc, frame, args, register, out, leases, granted,
                   counts, overwritten>>

(***************************************************************************)
(* Handlers.                                                               *)
(***************************************************************************)
Goto(h, label) == pc' = [pc EXCEPT ![h] = label]

End(h) ==
    /\ Goto(h, "idle")
    /\ source' = [source EXCEPT ![h] = "raw"]
    /\ own' = [own EXCEPT ![h] = <<>>]
    /\ packet' = [packet EXCEPT ![h] = NoPacket]
    /\ kind' = [kind EXCEPT ![h] = 0]
    /\ mac' = [mac EXCEPT ![h] = 0]
    /\ want' = [want EXCEPT ![h] = Nowhere]
    /\ given' = [given EXCEPT ![h] = AtWant]
    /\ register' = [register EXCEPT ![h] = 0]
    /\ answer' = [answer EXCEPT ![h] = 0]
    /\ reply' = [reply EXCEPT ![h] = NoReply]
    /\ dest' = [dest EXCEPT ![h] = NoDest]
    /\ granted' = [granted EXCEPT ![h] = NoGrant]
    /\ overwritten' = [overwritten EXCEPT ![h] = FALSE]

\* The handler goes on to its reply, of type a.
ReplyWith(h, a) == Goto(h, "reply") /\ answer' = [answer EXCEPT ![h] = a]

\* The answer to a REQUEST that cannot be served; a DISCOVER gets none.
Refuse(h) ==
    \/ /\ kind[h] = DHCPRequest
       /\ ReplyWith(h, DHCPNak)
       /\ UNCHANGED <<frame, args, register, reply, dest, granted, overwritten>>
    \/ kind[h] = DHCPDiscover /\ End(h)

\* handlePacket: a packet without a message type is for handleBootP, or dropped.
ReadKind(h) ==
    /\ pc[h] = "kind"
    /\ LET place == GetPlace(packet[h], OptionMessageType)
           type == IF place = Nowhere THEN 0 ELSE Read(h, place)
       IN  \/ /\ type \in Counted
              /\ kind' = [kind EXCEPT ![h] = type]
              /\ Goto(h, "count")
              /\ seen' = [seen EXCEPT ![type] = @ + 1]
              /\ UNCHANGED <<frame, mac, want, given, register, out, granted, overwritten>>
           \/ type \notin Counted /\ End(h) /\ seen' = seen
    /\ UNCHANGED <<net, loop, buffer, leases, stats, overlapped>>

LoadCount(h) ==
    /\ pc[h] = "count"
    /\ Goto(h, "store")
    /\ register' = [register EXCEPT ![h] = stats[kind[h]]]
    /\ overlapped' = IF \E g \in Handler : pc[g] = "store" /\ kind[g] = kind[h]
                     THEN overlapped \cup {kind[h]} ELSE overlapped
    /\ UNCHANGED <<net, loop, buffer, frame, args, out, leases, granted, stats, seen,
                   overwritten>>

\* A bug to compare with: the counter is incremented twice, by loop and handler.
TwoMore(n) == n + 2

OneMore(n) == n + 1

StoreCount(h) ==
    /\ pc[h] = "store"
    /\ Goto(h, "mac")
    /\ stats' = [stats EXCEPT ![kind[h]] = OneMore(register[h])]
    /\ register' = [register EXCEPT ![h] = 0]
    /\ UNCHANGED <<net, loop, buffer, frame, args, out, leases, granted, seen,
                   overlapped, overwritten>>

ReadMAC(h) ==
    /\ pc[h] = "mac"
    /\ mac' = [mac EXCEPT ![h] = Read(h, packet[h].chaddr)]
    /\ \/ /\ kind[h] = DHCPDiscover
          /\ want' = [want EXCEPT ![h] = GetPlace(packet[h], OptionRequestedIPAddress)]
          /\ Goto(h, "allocate")
       \/ kind[h] = DHCPRequest /\ Goto(h, "args") /\ want' = want
       \/ kind[h] = DHCPRelease /\ Goto(h, "release") /\ want' = want
       \/ kind[h] = DHCPInform /\ Goto(h, "subnet")
          /\ want' = [want EXCEPT ![h] = packet[h].ciaddr]
    /\ UNCHANGED <<net, loop, buffer, frame, kind, given, register, out, leases,
                   granted, counts, overwritten>>

\* handleDecline logs.
Decline(h) ==
    /\ pc[h] = "mac" /\ kind[h] = DHCPDecline
    /\ End(h)
    /\ UNCHANGED <<net, loop, buffer, leases, counts>>

\* handleRequest: is it for this server, and which address is asked for.
ReadArgs(h) ==
    /\ pc[h] = "args"
    /\ LET server == GetPlace(packet[h], OptionServerIdentifier)
           option == GetPlace(packet[h], OptionRequestedIPAddress)
           forUs == \A p \in {server} \ {Nowhere} : Read(h, p) = Self
           asked == {p \in {option, packet[h].ciaddr} :
                        /\ p # Nowhere /\ Read(h, p) # 0
                        /\ p = packet[h].ciaddr =>
                              option = Nowhere \/ Read(h, option) = 0}
       IN  \/ ~forUs /\ End(h)
           \/ forUs /\ asked = {} /\ Refuse(h)
           \/ /\ forUs
              /\ \E p \in asked : want' = [want EXCEPT ![h] = p]
              /\ Goto(h, "allocate")
              /\ UNCHANGED <<frame, kind, mac, given, register, out, granted, overwritten>>
    /\ UNCHANGED <<net, loop, buffer, leases, counts>>

\* AllocateIP: the client's own lease, or the address at want[h], or any that is free.
Allocate(h) ==
    /\ pc[h] = "allocate"
    /\ LET free(a) == \A r \in leases : r.ip = a => r.mac = mac[h]
           mine == {r.ip : r \in {x \in leases : x.mac = mac[h]}}
           asked == IF want[h] = Nowhere THEN 0 ELSE Read(h, want[h])
           choice == IF mine # {} THEN mine
                     ELSE IF asked # 0 /\ free(asked) THEN {AtWant}
                     ELSE {a \in Subnet : free(a)}
       IN  \/ choice = {} /\ Refuse(h)
           \/ \E a \in choice :
                /\ given' = [given EXCEPT ![h] = a]
                /\ Goto(h, IF kind[h] = DHCPRequest THEN "verify" ELSE "subnet")
                /\ UNCHANGED <<frame, kind, mac, want, register, out, granted, overwritten>>
    /\ UNCHANGED <<net, loop, buffer, leases, counts>>

\* allocated.Equal(ip); from here on the address is the one at want[h].
Verify(h) ==
    /\ pc[h] = "verify"
    /\ \/ given[h] \notin {AtWant, Read(h, want[h])} /\ Refuse(h)
       \/ /\ given[h] \in {AtWant, Read(h, want[h])}
          /\ given' = [given EXCEPT ![h] = AtWant]
          /\ Goto(h, "subnet")
          /\ UNCHANGED <<frame, kind, mac, want, register, out, granted, overwritten>>
    /\ UNCHANGED <<net, loop, buffer, leases, counts>>

IP(h) == IF given[h] = AtWant THEN Read(h, want[h]) ELSE given[h]

FindSubnet(h) ==
    /\ pc[h] = "subnet"
    /\ LET found == IP(h) \in Subnet
       IN  \/ ~found /\ kind[h] # DHCPInform /\ Refuse(h)
           \/ ~found /\ kind[h] = DHCPInform /\ End(h)
           \/ /\ found /\ kind[h] = DHCPRequest
              /\ Goto(h, "lease")
              /\ UNCHANGED <<frame, args, register, out, granted, overwritten>>
           \/ /\ found /\ kind[h] # DHCPRequest
              /\ ReplyWith(h, IF kind[h] = DHCPDiscover THEN DHCPOffer ELSE DHCPAck)
              /\ UNCHANGED <<frame, args, register, reply, dest, granted, overwritten>>
    /\ UNCHANGED <<net, loop, buffer, leases, counts>>

CreateLease(h) ==
    /\ pc[h] = "lease"
    /\ LET row == [ip |-> IP(h), mac |-> mac[h]]
       IN  /\ leases' = {r \in leases : r.ip # row.ip} \cup {row}
           /\ granted' = [granted EXCEPT ![h] = row]
    /\ ReplyWith(h, DHCPAck)
    /\ UNCHANGED <<net, loop, buffer, frame, args, register, reply, dest, counts,
                   overwritten>>

ReleaseLease(h) ==
    /\ pc[h] = "release"
    /\ LET mine == {r \in leases : r.mac = mac[h]}
       IN  IF mine = {} THEN leases' = leases
                        ELSE \E r \in mine : leases' = leases \ {r}
    /\ End(h)
    /\ UNCHANGED <<net, loop, buffer, counts>>

\* The options of a reply of type a: what sendNak sets, or createOffer and createAck
\* with addSubnetOptions, which sets no option that is configured with nothing.
ReplyOptions(a) ==
    [code \in {OptionMessageType, OptionServerIdentifier}
                \cup (IF a = DHCPNak THEN {} ELSE {OptionLeaseTime})
                \cup (IF a = DHCPNak \/ Routers = <<>> THEN {} ELSE {OptionRouter}) |->
        CASE code = OptionMessageType -> <<a>>
          [] code = OptionServerIdentifier -> <<Self>>
          [] code = OptionLeaseTime -> <<LeaseTime>>
          [] code = OptionRouter -> Routers]

BuildReply(h) ==
    /\ pc[h] = "reply"
    /\ reply' = [reply EXCEPT ![h] =
          [flags |-> packet[h].flags, ciaddr |-> 0,
           yiaddr |-> IF answer[h] = DHCPNak \/ kind[h] = DHCPInform THEN 0 ELSE IP(h),
           giaddr |-> Read(h, packet[h].giaddr),
           chaddr |-> Read(h, packet[h].chaddr),
           options |-> ReplyOptions(answer[h])]]
    /\ Goto(h, "send")
    /\ UNCHANGED <<net, loop, buffer, frame, args, register, answer, dest, leases,
                   granted, counts, overwritten>>

\* A bug to compare with: the relay is sent to at the client's port.
DestinationOnePort(relay, r) ==
    [ip |-> IF relay # 0 THEN relay
            ELSE IF r.flags < 128 /\ r.ciaddr # 0 THEN r.ciaddr ELSE Broadcast,
     port |-> 68]

\* sendPacket: to the relay, to the client's address or to all.
Destination(relay, r) ==
    IF relay # 0 THEN [ip |-> relay, port |-> 67]
    ELSE [ip |-> IF r.flags < 128 /\ r.ciaddr # 0 THEN r.ciaddr ELSE Broadcast,
          port |-> 68]

SendReply(h) ==
    /\ pc[h] = "send"
    /\ dest' = [dest EXCEPT ![h] = Destination(Read(h, packet[h].giaddr), reply[h])]
    /\ Goto(h, "sent")
    /\ UNCHANGED <<net, loop, buffer, frame, args, register, answer, reply, leases,
                   granted, counts, overwritten>>

Finish(h) ==
    /\ pc[h] = "sent"
    /\ End(h)
    /\ UNCHANGED <<net, loop, buffer, leases, counts>>

(***************************************************************************)
(* The system.                                                             *)
(***************************************************************************)
LoopStep(s) ==
    \/ ReadPacket(s) \/ LoadReceived(s) \/ StoreReceived(s) \/ DropPacket(s)
    \/ \E h \in Handler : StartHandler(s, h)

HandlerStep(h) ==
    \/ ReadKind(h) \/ LoadCount(h) \/ StoreCount(h) \/ ReadMAC(h) \/ Decline(h)
    \/ ReadArgs(h) \/ Allocate(h) \/ Verify(h) \/ FindSubnet(h) \/ CreateLease(h)
    \/ ReleaseLease(h) \/ BuildReply(h) \/ SendReply(h) \/ Finish(h)

\* All that will be sent has been dealt with: the loops wait for more.
Rest ==
    /\ sent = MaxPackets
    /\ \A s \in Socket : queue[s] = <<>> /\ loop[s].at = "read"
    /\ \A h \in Handler : pc[h] = "idle"
    /\ UNCHANGED vars

Next ==
    \/ \E w \in Wires : Send(w)
    \/ \E s \in Socket : LoopStep(s)
    \/ \E h \in Handler : HandlerStep(h)
    \/ Rest

Spec == Init /\ [][Next]_vars

(***************************************************************************)
(* Properties.                                                             *)
(***************************************************************************)
\* The address and the client that a REQUEST's lease is stored for are those of
\* the REQUEST ("Verify IP is available for this MAC", then "Create lease").
LeaseAsAsked(h) ==
    granted[h] # NoGrant => granted[h] = [ip |-> Wrote(h, want[h]),
                                          mac |-> Wrote(h, packet[h].chaddr)]

LeasesAsAsked == \A h \in Handler : LeaseAsAsked(h)

\* Its lease is the one it asked for, its reply is made out to its client and the
\* address it asked for, and goes to its relay.
ServedAsSent(h) ==
    /\ LeaseAsAsked(h)
    /\ pc[h] \in {"send", "sent"} =>
          /\ reply[h].chaddr = Wrote(h, packet[h].chaddr)
          /\ granted[h] # NoGrant => reply[h].yiaddr = granted[h].ip
          /\ reply[h].giaddr = Wrote(h, packet[h].giaddr)
    /\ pc[h] = "sent" /\ Wrote(h, packet[h].giaddr) # 0
          => dest[h] = [ip |-> Wrote(h, packet[h].giaddr), port |-> 67]

\* A packet from the raw socket is served as it was sent, whatever arrives while
\* its handler works: ReadDHCPPacket gives each packet memory of its own.
RawServedAsSent == \A h \in Handler : source[h] = "raw" => ServedAsSent(h)

\* A packet from the UDP socket is so only if handleConnection reads no other before
\* its handler is done: the handler's slices are of the loop's one buffer.
UdpServedAsSentUnlessOverwritten ==
    \A h \in Handler : source[h] = "udp" /\ ~overwritten[h] => ServedAsSent(h)

\* What a client parses is what the server put into the reply, in whatever order Go
\* ranges over the options.
RepliesReadable ==
    \A h \in Handler : pc[h] = "send" =>
        \A bytes \in ToBytes(reply[h]) : Readable(reply[h], bytes)

\* The counters of Stats are incremented by goroutines that share no lock.  One is
\* never too high, and exact as long as no two increments of it overlapped.
CountingHandlers(c) ==
    {h \in Handler : kind[h] = c /\ c # Received /\ pc[h] \in {"count", "store"}}

CountingLoops(c) == {s \in Socket : c = Received /\ loop[s].at \in {"count", "store"}}

Due(c) == Cardinality(CountingHandlers(c)) + Cardinality(CountingLoops(c))

CountsExactUnlessOverlapped ==
    \A c \in Counter : /\ stats[c] + Due(c) <= seen[c]
                       /\ c \notin overlapped => stats[c] + Due(c) = seen[c]
=============================================================================
