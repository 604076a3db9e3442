---------------------- MODULE LeaseServerBook_proofs ------------------------
(***************************************************************************)
(* What the server would promise if packets were handled one at a time,    *)
(* for any number of clients and addresses: a client has one lease, its    *)
(* renewal is not refused, its release ends all it has, the deny list has  *)
(* squatters only, and the table is the book LeaseBook describes.          *)
(*                                                                         *)
(* The argument is one invariant, BookInv: with one handler, what it found *)
(* in the table is still there when it writes.                             *)
(***************************************************************************)
EXTENDS LeaseServer_proofs

(***************************************************************************)
(* Ways for h to go on.                                                    *)
(***************************************************************************)
\* Address a may go to the client of h.
MayTake(h, a) ==
    LET m == pkt[h].mac
    IN  /\ m \in Dynamic \/ a = Static[m]
        /\ m \in Dynamic => \A b \in Addr \ {a} : ~Live(leases[b], m)
        /\ Free(m, a)

\* The client of h is a dynamic one, without a lease.
NoLease(h) ==
    /\ pkt[h].mac \in Dynamic
    /\ \A a \in Addr : ~Live(leases[a], pkt[h].mac)

LEMMA LedgerQuiet ==
    ASSUME LedgerInv, UNCHANGED <<leases, now, deny>>,
           \A m \in Mac : client'[m] = client[m] \/ client'[m].st # "bound"
    PROVE  LedgerInv'
  BY DEF LedgerInv, OneLeasePerClient, MartiansAreSquatters, Live

LEMMA DoneAlone ==
    ASSUME NEW h \in Handler, TypeOK, Done(h)
    PROVE  AloneInv(h)'
  <1>1. pc'[h] = "idle" /\ pkt'[h] = NoPacket
    BY DEF TypeOK, Done, Goto
  <1>2. QED
    BY <1>1 DEF AloneInv, Granting, Decided

LEMMA RefuseAlone ==
    ASSUME NEW h \in Handler, TypeOK, Refuse(h)
    PROVE  AloneInv(h)'
  BY DoneAlone DEF Refuse

LEMMA AllocatedAlone ==
    ASSUME NEW h \in Handler, TypeOK, NEW a, MayTake(h, a), Allocated(h, a),
           UNCHANGED <<leases, now>>
    PROVE  AloneInv(h)'
  <1>1. CASE pkt[h].type = "REQUEST" /\ a # pkt[h].req
    BY <1>1, RefuseAlone DEF Allocated
  <1>2. CASE ~(pkt[h].type = "REQUEST" /\ a # pkt[h].req)
    <2>1. pc'[h] = "subnet" /\ ip'[h] = a /\ pkt'[h] = pkt[h]
      BY <1>2 DEF Allocated, Goto, TypeOK
    <2>2. QED
      BY <2>1 DEF AloneInv, MayTake, Free, Live, Granting, Decided
  <1>3. QED
    BY <1>1, <1>2

LEMMA ScanAlone ==
    ASSUME NEW h \in Handler, TypeOK, NoLease(h), NEW q, Scan(h, q), UNCHANGED <<leases, now>>
    PROVE  AloneInv(h)'
  <1>1. CASE q = <<>>
    BY <1>1, RefuseAlone DEF Scan
  <1>2. CASE q # <<>>
    <2>1. pc'[h] = "deny" /\ pkt'[h] = pkt[h]
      <3>1. Goto(h, "deny") /\ pkt' = pkt
        BY <1>2, Zenon DEF Scan
      <3>2. QED
        BY <3>1 DEF Goto, TypeOK
    <2>2. QED
      BY <2>1 DEF AloneInv, NoLease, Live, Granting, Decided
  <1>3. QED
    BY <1>1, <1>2

LEMMA NextCandidateAlone ==
    ASSUME NEW h \in Handler, TypeOK, NoLease(h), NextCandidate(h), UNCHANGED <<leases, now>>
    PROVE  AloneInv(h)'
  <1>1. CASE scanning[h]
    BY <1>1, ScanAlone DEF NextCandidate
  <1>2. CASE ~scanning[h]
    <2>1. pc'[h] = "pool" /\ pkt'[h] = pkt[h]
      BY <1>2 DEF NextCandidate, Goto, TypeOK
    <2>2. QED
      BY <2>1 DEF AloneInv, NoLease, Live, Granting, Decided
  <1>3. QED
    BY <1>1, <1>2

\* None of these gives a client a lease.
LEMMA QuietClients ==
    ASSUME NEW h \in Handler, TypeOK, pkt[h] \in Packet,
           \/ UNCHANGED client
           \/ Refuse(h)
           \/ \E a \in Addr : Allocated(h, a)
           \/ \E q \in Seq(Addr) : Scan(h, q)
           \/ NextCandidate(h)
    PROVE  \A m \in Mac : client'[m] = client[m] \/ client'[m].st # "bound"
  BY RefuseFrame, AllocatedFrame, ScanFrame, NextCandidateFrame DEF Frame

LEMMA HandlerFacts ==
    ASSUME NEW h \in Handler, IInv, pc[h] # "idle"
    PROVE  /\ TypeOK /\ StageInv(h) /\ cache = Configured
           /\ pkt[h] \in Packet /\ pkt[h].mac \in Mac
           /\ deny \in SUBSET Addr
  BY DEF IInv, LeaseInv, StageInv, TypeOK, Packet

(***************************************************************************)
(* AllocateIP.                                                             *)
(***************************************************************************)
LEMMA CheckStaticBook ==
    ASSUME IInv, BookInv, NEW h \in Handler, CheckStatic(h)
    PROVE  LedgerInv' /\ AloneInv(h)'
  <1> DEFINE m == pkt[h].mac
             a == cache.static[m]
  <1>1. /\ pc[h] = "static" /\ TypeOK /\ pkt[h] \in Packet /\ m \in Mac
        /\ cache = Configured /\ a = Static[m] /\ a \in Addr \cup {NoAddr}
        /\ UNCHANGED <<leases, deny, now>>
    BY HandlerFacts, StaticAssumption DEF CheckStatic, db, Configured
  <1>2. CASE a # NoAddr /\ Allocated(h, a)
    <2>1. a \in Addr /\ m \notin Dynamic
      BY <1>1, <1>2 DEF Dynamic
    <2>2. MayTake(h, a)
      BY <1>1, <2>1 DEF MayTake, Free
    <2>3. QED
      BY <1>1, <1>2, <2>1, <2>2, AllocatedAlone, QuietClients, LedgerQuiet DEF BookInv
  <1>3. CASE /\ a = NoAddr /\ Goto(h, "bymac")
             /\ UNCHANGED <<locals, client, await, stale>>
    <2>1. pc'[h] = "bymac" /\ pkt'[h] = pkt[h] /\ client' = client
      BY <1>1, <1>3 DEF Goto, TypeOK, locals
    <2>2. AloneInv(h)'
      BY <1>1, <1>3, <2>1 DEF AloneInv, Dynamic, Granting, Decided
    <2>3. QED
      BY <1>1, <2>1, <2>2, LedgerQuiet DEF BookInv
  <1>4. CASE Refuse(h)
    BY <1>1, <1>4, RefuseAlone, QuietClients, LedgerQuiet DEF BookInv
  <1>5. QED
    BY <1>2, <1>3, <1>4 DEF CheckStatic

\* A client that has a lease is found by it: no other row of its own ends later.
LEMMA FoundByMAC ==
    ASSUME TypeOK, OneLeasePerClient, NEW m \in Dynamic, NEW a \in Addr, Live(leases[a], m)
    PROVE  /\ a \in GetLeaseByMAC(leases, m)
           /\ \A b \in GetLeaseByMAC(leases, m) : b = a
  <1>1. \A b \in Addr : leases[b].state = "active" => leases[b].end \in Nat
    BY DEF TypeOK, Table, Row, NoRow
  <1>2. \A b \in ActiveFor(leases, m) : b = a \/ leases[b].end <= now
    BY <1>1 DEF ActiveFor, OneLeasePerClient, Live, TypeOK
  <1>3. a \in ActiveFor(leases, m) /\ now < leases[a].end
    BY DEF ActiveFor, Live
  <1>4. \A b \in ActiveFor(leases, m) : leases[b].end \in Nat
    BY <1>1 DEF ActiveFor
  <1>5. now \in Nat
    BY DEF TypeOK
  <1>6. \A b \in ActiveFor(leases, m) : leases[b].end <= leases[a].end
    BY <1>2, <1>3, <1>4, <1>5
  <1>7. \A b \in GetLeaseByMAC(leases, m) : b = a
    BY <1>2, <1>3, <1>4, <1>5 DEF GetLeaseByMAC
  <1>8. QED
    BY <1>3, <1>6, <1>7 DEF GetLeaseByMAC

LEMMA LookupByMACBook ==
    ASSUME IInv, BookInv, NEW h \in Handler, LookupByMAC(h)
    PROVE  LedgerInv' /\ AloneInv(h)'
  <1> DEFINE m == pkt[h].mac
             found == GetLeaseByMAC(leases, m)
             usable == {a \in found : now < leases[a].end}
  <1>1. /\ pc[h] = "bymac" /\ TypeOK /\ pkt[h] \in Packet /\ m \in Mac /\ m \in Dynamic
        /\ OneLeasePerClient /\ UNCHANGED <<leases, deny, now>>
    BY HandlerFacts DEF LookupByMAC, db, BookInv, LedgerInv, AloneInv
  <1>2. ASSUME NEW a \in usable, Allocated(h, a)
        PROVE  LedgerInv' /\ AloneInv(h)'
    <2>1. a \in Addr /\ leases[a].state = "active" /\ leases[a].mac = m /\ now < leases[a].end
      BY DEF GetLeaseByMAC, ActiveFor
    <2>2. \A b \in Addr \ {a} : ~Live(leases[b], m)
      BY <1>1, <2>1 DEF OneLeasePerClient, Live
    <2>3. MayTake(h, a)
      BY <1>1, <2>1, <2>2 DEF MayTake, Free
    <2>4. QED
      BY <1>1, <1>2, <2>1, <2>3, AllocatedAlone, QuietClients, LedgerQuiet DEF BookInv
  <1>3. CASE /\ usable = {}
             /\ Goto(h, IF pkt[h].req = NoAddr THEN "pool" ELSE "deny")
             /\ UNCHANGED <<pkt, todo, scanning, lease, client, await, stale>>
    <2>1. NoLease(h)
      <3>1. ASSUME NEW a \in Addr, Live(leases[a], m) PROVE FALSE
        <4>1. a \in usable
          BY <1>1, <3>1, FoundByMAC DEF Live
        <4>2. QED
          BY <1>3, <4>1
      <3>2. QED
        BY <1>1, <3>1 DEF NoLease
    <2>2. pc'[h] \in {"pool", "deny"} /\ pkt'[h] = pkt[h] /\ client' = client
      BY <1>1, <1>3 DEF Goto, TypeOK
    <2>3. AloneInv(h)'
      BY <1>1, <2>1, <2>2 DEF AloneInv, NoLease, Live, Granting, Decided
    <2>4. QED
      BY <1>1, <2>2, <2>3, LedgerQuiet DEF BookInv
  <1>4. CASE Refuse(h)
    BY <1>1, <1>4, RefuseAlone, QuietClients, LedgerQuiet DEF BookInv
  <1>5. QED
    BY <1>2, <1>3, <1>4, Zenon DEF LookupByMAC

LEMMA ReadPoolBook ==
    ASSUME IInv, BookInv, NEW h \in Handler, ReadPool(h)
    PROVE  LedgerInv' /\ AloneInv(h)'
  <1>1. /\ pc[h] = "pool" /\ TypeOK /\ pkt[h] \in Packet /\ cache.pool \in Seq(Addr)
        /\ UNCHANGED <<leases, deny, now>> /\ Scan(h, cache.pool)
    BY HandlerFacts, ConfigAssumption DEF ReadPool, db, Configured
  <1>2. NoLease(h)
    BY <1>1 DEF BookInv, AloneInv, NoLease
  <1>3. QED
    BY <1>1, <1>2, ScanAlone, QuietClients, LedgerQuiet DEF BookInv

LEMMA CheckDenyBook ==
    ASSUME IInv, BookInv, NEW h \in Handler, CheckDeny(h)
    PROVE  LedgerInv' /\ AloneInv(h)'
  <1>1. /\ pc[h] = "deny" /\ TypeOK /\ pkt[h] \in Packet /\ UNCHANGED <<leases, deny, now>>
    BY HandlerFacts DEF CheckDeny, db
  <1>2. NoLease(h)
    BY <1>1 DEF BookInv, AloneInv, NoLease
  <1>3. CASE Goto(h, "row") /\ UNCHANGED <<locals, client, await, stale>>
    <2>1. pc'[h] = "row" /\ pkt'[h] = pkt[h] /\ client' = client
      BY <1>1, <1>3 DEF Goto, TypeOK, locals
    <2>2. AloneInv(h)'
      BY <1>1, <1>2, <2>1 DEF AloneInv, NoLease, Live, Granting, Decided
    <2>3. QED
      BY <1>1, <2>1, <2>2, LedgerQuiet DEF BookInv
  <1>4. CASE NextCandidate(h)
    BY <1>1, <1>2, <1>4, NextCandidateAlone, QuietClients, LedgerQuiet DEF BookInv
  <1>5. QED
    BY <1>3, <1>4 DEF CheckDeny

LEMMA CheckRowBook ==
    ASSUME IInv, BookInv, NEW h \in Handler, CheckRow(h)
    PROVE  LedgerInv' /\ AloneInv(h)'
  <1> DEFINE row == leases[ip[h]]
  <1>1. /\ pc[h] = "row" /\ TypeOK /\ pkt[h] \in Packet /\ UNCHANGED <<leases, deny, now>>
    BY HandlerFacts DEF CheckRow, db
  <1>2. NoLease(h)
    BY <1>1 DEF BookInv, AloneInv, NoLease
  <1>3. CASE /\ RowFree(row, pkt[h].mac, now)
             /\ Goto(h, "ping") /\ UNCHANGED <<locals, client, await, stale>>
    <2>1. pc'[h] = "ping" /\ pkt'[h] = pkt[h] /\ ip'[h] = ip[h] /\ client' = client
      BY <1>1, <1>3 DEF Goto, TypeOK, locals
    <2>2. Free(pkt[h].mac, ip[h])
      BY <1>3 DEF RowFree, Free, NoRow
    <2>3. AloneInv(h)'
      BY <1>1, <1>2, <2>1, <2>2 DEF AloneInv, NoLease, Live, Free, Granting, Decided
    <2>4. QED
      BY <1>1, <2>1, <2>3, LedgerQuiet DEF BookInv
  <1>4. CASE NextCandidate(h)
    BY <1>1, <1>2, <1>4, NextCandidateAlone, QuietClients, LedgerQuiet DEF BookInv
  <1>5. QED
    BY <1>3, <1>4 DEF CheckRow, GetLeaseByIP

LEMMA PingSilentBook ==
    ASSUME IInv, BookInv, NEW h \in Handler, PingSilent(h)
    PROVE  LedgerInv' /\ AloneInv(h)'
  <1>1. /\ pc[h] = "ping" /\ TypeOK /\ pkt[h] \in Packet /\ UNCHANGED <<leases, deny, now>>
        /\ Allocated(h, ip[h]) /\ ip[h] \in Addr
    BY HandlerFacts DEF PingSilent, db, StageInv, Decided
  <1>2. MayTake(h, ip[h])
    BY <1>1 DEF BookInv, AloneInv, MayTake, Granting, Decided
  <1>3. QED
    BY <1>1, <1>2, AllocatedAlone, QuietClients, LedgerQuiet DEF BookInv

\* Whoever has a lease on the address is not asked there: its own client has none,
\* and of the others isIPAvailable finds no row.  So it is a squatter who answers.
LEMMA PingAnsweredBook ==
    ASSUME IInv, BookInv, NEW h \in Handler, PingAnswered(h)
    PROVE  LedgerInv' /\ AloneInv(h)'
  <1> DEFINE m == pkt[h].mac
             x == ip[h]
  <1>1. /\ pc[h] = "ping" /\ TypeOK /\ pkt[h] \in Packet /\ x \in Addr
        /\ UNCHANGED <<leases, deny, now, client, pkt, ip>> /\ pc'[h] = "mark"
    BY HandlerFacts DEF PingAnswered, db, locals, StageInv, Decided, Goto, TypeOK
  <1>2. NoLease(h) /\ Free(m, x)
    BY <1>1 DEF BookInv, AloneInv, NoLease, Granting, Decided
  <1>3. ASSUME PingRetries > 0 PROVE x \in Squatted \cup StaticAddr
    <2>1. x \in Answering
      BY <1>3, TimeAssumption DEF PingAnswered
    <2>2. ASSUME NEW n \in Mac, Holds(n, x), x \notin StaticAddr
          PROVE  FALSE
      <3>1. leases[x].state = "active" /\ leases[x].mac = n /\ leases[x].end >= client[n].end
        BY <1>1, <2>2 DEF IInv, LeaseInv, ClientInv, BookInv, SerialInv
      <3>2. now < client[n].end /\ now \in Nat /\ client[n].end \in Nat /\ leases[x].end \in Nat
        BY <1>1, <2>2, <3>1 DEF Holds, TypeOK, Client, Table, Row, NoRow
      <3>3. Live(leases[x], n)
        BY <3>1, <3>2 DEF Live
      <3>4. n # m
        BY <1>1, <1>2, <3>3 DEF NoLease
      <3>5. Static[m] # x
        BY <1>1, <1>2, NullAssumption DEF NoLease, Dynamic
      <3>6. QED
        BY <1>2, <3>1, <3>2, <3>4, <3>5 DEF Free
    <2>3. QED
      BY <2>1, <2>2 DEF Answering
  <1>4. AloneInv(h)'
    BY <1>1, <1>2, <1>3 DEF AloneInv, NoLease, Live, Granting, Decided
  <1>5. QED
    BY <1>1, <1>4, LedgerQuiet DEF BookInv

LEMMA MarkMartianBook ==
    ASSUME IInv, BookInv, NEW h \in Handler, MarkMartian(h)
    PROVE  LedgerInv' /\ AloneInv(h)'
  <1>1. /\ pc[h] = "mark" /\ TypeOK /\ pkt[h] \in Packet /\ UNCHANGED <<leases, now>>
        /\ NextCandidate(h) /\ deny' \subseteq deny \cup {ip[h]}
    BY HandlerFacts DEF MarkMartian, AddDenyAddress
  <1>2. NoLease(h) /\ (PingRetries > 0 => ip[h] \in Squatted \cup StaticAddr)
    BY <1>1 DEF BookInv, AloneInv, NoLease
  <1>3. \A m \in Mac : client'[m] = client[m] \/ client'[m].st # "bound"
    BY <1>1, QuietClients
  <1>4. LedgerInv'
    BY <1>1, <1>2, <1>3 DEF BookInv, LedgerInv, OneLeasePerClient, MartiansAreSquatters, Live
  <1>5. QED
    BY <1>1, <1>2, <1>4, NextCandidateAlone

(***************************************************************************)
(* The rest of handleDiscover, handleRequest and handleBootP.              *)
(***************************************************************************)
\* A step between the subnet and the row, which leaves the address chosen.
LEMMA ChosenAlone ==
    ASSUME IInv, BookInv, NEW h \in Handler, pc[h] \in {"subnet", "kind", "lookup"},
           UNCHANGED <<leases, now, pkt, ip>>,
           pc'[h] \in {"kind", "lookup", "add", "update"},
           pc[h] = "subnet" /\ pkt[h].type = "REQUEST" => ip[h] \in Subnet,
           pc'[h] = "lookup" => lease'[h].end = now + LeaseTime,
           pc'[h] \in {"add", "update"} => lease' = lease /\ pc[h] = "lookup",
           pc'[h] = "add" => leases[ip[h]] = NoRow
    PROVE  AloneInv(h)'
  <1> DEFINE m == pkt[h].mac
             x == ip[h]
  <1>1. TypeOK /\ x \in Addr /\ m \in Mac /\ AloneInv(h)
    BY HandlerFacts DEF StageInv, Decided, BookInv
  <1>2. MayTake(h, x)
    BY <1>1 DEF AloneInv, MayTake, Granting, Decided
  <1>3. /\ m \in Dynamic \/ x = Static[m]
        /\ m \in Dynamic => \A a \in Addr \ {x} : ~Live(leases[a], m)
        /\ Free(m, x)
    BY <1>2 DEF MayTake
  <1>4. pkt[h].type = "REQUEST" => x \in Subnet
    BY <1>1 DEF AloneInv
  <1>5. ASSUME pc'[h] \in {"lookup", "add", "update"},
               leases[x].state = "active", leases[x].mac = m
        PROVE  leases[x].end <= lease'[h].end \/ Static[m] = x
    <2>1. CASE pc'[h] = "lookup"
      BY <1>1, <1>5, <2>1 DEF BookInv, LedgerInv
    <2>2. CASE pc'[h] \in {"add", "update"}
      BY <1>1, <1>5, <2>2 DEF AloneInv
    <2>3. QED
      BY <1>5, <2>1, <2>2
  <1>6. QED
    BY <1>3, <1>4, <1>5 DEF AloneInv, Free, Live, Granting, Decided

LEMMA FindSubnetBook ==
    ASSUME IInv, BookInv, NEW h \in Handler, FindSubnet(h)
    PROVE  LedgerInv' /\ AloneInv(h)'
  <1>1. /\ pc[h] = "subnet" /\ TypeOK /\ pkt[h] \in Packet /\ UNCHANGED <<leases, deny, now>>
        /\ cache = Configured /\ ip[h] \in Addr
    BY HandlerFacts DEF FindSubnet, db, StageInv, Decided
  <1>2. CASE Refuse(h)
    BY <1>1, <1>2, RefuseAlone, QuietClients, LedgerQuiet DEF BookInv
  <1>3. CASE Answer(h, [st |-> "offered", ip |-> ip[h], end |-> 0]) /\ Done(h)
    <2>1. \A m \in Mac : client'[m] = client[m] \/ client'[m].st # "bound"
      BY <1>1, <1>3, AnswerFrame DEF Client
    <2>2. QED
      BY <1>1, <1>3, <2>1, DoneAlone, LedgerQuiet DEF BookInv
  <1>4. CASE /\ ip[h] \in cache.nets /\ pkt[h].type = "REQUEST" /\ Goto(h, "kind")
             /\ UNCHANGED <<locals, client, await, stale>>
    <2>1. pc'[h] = "kind" /\ UNCHANGED <<pkt, ip, client>> /\ ip[h] \in Subnet
      BY <1>1, <1>4 DEF Goto, TypeOK, locals, Configured
    <2>2. QED
      BY <1>1, <2>1, ChosenAlone, LedgerQuiet DEF BookInv
  <1>5. CASE /\ pkt[h].type = "BOOTP" /\ Goto(h, "lookup")
             /\ lease' = [lease EXCEPT ![h] = NewLease(pkt[h].mac, TRUE)]
             /\ UNCHANGED <<pkt, ip, todo, scanning, client, await, stale>>
    <2>1. pc'[h] = "lookup" /\ lease'[h].end = now + LeaseTime
      BY <1>1, <1>5 DEF Goto, TypeOK, NewLease
    <2>2. QED
      BY <1>1, <1>5, <2>1, ChosenAlone, LedgerQuiet DEF BookInv
  <1>6. QED
    BY <1>2, <1>3, <1>4, <1>5 DEF FindSubnet

LEMMA CheckKindBook ==
    ASSUME IInv, BookInv, NEW h \in Handler, CheckKind(h)
    PROVE  LedgerInv' /\ AloneInv(h)'
  <1>1. /\ pc[h] = "kind" /\ TypeOK /\ UNCHANGED <<leases, deny, now, pkt, ip, client>>
        /\ pc'[h] = "lookup" /\ lease'[h].end = now + LeaseTime
    BY HandlerFacts DEF CheckKind, db, Goto, TypeOK, NewLease
  <1>2. QED
    BY <1>1, ChosenAlone, LedgerQuiet DEF BookInv

LEMMA LookupRowBook ==
    ASSUME IInv, BookInv, NEW h \in Handler, LookupRow(h)
    PROVE  LedgerInv' /\ AloneInv(h)'
  <1>1. /\ pc[h] = "lookup" /\ TypeOK /\ pkt[h] \in Packet /\ UNCHANGED <<leases, deny, now>>
    BY HandlerFacts DEF LookupRow, db
  <1>2. CASE /\ Goto(h, IF HasRow(leases, ip[h]) THEN "update" ELSE "add")
             /\ UNCHANGED <<locals, client, await, stale>>
    <2>1. /\ pc'[h] = IF HasRow(leases, ip[h]) THEN "update" ELSE "add"
          /\ UNCHANGED <<pkt, ip, lease, client>>
      BY <1>1, <1>2 DEF Goto, TypeOK, locals
    <2>2. QED
      BY <1>1, <2>1, ChosenAlone, LedgerQuiet DEF BookInv, HasRow
  <1>3. CASE Refuse(h)
    BY <1>1, <1>3, RefuseAlone, QuietClients, LedgerQuiet DEF BookInv
  <1>4. QED
    BY <1>2, <1>3 DEF LookupRow

\* A lease is stored: of its client's it is the only one that lasts.
LEMMA StoredBook ==
    ASSUME IInv, BookInv, NEW h \in Handler, pc[h] \in {"add", "update"}, Stored(h),
           NEW s \in BOOLEAN,
           leases' = [leases EXCEPT ![ip[h]] = [lease[h] EXCEPT !.static = s]]
    PROVE  LedgerInv' /\ AloneInv(h)'
  <1> DEFINE m == pkt[h].mac
             x == ip[h]
             row == [lease[h] EXCEPT !.static = s]
  <1>1. /\ TypeOK /\ x \in Addr /\ m \in Mac /\ AloneInv(h) /\ LedgerInv
        /\ lease[h] \in Row /\ lease[h].mac = m /\ lease[h].state = "active"
        /\ lease[h].end <= now + LeaseTime
        /\ UNCHANGED <<deny, now, client, pkt, ip>> /\ pc'[h] = "reply"
    BY HandlerFacts DEF StageInv, Decided, BookInv, Stored, locals, Goto, TypeOK
  <1>2. /\ row.mac = m /\ row.state = "active" /\ row.end = lease[h].end
    BY <1>1 DEF Row
  <1>3. leases'[x] = row /\ \A a \in Addr \ {x} : leases'[a] = leases[a]
    BY <1>1 DEF TypeOK, Table
  <1> HIDE DEF row
  <1>4. /\ m \in Dynamic \/ x = Static[m]
        /\ m \in Dynamic => \A a \in Addr \ {x} : ~Live(leases[a], m)
        /\ pkt[h].type = "REQUEST" => x \in Subnet
    BY <1>1 DEF AloneInv
  <1>5. AloneInv(h)'
    BY <1>1, <1>4 DEF AloneInv, Granting, Decided
  <1>6. \A a \in Addr : leases'[a].state = "active"
          => leases'[a].end <= now' + LeaseTime \/ Static[leases'[a].mac] = a
    BY <1>1, <1>2, <1>3 DEF LedgerInv
  <1>7. \A a \in Addr : leases'[a] # NoRow => leases'[a].mac \in Dynamic \/ a \in StaticAddr
    <2>1. x = Static[m] => x \in StaticAddr
      BY <1>1, NullAssumption DEF StaticAddr
    <2>2. QED
      BY <1>1, <1>2, <1>3, <1>4, <2>1 DEF LedgerInv
  <1>8. OneLeasePerClient'
    <2> SUFFICES ASSUME NEW n \in Dynamic, NEW a \in Addr, NEW b \in Addr,
                        Live(leases[a], n)', Live(leases[b], n)'
                 PROVE  a = b
      BY DEF OneLeasePerClient, Live
    <2>1. CASE n = m
      BY <1>1, <1>3, <1>4, <2>1 DEF Live
    <2>2. CASE n # m
      <3>1. a # x /\ b # x
        BY <1>2, <1>3, <2>2 DEF Live
      <3>2. QED
        BY <1>1, <1>3, <3>1 DEF LedgerInv, OneLeasePerClient, Live
    <2>3. QED
      BY <2>1, <2>2
  <1>9. LedgerInv'
    BY <1>1, <1>6, <1>7, <1>8 DEF LedgerInv, MartiansAreSquatters
  <1>10. QED
    BY <1>5, <1>9

LEMMA InsertLeaseBook ==
    ASSUME IInv, BookInv, NEW h \in Handler, InsertLease(h)
    PROVE  LedgerInv' /\ AloneInv(h)'
  <1>1. /\ pc[h] = "add" /\ lease[h] \in Row /\ ip[h] \in Addr /\ TypeOK /\ pkt[h] \in Packet
    BY HandlerFacts DEF InsertLease, StageInv, Decided
  <1>2. CASE leases' = AddLease(leases, ip[h], lease[h]) /\ Stored(h)
    <2>1. lease[h] = [lease[h] EXCEPT !.static = lease[h].static] /\ lease[h].static \in BOOLEAN
      BY <1>1 DEF Row
    <2>2. QED
      BY <1>1, <1>2, <2>1, StoredBook DEF AddLease
  <1>3. CASE Refuse(h) /\ UNCHANGED <<db, cache, now, raced>>
    BY <1>1, <1>3, RefuseAlone, QuietClients, LedgerQuiet DEF BookInv, db
  <1>4. QED
    BY <1>2, <1>3 DEF InsertLease

LEMMA OverwriteLeaseBook ==
    ASSUME IInv, BookInv, NEW h \in Handler, OverwriteLease(h)
    PROVE  LedgerInv' /\ AloneInv(h)'
  <1>1. /\ pc[h] = "update" /\ lease[h] \in Row /\ ip[h] \in Addr /\ TypeOK /\ pkt[h] \in Packet
        /\ HasRow(leases, ip[h])
    BY HandlerFacts DEF OverwriteLease, StageInv, Decided
  <1>2. CASE leases' = UpdateLease(leases, ip[h], lease[h]) /\ Stored(h)
    <2>1. leases[ip[h]].static \in BOOLEAN
      BY <1>1 DEF TypeOK, Table, HasRow, Row
    <2>2. QED
      BY <1>1, <1>2, <2>1, StoredBook DEF UpdateLease
  <1>3. CASE Refuse(h) /\ UNCHANGED <<db, cache, now, raced>>
    BY <1>1, <1>3, RefuseAlone, QuietClients, LedgerQuiet DEF BookInv, db
  <1>4. QED
    BY <1>2, <1>3 DEF OverwriteLease

LEMMA SendReplyBook ==
    ASSUME IInv, BookInv, NEW h \in Handler, SendReply(h)
    PROVE  LedgerInv' /\ AloneInv(h)'
  <1> DEFINE c == [st |-> "bound", ip |-> ip[h], end |-> lease[h].end]
  <1>1. /\ pc[h] = "reply" /\ TypeOK /\ pkt[h] \in Packet /\ UNCHANGED <<leases, deny, now>>
        /\ ip[h] \in Addr /\ lease[h] \in Row /\ Done(h)
        /\ pkt[h].type = "REQUEST" => ip[h] \in Subnet
    BY HandlerFacts DEF SendReply, db, StageInv, Decided, BookInv, AloneInv
  <1>2. c \in Client
    BY <1>1 DEF Client, Row
  <1>3. \A m \in Mac : client'[m] = client[m] \/ client'[m].ip \in Subnet
    <2>1. CASE pkt[h].type = "REQUEST"
      <3>1. \A m \in Mac : client'[m] = client[m] \/ client'[m] = c
        BY <1>1, <1>2, <2>1, AnswerFrame DEF SendReply
      <3>2. QED
        BY <1>1, <2>1, <3>1
    <2>2. CASE pkt[h].type # "REQUEST"
      BY <1>1, <2>2 DEF SendReply, NoReply
    <2>3. QED
      BY <2>1, <2>2
  <1>4. LedgerInv'
    BY <1>1, <1>3 DEF BookInv, LedgerInv, OneLeasePerClient, MartiansAreSquatters, Live
  <1>5. QED
    BY <1>1, <1>4, DoneAlone

(***************************************************************************)
(* ReleaseLease.                                                           *)
(***************************************************************************)
LEMMA ReadForReleaseBook ==
    ASSUME IInv, BookInv, NEW h \in Handler, ReadForRelease(h)
    PROVE  LedgerInv' /\ AloneInv(h)'
  <1> DEFINE m == pkt[h].mac
             found == GetLeaseByMAC(leases, m)
  <1>1. /\ pc[h] = "relread" /\ TypeOK /\ pkt[h] \in Packet /\ m \in Mac
        /\ OneLeasePerClient /\ UNCHANGED <<leases, deny, now>>
    BY HandlerFacts DEF ReadForRelease, db, BookInv, LedgerInv
  <1>2. ASSUME NEW a \in found,
               Goto(h, "relwrite"), ip' = [ip EXCEPT ![h] = a],
               lease' = [lease EXCEPT ![h] = [leases[a] EXCEPT !.state = "expired", !.end = now]],
               UNCHANGED <<pkt, todo, scanning, client, await, stale>>
        PROVE  LedgerInv' /\ AloneInv(h)'
    <2>1. a \in Addr /\ leases[a].state = "active" /\ leases[a].mac = m
      BY DEF GetLeaseByMAC, ActiveFor
    <2>2. /\ pc'[h] = "relwrite" /\ ip'[h] = a
          /\ lease'[h] = [leases[a] EXCEPT !.state = "expired", !.end = now]
      BY <1>1, <1>2 DEF Goto, TypeOK
    <2>3. m \in Dynamic => \A b \in Addr \ {a} : ~Live(leases[b], m)
      BY <1>1, FoundByMAC
    <2>4. now \in 0 .. now
      BY <1>1 DEF TypeOK
    <2>5. Ended(h)'
      BY <1>1, <1>2, <2>1, <2>2, <2>4 DEF Ended
    <2>6. AloneInv(h)'
      BY <1>1, <1>2, <2>2, <2>3, <2>5 DEF AloneInv, Live, Granting, Decided
    <2>7. QED
      BY <1>1, <1>2, <2>6, LedgerQuiet DEF BookInv
  <1>3. CASE Refuse(h)
    BY <1>1, <1>3, RefuseAlone, QuietClients, LedgerQuiet DEF BookInv
  <1>4. QED
    BY <1>2, <1>3, Zenon DEF ReadForRelease

\* The row of a release is the one read, ended.
LEMMA ReleasedRow ==
    ASSUME IInv, BookInv, NEW h \in Handler, pc[h] = "relwrite",
           leases' = UpdateLease(leases, ip[h], lease[h])
    PROVE  /\ leases[ip[h]].state = "active" /\ leases[ip[h]].mac = pkt[h].mac
           /\ leases[ip[h]] \in Row
           /\ \E e \in 0 .. now :
                 leases' = [leases EXCEPT ![ip[h]] =
                               [leases[ip[h]] EXCEPT !.state = "expired", !.end = e]]
  <1> DEFINE row == leases[ip[h]]
  <1>1. TypeOK /\ ip[h] \in Addr /\ HasRow(leases, ip[h]) /\ Ended(h)
    BY HandlerFacts DEF StageInv, Decided, BookInv, AloneInv
  <1>2. row \in Row /\ row.state = "active" /\ row.mac = pkt[h].mac
    BY <1>1 DEF TypeOK, Table, HasRow, Ended
  <1>3. PICK e \in 0 .. now : lease[h] = [row EXCEPT !.state = "expired", !.end = e]
    BY <1>1 DEF Ended
  <1>4. [lease[h] EXCEPT !.static = row.static] = [row EXCEPT !.state = "expired", !.end = e]
    BY <1>2, <1>3 DEF Row
  <1>5. leases' = [leases EXCEPT ![ip[h]] = [row EXCEPT !.state = "expired", !.end = e]]
    BY <1>1, <1>4 DEF UpdateLease
  <1>6. QED
    BY <1>2, <1>5

LEMMA WriteReleaseBook ==
    ASSUME IInv, BookInv, NEW h \in Handler, WriteRelease(h)
    PROVE  LedgerInv' /\ AloneInv(h)'
  <1>1. /\ pc[h] = "relwrite" /\ TypeOK /\ UNCHANGED <<deny, now, client>> /\ Done(h)
        /\ ip[h] \in Addr /\ LedgerInv
    BY HandlerFacts DEF WriteRelease, NoReply, StageInv, Decided, BookInv
  <1>2. CASE leases' = UpdateLease(leases, ip[h], lease[h])
    <2> DEFINE x == ip[h]
    <2>1. leases[x] \in Row
      BY <1>1, <1>2, ReleasedRow
    <2>2. PICK e \in 0 .. now :
            leases' = [leases EXCEPT ![x] = [leases[x] EXCEPT !.state = "expired", !.end = e]]
      BY <1>1, <1>2, ReleasedRow
    <2>3. /\ leases'[x].state = "expired" /\ leases'[x].mac = leases[x].mac
          /\ \A a \in Addr \ {x} : leases'[a] = leases[a]
      BY <1>1, <2>1, <2>2 DEF TypeOK, Table, Row
    <2>4. leases[x] # NoRow
      BY <2>1, NullAssumption DEF Row, NoRow
    <2>5. LedgerInv'
      BY <1>1, <2>3, <2>4 DEF LedgerInv, OneLeasePerClient, MartiansAreSquatters, Live
    <2>6. QED
      BY <1>1, <2>5, DoneAlone
  <1>3. CASE leases' = leases
    BY <1>1, <1>3, DoneAlone, LedgerQuiet DEF BookInv
  <1>4. QED
    BY <1>2, <1>3 DEF WriteRelease

(***************************************************************************)
(* Arrivals, the clock, and the whole.                                     *)
(***************************************************************************)
LEMMA ArrivalBook ==
    ASSUME IInv, BookInv, NEW h \in Handler, Arrival(h)
    PROVE  LedgerInv' /\ AloneInv(h)'
  <1>1. PICK m \in Mac :
          \/ \E a \in Addr \cup {NoAddr} : ReceiveDiscover(h, m, a)
          \/ \E a \in Addr : ReceiveRequest(h, m, a)
          \/ ReceiveRelease(h, m)
          \/ ReceiveBootP(h, m)
          \/ ReceiveUnserved(h, m)
    BY DEF Arrival
  <1>2. TypeOK
    BY DEF IInv, LeaseInv
  <1>3. /\ UNCHANGED <<leases, deny, now>>
        /\ client' = client \/ client' = [client EXCEPT ![m] = Unbound]
    BY <1>1 DEF ReceiveDiscover, ReceiveRequest, ReceiveRelease, ReceiveBootP, ReceiveUnserved,
                Receive
  <1>4. LedgerInv'
    BY <1>2, <1>3, LedgerQuiet DEF BookInv, TypeOK, Unbound
  <1>5. CASE ReceiveUnserved(h, m)
    <2>1. pc[h] = "idle" /\ UNCHANGED <<pc, pkt>>
      BY <1>5 DEF ReceiveUnserved
    <2>2. AloneInv(h)
      BY DEF BookInv
    <2>3. QED
      BY <1>4, <2>1, <2>2 DEF AloneInv, Granting, Decided
  <1>6. CASE ~ReceiveUnserved(h, m)
    <2>1. pc'[h] \in {"static", "relread"}
      BY <1>1, <1>2, <1>6 DEF ReceiveDiscover, ReceiveRequest, ReceiveRelease, ReceiveBootP,
                              Receive, Goto, TypeOK
    <2>2. QED
      BY <1>4, <2>1 DEF AloneInv, Granting, Decided
  <1>7. QED
    BY <1>4, <1>5, <1>6

\* Time passing ends leases and starts none.
LEMMA TickBook ==
    ASSUME IInv, BookInv, Tick
    PROVE  LedgerInv' /\ \A h \in Handler : AloneInv(h)'
  <1>1. /\ TypeOK /\ now \in Nat /\ now' = now + 1
        /\ UNCHANGED <<leases, deny, cache, pc, pkt, ip, todo, scanning, lease, client>>
    BY DEF IInv, LeaseInv, TypeOK, Tick, db, locals
  <1>2. ASSUME NEW a \in Addr
        PROVE  leases[a].state = "active" => leases[a].end \in Nat
    BY <1>1 DEF TypeOK, Table, Row, NoRow
  <1>3. \A a \in Addr, m \in Mac : Live(leases[a], m)' => Live(leases[a], m)
    BY <1>1, <1>2 DEF Live
  <1>4. \A m \in Mac, a \in Addr : Free(m, a) => Free(m, a)'
    BY <1>1, <1>2 DEF Free
  <1>5. LedgerInv'
    <2>1. \A a \in Addr : leases[a].state = "active" =>
             leases[a].end <= now' + LeaseTime \/ Static[leases[a].mac] = a
      BY <1>1, <1>2, TimeAssumption DEF BookInv, LedgerInv
    <2>2. OneLeasePerClient'
      BY <1>1, <1>3 DEF BookInv, LedgerInv, OneLeasePerClient, Dynamic
    <2>3. QED
      BY <1>1, <2>1, <2>2 DEF BookInv, LedgerInv, MartiansAreSquatters
  <1>6. ASSUME NEW h \in Handler PROVE AloneInv(h)'
    <2> DEFINE m == pkt[h].mac
               x == ip[h]
    <2>1. AloneInv(h) /\ StageInv(h)
      BY DEF BookInv, IInv, LeaseInv
    <2>2. CASE pc[h] = "idle"
      BY <1>1, <2>1, <2>2 DEF AloneInv, Granting, Decided
    <2>3. CASE pc[h] # "idle"
      <3>1. m \in Mac /\ (pc[h] \in Decided => x \in Addr)
        BY <2>3, HandlerFacts DEF StageInv
      <3>2. pc[h] = "relwrite" => Ended(h)'
        <4> SUFFICES ASSUME pc[h] = "relwrite" PROVE Ended(h)'
          OBVIOUS
        <4>1. Ended(h)
          BY <2>1 DEF AloneInv
        <4>2. PICK e \in 0 .. now :
                lease[h] = [leases[x] EXCEPT !.state = "expired", !.end = e]
          BY <4>1 DEF Ended
        <4>3. e \in 0 .. now'
          BY <1>1
        <4>4. QED
          BY <1>1, <4>1, <4>2, <4>3 DEF Ended
      <3>3. pc[h] \in Granting => Free(m, x)'
        BY <1>1, <1>4, <2>1, <3>1 DEF AloneInv, Granting, Free
      <3>4. /\ pc[h] \in {"pool", "deny", "row", "ping", "mark"}
                 => \A a \in Addr : ~Live(leases[a], m)'
            /\ pc[h] \in {"subnet", "kind", "lookup", "add", "update", "relwrite"} /\ m \in Dynamic
                 => \A a \in Addr \ {x} : ~Live(leases[a], m)'
        BY <1>1, <1>3, <2>1, <3>1 DEF AloneInv, Live
      <3>5. QED
        BY <1>1, <2>1, <2>3, <3>2, <3>3, <3>4 DEF AloneInv, Live, Free
    <2>4. QED
      BY <2>2, <2>3
  <1>7. QED
    BY <1>5, <1>6

LEMMA InitBook == Init => BookInv
  <1> SUFFICES ASSUME Init PROVE BookInv
    OBVIOUS
  <1>1. PICK owner \in {f \in [StaticAddr -> Mac] : \A a \in StaticAddr : Static[f[a]] = a} :
          leases = [a \in Addr |-> IF a \in StaticAddr THEN SeededRow(owner[a]) ELSE NoRow]
    BY DEF Init, Seeded
  <1>2. \A a \in Addr : leases[a].state = "active"
          => a \in StaticAddr /\ leases[a].mac \in Mac /\ Static[leases[a].mac] = a
    BY <1>1 DEF SeededRow, NoRow
  <1>3. \A a \in Addr : leases[a].state = "active" => leases[a].mac \notin Dynamic
    BY <1>2, NullAssumption DEF Dynamic
  <1>4. OneLeasePerClient
    BY <1>3 DEF OneLeasePerClient, Live
  <1>5. \A a \in Addr : leases[a] # NoRow => a \in StaticAddr
    BY <1>1
  <1>6. LedgerInv
    BY <1>2, <1>4, <1>5 DEF Init, LedgerInv, MartiansAreSquatters, Unbound
  <1>7. \A h \in Handler : AloneInv(h)
    BY DEF Init, AloneInv, Granting, Decided
  <1>8. SerialInv
    BY DEF Init, SerialInv
  <1>9. QED
    BY <1>6, <1>7, <1>8 DEF BookInv

LEMMA BookNext ==
    ASSUME \A g, h \in Handler : g = h, IInv, BookInv, [Next]_vars
    PROVE  BookInv'
  <1>1. SerialInv'
    BY SerialNext DEF BookInv
  <1>2. CASE UNCHANGED vars
    <2>1. LedgerInv'
      BY <1>2, LedgerQuiet DEF vars, BookInv
    <2>2. \A h \in Handler : AloneInv(h)'
      BY <1>2, ZenonT(30) DEF vars, BookInv, AloneInv, Free, Ended, Live
    <2>3. QED
      BY <1>1, <2>1, <2>2 DEF BookInv
  <1>3. CASE Tick
    BY <1>1, <1>3, TickBook DEF BookInv
  <1>4. ASSUME NEW h \in Handler, Arrival(h) \/ Step(h)
        PROVE  BookInv'
    <2>1. LedgerInv' /\ AloneInv(h)'
      BY <1>4, ArrivalBook, CheckStaticBook, LookupByMACBook, ReadPoolBook, CheckDenyBook,
         CheckRowBook, PingSilentBook, PingAnsweredBook, MarkMartianBook, FindSubnetBook,
         CheckKindBook, LookupRowBook, InsertLeaseBook, OverwriteLeaseBook, SendReplyBook,
         ReadForReleaseBook, WriteReleaseBook DEF Step
    <2>2. \A g \in Handler : AloneInv(g)'
      BY <2>1
    <2>3. QED
      BY <1>1, <2>1, <2>2 DEF BookInv
  <1>5. QED
    BY <1>2, <1>3, <1>4 DEF Next

(***************************************************************************)
(* What BookInv says of single steps.                                      *)
(***************************************************************************)
\* A dynamic lease a client holds is in the table, and its address is served.
LEMMA HolderFacts ==
    ASSUME IInv, BookInv, NEW m \in Mac, NEW a \in Addr \cup {NoAddr}, a \notin StaticAddr,
           Holds(m, a)
    PROVE  a \in Addr /\ a \in Subnet /\ m \in Dynamic /\ Live(leases[a], m)
  <1>1. TypeOK /\ LedgerInv /\ raced = {} /\ client[m].st = "bound" /\ client[m].ip = a
        /\ now < client[m].end
    BY DEF IInv, LeaseInv, BookInv, SerialInv, Holds
  <1>2. a \in Subnet /\ a \in Addr
    BY <1>1, ConfigAssumption DEF LedgerInv
  <1>3. leases[a].state = "active" /\ leases[a].mac = m /\ leases[a].end >= client[m].end
    BY <1>1, <1>2 DEF IInv, LeaseInv, ClientInv
  <1>4. now \in Nat /\ client[m].end \in Nat /\ leases[a].end \in Nat
    BY <1>1, <1>2, <1>3 DEF TypeOK, Client, Table, Row, NoRow
  <1>5. m \in Dynamic
    BY <1>1, <1>2, <1>3 DEF LedgerInv, NoRow
  <1>6. QED
    BY <1>1, <1>2, <1>3, <1>4, <1>5 DEF Live

LEMMA StepRefusesNoHolder ==
    ASSUME DbFaults = FALSE, IInv, BookInv, NEW h \in Handler, Step(h), RefusesHolder(h)
    PROVE  FALSE
  <1> DEFINE m == pkt[h].mac
             a == pkt[h].req
  <1>1. pkt[h].type = "REQUEST" /\ pc[h] # "reply" /\ pc'[h] = "idle" /\ Holds(m, a)
        /\ a \notin StaticAddr
    BY DEF RefusesHolder
  <1>2. pc[h] # "idle"
    BY <1>1 DEF BookInv, AloneInv, NoPacket
  <1>3. /\ TypeOK /\ cache = Configured /\ m \in Mac /\ a \in Addr \cup {NoAddr} /\ AloneInv(h)
        /\ StageInv(h)
    BY <1>2, HandlerFacts DEF BookInv, Packet
  <1>4. a \in Addr /\ a \in Subnet /\ m \in Dynamic /\ Live(leases[a], m)
    BY <1>1, <1>3, HolderFacts
  <1>5. \A label \in PC : Goto(h, label) => pc'[h] = label
    BY <1>3 DEF Goto, TypeOK
  <1>6. pc[h] \notin {"pool", "deny", "row", "ping", "mark"}
    BY <1>3, <1>4 DEF AloneInv
  <1>7. pc[h] \notin {"relread", "relwrite"}
    BY <1>1 DEF BookInv, SerialInv
  <1>8. CASE CheckStatic(h)
    <2>1. cache.static[m] = NoAddr
      BY <1>3, <1>4 DEF Dynamic, Configured
    <2>2. Goto(h, "bymac")
      BY <1>1, <1>8, <2>1 DEF CheckStatic
    <2>3. QED
      BY <1>1, <1>5, <2>2 DEF PC
  <1>9. CASE LookupByMAC(h)
    <2> DEFINE found == GetLeaseByMAC(leases, m)
               usable == {x \in found : now < leases[x].end}
    <2>1. a \in usable /\ \A x \in usable : x = a
      BY <1>3, <1>4, FoundByMAC DEF BookInv, LedgerInv, Live
    <2>2. \E x \in usable : Allocated(h, x)
      BY <1>9, <2>1, Zenon DEF LookupByMAC
    <2>3. Allocated(h, a)
      BY <2>1, <2>2, Zenon
    <2>4. Goto(h, "subnet")
      BY <2>3 DEF Allocated
    <2>5. QED
      BY <1>1, <1>5, <2>4 DEF PC
  <1>10. CASE FindSubnet(h)
    <2>1. pc[h] = "subnet"
      BY <1>10 DEF FindSubnet
    <2>2. ip[h] = a
      BY <1>1, <1>3, <2>1 DEF StageInv
    <2>3. ip[h] \in cache.nets
      BY <1>3, <1>4, <2>2 DEF Configured
    <2>4. Goto(h, "kind")
      BY <1>1, <1>10, <2>3 DEF FindSubnet
    <2>5. QED
      BY <1>1, <1>5, <2>4 DEF PC
  <1>11. CASE CheckKind(h)
    BY <1>1, <1>5, <1>11 DEF CheckKind, PC
  <1>12. CASE LookupRow(h)
    <2>1. Goto(h, IF HasRow(leases, ip[h]) THEN "update" ELSE "add")
      BY <1>12 DEF LookupRow
    <2>2. QED
      BY <1>1, <1>5, <2>1 DEF PC
  <1>13. CASE InsertLease(h)
    <2>1. CanAdd(leases, ip[h])
      BY <1>3, <1>13 DEF InsertLease, AloneInv, CanAdd, HasRow
    <2>2. Goto(h, "reply")
      BY <1>13, <2>1 DEF InsertLease, Stored
    <2>3. QED
      BY <1>1, <1>5, <2>2 DEF PC
  <1>14. CASE OverwriteLease(h)
    <2>1. Goto(h, "reply")
      BY <1>14 DEF OverwriteLease, Stored
    <2>2. QED
      BY <1>1, <1>5, <2>1 DEF PC
  <1>15. QED
    BY <1>1, <1>6, <1>7, <1>8, <1>9, <1>10, <1>11, <1>12, <1>13, <1>14
    DEF Step, ReadPool, CheckDeny, CheckRow, PingSilent, PingAnswered, MarkMartian, SendReply,
        ReadForRelease, WriteRelease

LEMMA NoRefusal ==
    ASSUME \A g, h \in Handler : g = h, DbFaults = FALSE, IInv, BookInv, [Next]_vars
    PROVE  \A h \in Handler : ~RefusesHolder(h)
  <1> SUFFICES ASSUME NEW h \in Handler, RefusesHolder(h) PROVE FALSE
    OBVIOUS
  <1>1. pc[h] # "idle" /\ pc'[h] = "idle"
    BY DEF RefusesHolder, BookInv, AloneInv, NoPacket
  <1>2. ~Arrival(h)
    BY <1>1 DEF Arrival, ReceiveDiscover, ReceiveRequest, ReceiveRelease, ReceiveBootP,
                ReceiveUnserved, Receive
  <1>3. ~Tick /\ ~UNCHANGED vars
    BY <1>1 DEF Tick, vars
  <1>4. Step(h)
    BY <1>2, <1>3 DEF Next
  <1>5. QED
    BY <1>4, StepRefusesNoHolder

LEMMA ReleaseLeavesNone ==
    ASSUME \A g, h \in Handler : g = h, DbFaults = FALSE, IInv, BookInv, [Next]_vars
    PROVE  \A h \in Handler : ~LeavesLease(h)
  <1> SUFFICES ASSUME NEW h \in Handler, LeavesLease(h) PROVE FALSE
    OBVIOUS
  <1> DEFINE m == pkt[h].mac
             x == ip[h]
  <1>1. pc[h] = "relwrite" /\ pc'[h] = "idle" /\ m \in Dynamic
    BY DEF LeavesLease
  <1>2. WriteRelease(h)
    <2>1. ~Arrival(h)
      BY <1>1 DEF Arrival, ReceiveDiscover, ReceiveRequest, ReceiveRelease, ReceiveBootP,
                  ReceiveUnserved, Receive
    <2>2. ~Tick /\ ~UNCHANGED vars
      BY <1>1 DEF Tick, vars
    <2>3. Step(h)
      BY <2>1, <2>2 DEF Next
    <2>4. QED
      BY <1>1, <2>3 DEF Step, CheckStatic, LookupByMAC, ReadPool, CheckDeny, CheckRow, PingSilent,
         PingAnswered, MarkMartian, FindSubnet, CheckKind, LookupRow, InsertLease, OverwriteLease,
         SendReply, ReadForRelease
  <1>3. leases' = UpdateLease(leases, x, lease[h]) /\ TypeOK /\ x \in Addr /\ AloneInv(h)
    BY <1>1, <1>2, HandlerFacts DEF WriteRelease, StageInv, Decided, BookInv
  <1>4. PICK e \in 0 .. now :
          leases' = [leases EXCEPT ![x] = [leases[x] EXCEPT !.state = "expired", !.end = e]]
    BY <1>1, <1>3, ReleasedRow
  <1>5. leases[x] \in Row
    BY <1>1, <1>3, ReleasedRow
  <1>6. leases'[x].state = "expired" /\ \A a \in Addr \ {x} : leases'[a] = leases[a]
    BY <1>3, <1>4, <1>5 DEF TypeOK, Table, Row
  <1>7. \A a \in Addr \ {x} : ~Live(leases[a], m)
    BY <1>1, <1>3 DEF AloneInv
  <1>8. QED
    BY <1>6, <1>7 DEF LeavesLease, Live

(***************************************************************************)
(* The refinement of LeaseBook.                                            *)
(***************************************************************************)
LEMMA StoredTakes ==
    ASSUME IInv, BookInv, NEW h \in Handler, pc[h] \in {"add", "update"}, UNCHANGED now,
           NEW s \in BOOLEAN,
           leases' = [leases EXCEPT ![ip[h]] = [lease[h] EXCEPT !.static = s]]
    PROVE  Book!Take(pkt[h].mac, ip[h])
  <1> DEFINE m == pkt[h].mac
             x == ip[h]
             e == lease[h].end
  <1>1. /\ TypeOK /\ x \in Addr /\ m \in Mac /\ AloneInv(h) /\ lease[h] \in Row
        /\ lease[h].mac = m /\ lease[h].state = "active" /\ e <= now + LeaseTime
    BY HandlerFacts DEF StageInv, Decided, BookInv
  <1>2. Book!FreeFor(leases[x], m) \/ Static[m] = x
    BY <1>1 DEF AloneInv, Free, Granting, Decided, Book!FreeFor
  <1>3. e \in 0 .. (now + LeaseTime)
    BY <1>1, TimeAssumption DEF TypeOK, Row
  <1>4. leases[x].state = "active" /\ leases[x].mac = m /\ Static[m] # x => e >= leases[x].end
    <2>1. leases[x].state = "active" => leases[x].end \in Nat
      BY <1>1 DEF TypeOK, Table, Row, NoRow
    <2>2. e \in Nat
      BY <1>1 DEF Row
    <2>3. QED
      BY <1>1, <2>1, <2>2 DEF AloneInv
  <1>5. [lease[h] EXCEPT !.static = s] = [mac |-> m, end |-> e, state |-> "active", static |-> s]
    BY <1>1 DEF Row
  <1>6. leases' = [leases EXCEPT ![x] = [mac |-> m, end |-> e, state |-> "active", static |-> s]]
    BY <1>5
  <1> HIDE DEF m, x, e
  <1>7. Book!Take(m, x)
    BY <1>2, <1>3, <1>4, <1>6 DEF Book!Take
  <1>8. QED
    BY <1>7 DEF m, x

LEMMA StepImplementsBook ==
    ASSUME \A g, h \in Handler : g = h, IInv, BookInv, [Next]_vars
    PROVE  Book!Next \/ UNCHANGED <<leases, now>>
  <1>1. CASE UNCHANGED vars
    BY <1>1 DEF vars
  <1>2. CASE Tick
    BY <1>2 DEF Tick, db, Book!Next, Book!Tick
  <1>3. ASSUME NEW h \in Handler, Arrival(h)
        PROVE  UNCHANGED <<leases, now>>
    BY <1>3 DEF Arrival, ReceiveDiscover, ReceiveRequest, ReceiveRelease, ReceiveBootP,
                ReceiveUnserved, Receive
  <1>4. ASSUME NEW h \in Handler, Step(h)
        PROVE  Book!Next \/ UNCHANGED <<leases, now>>
    <2> DEFINE m == pkt[h].mac
               x == ip[h]
    <2>1. CASE InsertLease(h)
      <3>1. /\ pc[h] = "add" /\ TypeOK /\ lease[h] \in Row /\ x \in Addr /\ m \in Mac
        BY <2>1, HandlerFacts DEF InsertLease, StageInv, Decided
      <3>2. CASE leases' = AddLease(leases, x, lease[h]) /\ Stored(h)
        <4>1. lease[h] = [lease[h] EXCEPT !.static = lease[h].static] /\ lease[h].static \in BOOLEAN
          BY <3>1 DEF Row
        <4>2. Book!Take(m, x)
          BY <3>1, <3>2, <4>1, StoredTakes DEF AddLease, Stored
        <4>3. QED
          BY <3>1, <4>2 DEF Book!Next
      <3>3. QED
        BY <2>1, <3>2 DEF InsertLease, db
    <2>2. CASE OverwriteLease(h)
      <3>1. /\ pc[h] = "update" /\ TypeOK /\ lease[h] \in Row /\ x \in Addr /\ m \in Mac
            /\ HasRow(leases, x)
        BY <2>2, HandlerFacts DEF OverwriteLease, StageInv, Decided
      <3>2. CASE leases' = UpdateLease(leases, x, lease[h]) /\ Stored(h)
        <4>1. leases[x].static \in BOOLEAN
          BY <3>1 DEF TypeOK, Table, HasRow, Row
        <4>2. Book!Take(m, x)
          BY <3>1, <3>2, <4>1, StoredTakes DEF UpdateLease, Stored
        <4>3. QED
          BY <3>1, <4>2 DEF Book!Next
      <3>3. QED
        BY <2>2, <3>2 DEF OverwriteLease, db
    <2>3. CASE WriteRelease(h)
      <3>1. /\ pc[h] = "relwrite" /\ TypeOK /\ x \in Addr /\ m \in Mac /\ UNCHANGED now
        BY <2>3, HandlerFacts DEF WriteRelease, StageInv, Decided
      <3>2. CASE leases' = UpdateLease(leases, x, lease[h])
        <4>1. Book!GiveUp(m, x)
          BY <3>1, <3>2, ReleasedRow DEF Book!GiveUp
        <4>2. QED
          BY <3>1, <4>1 DEF Book!Next
      <3>3. QED
        BY <2>3, <3>1, <3>2 DEF WriteRelease
    <2>4. QED
      BY <1>4, <2>1, <2>2, <2>3
      DEF Step, CheckStatic, LookupByMAC, ReadPool, CheckDeny, CheckRow, PingSilent, PingAnswered,
          MarkMartian, FindSubnet, CheckKind, LookupRow, SendReply, ReadForRelease, db
  <1>5. QED
    BY <1>1, <1>2, <1>3, <1>4 DEF Next

(***************************************************************************)
(* Theorems.                                                               *)
(***************************************************************************)
\* handlePacket called one packet after the other: what a handler found in the table
\* is still there when it writes.
THEOREM SerialBook ==
    ASSUME \A g, h \in Handler : g = h
    PROVE  Spec => []BookInv
  <1>1. IInv /\ BookInv /\ [Next]_vars => BookInv'
    BY BookNext
  <1>2. QED
    BY <1>1, InitBook, Invariance, PTL DEF Spec

\* GetLeaseByMAC and AllocateIP never let a client collect addresses.
THEOREM SerialOneLease ==
    ASSUME \A g, h \in Handler : g = h
    PROVE  Spec => []OneLeasePerClient
  <1>1. BookInv => OneLeasePerClient
    BY DEF BookInv, LedgerInv
  <1>2. QED
    BY <1>1, SerialBook, PTL

\* pingCheck denies squatters only, if it pings at all.
THEOREM SerialMartians ==
    ASSUME \A g, h \in Handler : g = h, PingRetries > 0
    PROVE  Spec => []MartiansAreSquatters
  <1>1. BookInv => MartiansAreSquatters
    BY DEF BookInv, LedgerInv
  <1>2. QED
    BY <1>1, SerialBook, PTL

\* handleRequest refuses no client the dynamic address it holds, while the database
\* answers.
THEOREM SerialRenewal ==
    ASSUME \A g, h \in Handler : g = h, DbFaults = FALSE
    PROVE  Spec => RenewalNeverRefused
  <1>1. IInv /\ BookInv /\ [Next]_vars => [\A h \in Handler : ~RefusesHolder(h)]_vars
    BY NoRefusal
  <1>2. QED
    BY <1>1, SerialBook, Invariance, PTL DEF Spec, RenewalNeverRefused

\* ReleaseLease ends all its client has, while the database answers.
THEOREM SerialRelease ==
    ASSUME \A g, h \in Handler : g = h, DbFaults = FALSE
    PROVE  Spec => ReleaseFrees
  <1>1. IInv /\ BookInv /\ [Next]_vars => [\A h \in Handler : ~LeavesLease(h)]_vars
    BY ReleaseLeavesNone
  <1>2. QED
    BY <1>1, SerialBook, Invariance, PTL DEF Spec, ReleaseFrees

\* The queries and writes of one packet, steps apart, have the effect of one step of
\* the book.
THEOREM SerialImplementsBook ==
    ASSUME \A g, h \in Handler : g = h
    PROVE  Spec => ImplementsBook
  <1>1. Init => Book!Init
    BY InitTypes DEF Init, Book!Init, TypeOK, Table, Row, NoRow, Book!Table, Book!Row, Book!NoRow
  <1>2. IInv /\ BookInv /\ [Next]_vars => [Book!Next]_(Book!vars)
    BY StepImplementsBook DEF Book!vars
  <1>3. QED
    BY <1>1, <1>2, SerialBook, Invariance, PTL DEF Spec, ImplementsBook, Book!Spec
=============================================================================
