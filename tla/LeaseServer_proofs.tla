------------------------- MODULE LeaseServer_proofs -------------------------
(***************************************************************************)
(* Proofs about LeaseServer, for any number of handlers, clients and       *)
(* addresses: its types, and which races are the only ways to a double     *)
(* grant and to a client on the deny list; that one handler loses no race; *)
(* and what a server does that sends no pings.                             *)
(*                                                                         *)
(* A step of h leaves RowInv(g) to the other handlers because it changes   *)
(* the table only where it makes g stale.  Most steps change no table at   *)
(* all: "Frame" says what such a step of h leaves alone, and each lemma    *)
(* about a way to go on (Refuse, Allocated, Scan...) sums it up as one.    *)
(***************************************************************************)
EXTENDS LeaseServerInv, SequenceTheorems, TLAPS

(***************************************************************************)
(* Types of the locals and of the clients, which most steps change.        *)
(***************************************************************************)
LocalTypes ==
    /\ pc \in [Handler -> PC]
    /\ pkt \in [Handler -> Packet \cup {NoPacket}]
    /\ ip \in [Handler -> Addr \cup {NoAddr}]
    /\ todo \in [Handler -> Seq(Addr)]
    /\ scanning \in [Handler -> BOOLEAN]
    /\ lease \in [Handler -> Row \cup {NoRow}]
    /\ client \in [Mac -> Client]
    /\ await \in [Handler -> BOOLEAN]
    /\ stale \in [Handler -> BOOLEAN]

\* A step of h that leaves the other handlers as they are, except that it may
\* end their wait, and gives no client a lease.
Frame(h) ==
    /\ \A g \in Handler \ {h} :
          /\ pc'[g] = pc[g] /\ pkt'[g] = pkt[g] /\ ip'[g] = ip[g]
          /\ lease'[g] = lease[g] /\ stale'[g] = stale[g]
          /\ await'[g] => await[g]
    /\ \A m \in Mac : client'[m] = client[m] \/ client'[m].st # "bound"

Quit(h) == pc'[h] = "idle" /\ ~await'[h]

Moved(h, label) ==
    /\ pc'[h] = label /\ pkt'[h] = pkt[h] /\ lease'[h] = lease[h]
    /\ await'[h] = await[h]

(***************************************************************************)
(* The initial states.                                                     *)
(***************************************************************************)
LEMMA InitTypes == Init => TypeOK
  <1> SUFFICES ASSUME Init PROVE TypeOK
    OBVIOUS
  <1>1. leases \in Table
    <2>1. PICK owner \in [StaticAddr -> Mac] :
            leases = [a \in Addr |-> IF a \in StaticAddr THEN SeededRow(owner[a]) ELSE NoRow]
      BY DEF Init, Seeded
    <2>2. \A a \in StaticAddr : SeededRow(owner[a]) \in Row
      BY <2>1, TimeAssumption DEF SeededRow, Row
    <2>3. QED
      BY <2>1, <2>2 DEF Table
  <1>2. cache \in Cache
    BY StaticAssumption, ConfigAssumption DEF Init, Configured, Cache
  <1>3. LocalTypes
    <2>1. Unbound \in Client
      BY DEF Unbound, Client
    <2>2. <<>> \in Seq(Addr)
      BY EmptySeq
    <2>3. QED
      BY <2>1, <2>2 DEF Init, LocalTypes, PC
  <1>4. QED
    BY <1>1, <1>2, <1>3 DEF Init, TypeOK, LocalTypes

LEMMA InitInv == Init => IInv
  <1> SUFFICES ASSUME Init PROVE IInv
    OBVIOUS
  <1>1. TypeOK
    BY InitTypes
  <1> DEFINE waived == StaticAddr \cup raced
  <1>2. \A h \in Handler : StageInv(h) /\ RowInv(h, waived)
    BY DEF Init, StageInv, RowInv, Decided, Granting, NoPacket
  <1>3. ClientInv(waived)
    BY DEF Init, ClientInv, Holds, Unbound
  <1>4. TableInv(waived)
    BY DEF Init, TableInv, Seeded, NoRow
  <1>5. CacheInv(waived)
    BY StaticAssumption DEF Init, CacheInv, Configured, StaticAddr
  <1>6. QED
    BY <1>1, <1>2, <1>3, <1>4, <1>5 DEF Init, IInv, LeaseInv

(***************************************************************************)
(* Ways to go on, summed up.                                               *)
(***************************************************************************)
LEMMA DoneFrame ==
    ASSUME NEW h \in Handler, TypeOK, Done(h),
           client' \in [Mac -> Client], await' \in [Handler -> BOOLEAN]
    PROVE  /\ LocalTypes'
           /\ pc'[h] = "idle" /\ stale'[h] = FALSE
           /\ \A g \in Handler \ {h} :
                 /\ pc'[g] = pc[g] /\ pkt'[g] = pkt[g] /\ ip'[g] = ip[g]
                 /\ lease'[g] = lease[g] /\ stale'[g] = stale[g]
  <1>1. <<>> \in Seq(Addr)
    BY EmptySeq
  <1>2. QED
    BY <1>1 DEF TypeOK, LocalTypes, Done, Goto, PC

LEMMA AnswerFrame ==
    ASSUME NEW h \in Handler, TypeOK, pkt[h] \in Packet, NEW c \in Client, Answer(h, c)
    PROVE  /\ client' \in [Mac -> Client] /\ await' \in [Handler -> BOOLEAN]
           /\ ~await'[h]
           /\ \A g \in Handler : await'[g] => await[g]
           /\ \A m \in Mac : \/ client'[m] = client[m]
                             \/ m = pkt[h].mac /\ client'[m] = c /\ await[h]
  BY DEF TypeOK, Answer, Settled, Packet

LEMMA NoReplyFrame ==
    ASSUME NEW h \in Handler, TypeOK, NoReply(h)
    PROVE  /\ client' \in [Mac -> Client] /\ await' \in [Handler -> BOOLEAN]
           /\ ~await'[h] /\ client' = client
           /\ \A g \in Handler : await'[g] => await[g]
  BY DEF TypeOK, NoReply

LEMMA RefuseFrame ==
    ASSUME NEW h \in Handler, TypeOK, pkt[h] \in Packet, Refuse(h)
    PROVE  LocalTypes' /\ Frame(h) /\ Quit(h)
  <1>1. Unbound \in Client
    BY DEF Unbound, Client
  <1>2. /\ client' \in [Mac -> Client] /\ await' \in [Handler -> BOOLEAN]
        /\ ~await'[h]
        /\ \A g \in Handler : await'[g] => await[g]
        /\ \A m \in Mac : client'[m] = client[m] \/ client'[m].st # "bound"
    <2>1. CASE pkt[h].type = "REQUEST"
      BY <1>1, <2>1, AnswerFrame DEF Refuse, Unbound
    <2>2. CASE pkt[h].type # "REQUEST"
      BY <2>2, NoReplyFrame DEF Refuse
    <2>3. QED
      BY <2>1, <2>2
  <1>3. QED
    BY <1>2, DoneFrame DEF Refuse, Frame, Quit

LEMMA AllocatedFrame ==
    ASSUME NEW h \in Handler, TypeOK, pkt[h] \in Packet, NEW a \in Addr, Allocated(h, a)
    PROVE  /\ LocalTypes' /\ Frame(h)
           /\ \/ Quit(h)
              \/ /\ Moved(h, "subnet") /\ ip'[h] = a /\ stale'[h] = stale[h]
                 /\ pkt[h].type = "REQUEST" => a = pkt[h].req
  <1>1. CASE pkt[h].type = "REQUEST" /\ a # pkt[h].req
    BY <1>1, RefuseFrame DEF Allocated
  <1>2. CASE ~(pkt[h].type = "REQUEST" /\ a # pkt[h].req)
    <2>1. <<>> \in Seq(Addr)
      BY EmptySeq
    <2>2. QED
      BY <1>2, <2>1, ZenonT(30) DEF TypeOK, Allocated, Goto, LocalTypes, Frame, Moved, PC
  <1>3. QED
    BY <1>1, <1>2

LEMMA ScanFrame ==
    ASSUME NEW h \in Handler, TypeOK, pkt[h] \in Packet, NEW q \in Seq(Addr), Scan(h, q)
    PROVE  /\ LocalTypes' /\ Frame(h)
           /\ \/ Quit(h)
              \/ Moved(h, "deny") /\ ip'[h] \in Addr
  <1>1. CASE q = <<>>
    BY <1>1, RefuseFrame DEF Scan
  <1>2. CASE q # <<>>
    <2>1. Head(q) \in Addr /\ Tail(q) \in Seq(Addr)
      BY <1>2, HeadTailProperties
    <2>2. PICK a \in Addr, rest \in Seq(Addr) :
            ip' = [ip EXCEPT ![h] = a] /\ todo' = [todo EXCEPT ![h] = rest]
      BY <1>2, <2>1, Zenon DEF Scan
    <2>3. /\ pc' = [pc EXCEPT ![h] = "deny"]
          /\ scanning' = [scanning EXCEPT ![h] = TRUE]
          /\ stale' = [stale EXCEPT ![h] = FALSE]
          /\ UNCHANGED <<pkt, lease, client, await>>
      BY <1>2, Zenon DEF Scan, Goto
    <2>4. QED
      BY <2>2, <2>3 DEF TypeOK, LocalTypes, Frame, Moved, PC
  <1>3. QED
    BY <1>1, <1>2

LEMMA NextCandidateFrame ==
    ASSUME NEW h \in Handler, TypeOK, pkt[h] \in Packet, NextCandidate(h)
    PROVE  /\ LocalTypes' /\ Frame(h)
           /\ \/ Quit(h)
              \/ Moved(h, "deny") /\ ip'[h] \in Addr
              \/ Moved(h, "pool")
  <1>1. CASE scanning[h]
    <2>1. todo[h] \in Seq(Addr)
      BY DEF TypeOK
    <2>2. QED
      BY <1>1, <2>1, ScanFrame DEF NextCandidate
  <1>2. CASE ~scanning[h]
    BY <1>2 DEF TypeOK, NextCandidate, Goto, LocalTypes, Frame, Moved, PC
  <1>3. QED
    BY <1>1, <1>2

(***************************************************************************)
(* Steps that change no lease.  From here on any addresses may be waived,  *)
(* as long as those a race was lost on are.                                *)
(***************************************************************************)
LEMMA QuietStep ==
    ASSUME NEW h \in Handler, NEW waived, LeaseInv(waived), LocalTypes', Frame(h),
           UNCHANGED <<leases, cache, now, raced>>, deny' \in SUBSET Addr,
           StageInv(h)', RowInv(h, waived)'
    PROVE  LeaseInv(waived)'
  <1>1. TypeOK'
    BY DEF LeaseInv, TypeOK, LocalTypes
  <1>2. ASSUME NEW g \in Handler
        PROVE  StageInv(g)' /\ RowInv(g, waived)'
    <2>1. CASE g = h
      BY <2>1
    <2>2. CASE g # h
      <3>1. StageInv(g) /\ RowInv(g, waived)
        BY DEF LeaseInv
      <3>2. StageInv(g)'
        BY <2>2, <3>1 DEF Frame, StageInv, HasRow
      <3>3. RowInv(g, waived)'
        BY <2>2, <3>1 DEF Frame, RowInv
      <3>4. QED
        BY <3>2, <3>3
    <2>3. QED
      BY <2>1, <2>2
  <1>3. ClientInv(waived)'
    BY DEF LeaseInv, ClientInv, Holds, Frame
  <1>4. TableInv(waived)' /\ CacheInv(waived)'
    BY DEF LeaseInv, TableInv, CacheInv
  <1>5. QED
    BY <1>1, <1>2, <1>3, <1>4 DEF LeaseInv

LEMMA QuitInv ==
    ASSUME NEW h \in Handler, NEW waived, Quit(h)
    PROVE  StageInv(h)' /\ RowInv(h, waived)'
  BY DEF Quit, StageInv, RowInv, Decided, Granting

\* A handler that leaves the static check, or tries the next address, relies on
\* no row yet.
LEMMA UndecidedInv ==
    ASSUME NEW h \in Handler, NEW waived, LeaseInv(waived), pc[h] # "idle", pkt[h].type \notin {"RELEASE", "BOOTP"},
           NEW label \in {"bymac", "pool", "deny", "row", "mark"}, Moved(h, label),
           label \in {"deny", "row", "mark"} => ip'[h] \in Addr
    PROVE  StageInv(h)' /\ RowInv(h, waived)'
  <1>1. StageInv(h)
    BY DEF LeaseInv
  <1>2. QED
    BY <1>1 DEF StageInv, RowInv, Moved, Decided, Granting

LEMMA CheckStaticInv ==
    ASSUME NEW h \in Handler, NEW waived, LeaseInv(waived), CheckStatic(h)
    PROVE  LeaseInv(waived)'
  <1> DEFINE m == pkt[h].mac
             a == cache.static[m]
  <1>1. /\ pc[h] = "static" /\ StageInv(h) /\ TypeOK /\ CacheInv(waived)
        /\ pkt[h] \in Packet /\ m \in Mac
    BY DEF CheckStatic, LeaseInv, StageInv, Packet
  <1>2. UNCHANGED <<leases, deny, cache, now, raced>>
    BY DEF CheckStatic, db
  <1>3. CASE a # NoAddr /\ Allocated(h, a)
    <2>1. a \in Addr /\ a \in waived
      BY <1>1, <1>3 DEF TypeOK, Cache, CacheInv
    <2>2. LocalTypes' /\ Frame(h)
      BY <1>1, <1>3, <2>1, AllocatedFrame
    <2>3. CASE Quit(h)
      BY <1>1, <1>2, <2>2, <2>3, QuitInv, QuietStep DEF TypeOK
    <2>4. CASE /\ Moved(h, "subnet") /\ ip'[h] = a
               /\ pkt[h].type = "REQUEST" => a = pkt[h].req
      <3>1. StageInv(h)'
        BY <1>1, <2>1, <2>4 DEF StageInv, Moved, Decided
      <3>2. RowInv(h, waived)'
        BY <2>1, <2>4 DEF RowInv
      <3>3. QED
        BY <1>1, <1>2, <2>2, <3>1, <3>2, QuietStep DEF TypeOK
    <2>5. QED
      BY <1>1, <1>3, <2>1, <2>3, <2>4, AllocatedFrame
  <1>4. CASE /\ a = NoAddr /\ pkt[h].type # "BOOTP"
             /\ Goto(h, "bymac")
             /\ UNCHANGED <<locals, client, await, stale>>
    <2>1. LocalTypes' /\ Frame(h) /\ Moved(h, "bymac")
      BY <1>1, <1>4 DEF TypeOK, LocalTypes, Frame, Moved, Goto, locals, PC
    <2>2. pkt[h].type \notin {"RELEASE", "BOOTP"}
      BY <1>1, <1>4 DEF StageInv
    <2>3. StageInv(h)' /\ RowInv(h, waived)'
      BY <1>1, <2>1, <2>2, UndecidedInv
    <2>4. QED
      BY <1>1, <1>2, <2>1, <2>3, QuietStep DEF TypeOK
  <1>5. CASE Refuse(h)
    BY <1>1, <1>2, <1>5, RefuseFrame, QuitInv, QuietStep DEF TypeOK
  <1>6. QED
    BY <1>3, <1>4, <1>5 DEF CheckStatic

LEMMA StageFacts ==
    ASSUME NEW h \in Handler, NEW waived, LeaseInv(waived), pc[h] # "idle"
    PROVE  /\ TypeOK /\ StageInv(h) /\ RowInv(h, waived) /\ CacheInv(waived)
           /\ pkt[h] \in Packet /\ pkt[h].mac \in Mac
           /\ deny \in SUBSET Addr
  BY DEF LeaseInv, StageInv, TypeOK, Packet

\* Where the lease found is the client's own, h relies on that.
LEMMA LookupByMACInv ==
    ASSUME NEW h \in Handler, NEW waived, LeaseInv(waived), LookupByMAC(h)
    PROVE  LeaseInv(waived)'
  <1> DEFINE m == pkt[h].mac
  <1>1. /\ pc[h] = "bymac" /\ pkt[h].type \notin {"RELEASE", "BOOTP"}
        /\ UNCHANGED <<leases, deny, cache, now, raced>>
    BY StageFacts DEF LookupByMAC, StageInv, db
  <1>2. CASE \E a \in GetLeaseByMAC(leases, m) : Allocated(h, a)
    <2>1. PICK a \in Addr : Allocated(h, a) /\ leases[a].mac = m
      BY <1>2 DEF GetLeaseByMAC, ActiveFor
    <2>2. /\ LocalTypes' /\ Frame(h)
          /\ \/ Quit(h)
             \/ /\ Moved(h, "subnet") /\ ip'[h] = a /\ stale'[h] = stale[h]
                /\ pkt[h].type = "REQUEST" => a = pkt[h].req
      BY <1>1, <2>1, StageFacts, AllocatedFrame
    <2>3. StageInv(h)' /\ RowInv(h, waived)'
      <3>1. CASE Quit(h)
        BY <3>1, QuitInv
      <3>2. CASE Moved(h, "subnet")
        BY <1>1, <2>1, <2>2, <3>2, StageFacts DEF StageInv, RowInv, Moved, Decided, Quit
      <3>3. QED
        BY <2>2, <3>1, <3>2
    <2>4. QED
      BY <1>1, <2>2, <2>3, StageFacts, QuietStep
  <1>3. CASE /\ Goto(h, IF pkt[h].req = NoAddr THEN "pool" ELSE "deny")
             /\ ip' = [ip EXCEPT ![h] = pkt[h].req]
             /\ UNCHANGED <<pkt, todo, scanning, lease, client, await, stale>>
    <2> DEFINE label == IF pkt[h].req = NoAddr THEN "pool" ELSE "deny"
    <2>1. LocalTypes' /\ Frame(h) /\ Moved(h, label)
      BY <1>1, <1>3, StageFacts DEF TypeOK, LocalTypes, Frame, Moved, Goto, PC, Packet
    <2>2. label = "deny" => ip'[h] \in Addr
      BY <1>1, <1>3, StageFacts DEF TypeOK, Packet
    <2>3. StageInv(h)' /\ RowInv(h, waived)'
      BY <1>1, <2>1, <2>2, UndecidedInv
    <2>4. QED
      BY <1>1, <2>1, <2>3, StageFacts, QuietStep
  <1>4. CASE Refuse(h)
    BY <1>1, <1>4, StageFacts, RefuseFrame, QuitInv, QuietStep
  <1>5. \/ \E a \in GetLeaseByMAC(leases, m) : Allocated(h, a)
        \/ /\ Goto(h, IF pkt[h].req = NoAddr THEN "pool" ELSE "deny")
           /\ ip' = [ip EXCEPT ![h] = pkt[h].req]
           /\ UNCHANGED <<pkt, todo, scanning, lease, client, await, stale>>
        \/ Refuse(h)
    BY Zenon DEF LookupByMAC
  <1>6. QED
    BY <1>2, <1>3, <1>4, <1>5

LEMMA ReadPoolInv ==
    ASSUME NEW h \in Handler, NEW waived, LeaseInv(waived), ReadPool(h)
    PROVE  LeaseInv(waived)'
  <1>1. /\ pc[h] = "pool" /\ pkt[h].type \notin {"RELEASE", "BOOTP"}
        /\ UNCHANGED <<leases, deny, cache, now, raced>>
    BY StageFacts DEF ReadPool, StageInv, db
  <1>2. cache.pool \in Seq(Addr)
    BY <1>1, StageFacts DEF TypeOK, Cache
  <1>3. /\ LocalTypes' /\ Frame(h)
        /\ Quit(h) \/ (Moved(h, "deny") /\ ip'[h] \in Addr)
    BY <1>1, <1>2, StageFacts, ScanFrame DEF ReadPool
  <1>4. StageInv(h)' /\ RowInv(h, waived)'
    BY <1>1, <1>3, QuitInv, UndecidedInv
  <1>5. QED
    BY <1>1, <1>3, <1>4, StageFacts, QuietStep

\* A step to the next candidate, whatever else it does to the deny list.
LEMMA NextCandidateInv ==
    ASSUME NEW h \in Handler, NEW waived, LeaseInv(waived), pc[h] \in {"deny", "row", "mark"}, NextCandidate(h),
           UNCHANGED <<leases, cache, now, raced>>, deny' \in SUBSET Addr
    PROVE  LeaseInv(waived)'
  <1>1. pkt[h].type \notin {"RELEASE", "BOOTP"}
    BY StageFacts DEF StageInv
  <1>2. /\ LocalTypes' /\ Frame(h)
        /\ \/ Quit(h)
           \/ Moved(h, "deny") /\ ip'[h] \in Addr
           \/ Moved(h, "pool")
    BY StageFacts, NextCandidateFrame
  <1>3. StageInv(h)' /\ RowInv(h, waived)'
    BY <1>1, <1>2, QuitInv, UndecidedInv
  <1>4. QED
    BY <1>2, <1>3, QuietStep

LEMMA CheckDenyInv ==
    ASSUME NEW h \in Handler, NEW waived, LeaseInv(waived), CheckDeny(h)
    PROVE  LeaseInv(waived)'
  <1>1. /\ pc[h] = "deny" /\ pkt[h].type \notin {"RELEASE", "BOOTP"} /\ ip[h] \in Addr
        /\ UNCHANGED <<leases, deny, cache, now, raced>>
    BY StageFacts DEF CheckDeny, StageInv, db
  <1>2. CASE Goto(h, "row") /\ UNCHANGED <<locals, client, await, stale>>
    <2>1. LocalTypes' /\ Frame(h) /\ Moved(h, "row") /\ ip'[h] \in Addr
      BY <1>1, <1>2, StageFacts DEF TypeOK, LocalTypes, Frame, Moved, Goto, locals, PC
    <2>2. StageInv(h)' /\ RowInv(h, waived)'
      BY <1>1, <2>1, UndecidedInv
    <2>3. QED
      BY <1>1, <2>1, <2>2, StageFacts, QuietStep
  <1>3. CASE NextCandidate(h)
    BY <1>1, <1>3, StageFacts, NextCandidateInv
  <1>4. QED
    BY <1>2, <1>3 DEF CheckDeny

\* This is where a handler decides: isIPAvailable saw no other client's lease.
LEMMA CheckRowInv ==
    ASSUME NEW h \in Handler, NEW waived, LeaseInv(waived), CheckRow(h)
    PROVE  LeaseInv(waived)'
  <1>1. /\ pc[h] = "row" /\ pkt[h].type \notin {"RELEASE", "BOOTP"} /\ ip[h] \in Addr
        /\ UNCHANGED <<leases, deny, cache, now, raced>>
    BY StageFacts DEF CheckRow, StageInv, db
  <1>2. CASE /\ RowFree(leases[ip[h]], pkt[h].mac, now)
             /\ Goto(h, "ping") /\ UNCHANGED <<locals, client, await, stale>>
    <2>1. /\ LocalTypes' /\ Frame(h) /\ Moved(h, "ping") /\ UNCHANGED locals
      BY <1>1, <1>2, StageFacts DEF TypeOK, LocalTypes, Frame, Moved, Goto, locals, PC
    <2>2. StageInv(h)'
      BY <1>1, <2>1, StageFacts DEF StageInv, Moved, locals, Decided
    <2>3. RowInv(h, waived)'
      BY <1>1, <1>2, <2>1 DEF RowInv, RowFree, NoRow, Moved, locals
    <2>4. QED
      BY <1>1, <2>1, <2>2, <2>3, StageFacts, QuietStep
  <1>3. CASE NextCandidate(h)
    BY <1>1, <1>3, StageFacts, NextCandidateInv
  <1>4. QED
    BY <1>2, <1>3 DEF CheckRow, GetLeaseByIP

LEMMA PingSilentInv ==
    ASSUME NEW h \in Handler, NEW waived, LeaseInv(waived), PingSilent(h)
    PROVE  LeaseInv(waived)'
  <1>1. /\ pc[h] = "ping" /\ pkt[h].type \notin {"RELEASE", "BOOTP"} /\ ip[h] \in Addr
        /\ UNCHANGED <<leases, deny, cache, now, raced>> /\ Allocated(h, ip[h])
    BY StageFacts DEF PingSilent, StageInv, Decided, db
  <1>2. /\ LocalTypes' /\ Frame(h)
        /\ \/ Quit(h)
           \/ /\ Moved(h, "subnet") /\ ip'[h] = ip[h] /\ stale'[h] = stale[h]
              /\ pkt[h].type = "REQUEST" => ip[h] = pkt[h].req
    BY <1>1, StageFacts, AllocatedFrame
  <1>3. CASE Quit(h)
    BY <1>1, <1>2, <1>3, StageFacts, QuitInv, QuietStep
  <1>4. CASE /\ Moved(h, "subnet") /\ ip'[h] = ip[h] /\ stale'[h] = stale[h]
             /\ pkt[h].type = "REQUEST" => ip[h] = pkt[h].req
    <2>1. StageInv(h)'
      BY <1>1, <1>4, StageFacts DEF StageInv, Moved, Decided
    <2>2. RowInv(h, waived)'
      BY <1>1, <1>4, StageFacts DEF RowInv, Moved, Granting, Decided
    <2>3. QED
      BY <1>1, <1>2, <2>1, <2>2, StageFacts, QuietStep
  <1>5. QED
    BY <1>2, <1>3, <1>4

LEMMA PingAnsweredInv ==
    ASSUME NEW h \in Handler, NEW waived, LeaseInv(waived), PingAnswered(h)
    PROVE  LeaseInv(waived)'
  <1>1. /\ pc[h] = "ping" /\ pkt[h].type \notin {"RELEASE", "BOOTP"} /\ ip[h] \in Addr
        /\ UNCHANGED <<leases, deny, cache, now, raced>>
    BY StageFacts DEF PingAnswered, StageInv, Decided, db
  <1>2. LocalTypes' /\ Frame(h) /\ Moved(h, "mark") /\ ip'[h] \in Addr
    BY <1>1, StageFacts DEF PingAnswered, TypeOK, LocalTypes, Frame, Moved, Goto, locals, PC
  <1>3. StageInv(h)' /\ RowInv(h, waived)'
    BY <1>1, <1>2, UndecidedInv
  <1>4. QED
    BY <1>1, <1>2, <1>3, StageFacts, QuietStep

LEMMA MarkMartianInv ==
    ASSUME NEW h \in Handler, NEW waived, LeaseInv(waived), MarkMartian(h)
    PROVE  LeaseInv(waived)'
  <1>1. pc[h] = "mark" /\ ip[h] \in Addr
    BY StageFacts DEF MarkMartian, StageInv
  <1>2. deny' \in SUBSET Addr
    BY <1>1, StageFacts DEF MarkMartian, AddDenyAddress
  <1>3. QED
    BY <1>1, <1>2, NextCandidateInv DEF MarkMartian

(***************************************************************************)
(* Steps after AllocateIP.                                                 *)
(***************************************************************************)
\* CreateLease fills in the lease it is going to write: it ends no earlier than
\* the one in the table.
LEMMA StampInv ==
    ASSUME NEW h \in Handler, NEW waived, LeaseInv(waived), pc[h] \in {"subnet", "kind"}, NEW s \in BOOLEAN,
           Goto(h, "lookup"), lease' = [lease EXCEPT ![h] = NewLease(pkt[h].mac, s)],
           UNCHANGED <<pkt, ip, todo, scanning, client, await, stale>>,
           UNCHANGED <<leases, deny, cache, now, raced>>
    PROVE  LeaseInv(waived)'
  <1> DEFINE m == pkt[h].mac
             row == NewLease(m, s)
  <1>1. /\ pkt[h].type # "RELEASE" /\ ip[h] \in Addr /\ m \in Mac
        /\ TypeOK /\ StageInv(h) /\ RowInv(h, waived) /\ pkt[h] \in Packet /\ deny \in SUBSET Addr
    BY StageFacts DEF StageInv, Decided
  <1>2. row \in Row /\ row.mac = m /\ row.state = "active" /\ row.end = now + LeaseTime
    BY <1>1, TimeAssumption DEF NewLease, Row, TypeOK
  <1>3. LocalTypes' /\ Frame(h)
    <2>1. lease' \in [Handler -> Row \cup {NoRow}]
      BY <1>1, <1>2 DEF TypeOK
    <2>2. QED
      BY <1>1, <2>1 DEF TypeOK, LocalTypes, Frame, Goto, PC
  <1>4. /\ pc'[h] = "lookup" /\ lease'[h] = row
        /\ pkt'[h] = pkt[h] /\ ip'[h] = ip[h] /\ stale'[h] = stale[h]
    BY <1>1 DEF TypeOK, Goto
  <1> HIDE DEF row
  <1>5. StageInv(h)'
    BY <1>1, <1>2, <1>4, TimeAssumption DEF StageInv, Decided, TypeOK
  <1>6. RowInv(h, waived)'
    <2>1. ip[h] \notin waived /\ leases[ip[h]].state = "active"
            => leases[ip[h]].end <= now + LeaseTime
      BY <1>1 DEF LeaseInv, TableInv
    <2>2. QED
      BY <1>1, <1>2, <1>4, <2>1 DEF RowInv, Decided, Granting
  <1>7. QED
    BY <1>1, <1>3, <1>5, <1>6, QuietStep

LEMMA FindSubnetInv ==
    ASSUME NEW h \in Handler, NEW waived, LeaseInv(waived), FindSubnet(h)
    PROVE  LeaseInv(waived)'
  <1> DEFINE m == pkt[h].mac
  <1>1. /\ pc[h] = "subnet" /\ pkt[h].type # "RELEASE" /\ ip[h] \in Addr /\ m \in Mac
        /\ TypeOK /\ StageInv(h) /\ RowInv(h, waived) /\ pkt[h] \in Packet /\ deny \in SUBSET Addr
        /\ UNCHANGED <<leases, deny, cache, now, raced>>
    BY StageFacts DEF FindSubnet, StageInv, Decided, db
  <1>2. CASE Refuse(h)
    BY <1>1, <1>2, RefuseFrame, QuitInv, QuietStep
  <1>3. CASE Answer(h, [st |-> "offered", ip |-> ip[h], end |-> 0]) /\ Done(h)
    <2> DEFINE c == [st |-> "offered", ip |-> ip[h], end |-> 0]
    <2>1. c \in Client /\ c.st # "bound"
      BY <1>1 DEF Client
    <2>2. /\ client' \in [Mac -> Client] /\ await' \in [Handler -> BOOLEAN]
          /\ ~await'[h]
          /\ \A g \in Handler : await'[g] => await[g]
          /\ \A n \in Mac : client'[n] = client[n] \/ client'[n].st # "bound"
      BY <1>1, <1>3, <2>1, AnswerFrame
    <2>3. LocalTypes' /\ Frame(h) /\ Quit(h)
      BY <1>1, <1>3, <2>2, DoneFrame DEF Frame, Quit
    <2>4. QED
      BY <1>1, <2>3, QuitInv, QuietStep
  <1>4. CASE /\ pkt[h].type = "REQUEST"
             /\ Goto(h, "kind") /\ UNCHANGED <<locals, client, await, stale>>
    <2>1. LocalTypes' /\ Frame(h) /\ Moved(h, "kind") /\ UNCHANGED <<ip, stale>>
      BY <1>1, <1>4 DEF TypeOK, LocalTypes, Frame, Moved, Goto, locals, PC
    <2>2. StageInv(h)' /\ RowInv(h, waived)'
      BY <1>1, <1>4, <2>1 DEF StageInv, RowInv, Moved, Decided, Granting
    <2>3. QED
      BY <1>1, <2>1, <2>2, QuietStep
  <1>5. CASE /\ pkt[h].type = "BOOTP"
             /\ Goto(h, "lookup")
             /\ lease' = [lease EXCEPT ![h] = NewLease(m, TRUE)]
             /\ UNCHANGED <<pkt, ip, todo, scanning, client, await, stale>>
    BY <1>1, <1>5, StampInv
  <1>6. QED
    BY <1>2, <1>3, <1>4, <1>5 DEF FindSubnet

LEMMA CheckKindInv ==
    ASSUME NEW h \in Handler, NEW waived, LeaseInv(waived), CheckKind(h)
    PROVE  LeaseInv(waived)'
  <1>1. (cache.static[pkt[h].mac] # NoAddr) \in BOOLEAN
    OBVIOUS
  <1>2. QED
    BY <1>1, StampInv DEF CheckKind, db

LEMMA LookupRowInv ==
    ASSUME NEW h \in Handler, NEW waived, LeaseInv(waived), LookupRow(h)
    PROVE  LeaseInv(waived)'
  <1>1. /\ pc[h] = "lookup"
        /\ TypeOK /\ StageInv(h) /\ RowInv(h, waived) /\ pkt[h] \in Packet /\ deny \in SUBSET Addr
        /\ UNCHANGED <<leases, deny, cache, now, raced>>
    BY StageFacts DEF LookupRow, db
  <1>2. CASE Refuse(h)
    BY <1>1, <1>2, RefuseFrame, QuitInv, QuietStep
  <1>3. CASE /\ Goto(h, IF HasRow(leases, ip[h]) THEN "update" ELSE "add")
             /\ UNCHANGED <<locals, client, await, stale>>
    <2>1. PICK label \in {"update", "add"} :
            Goto(h, label) /\ (label = "update" => HasRow(leases, ip[h]))
      BY <1>3
    <2>2. LocalTypes' /\ Frame(h) /\ Moved(h, label) /\ UNCHANGED <<ip, stale>>
      BY <1>1, <1>3, <2>1 DEF TypeOK, LocalTypes, Frame, Moved, Goto, locals, PC
    <2>3. StageInv(h)' /\ RowInv(h, waived)'
      BY <1>1, <2>1, <2>2 DEF StageInv, RowInv, Moved, Decided, Granting, HasRow
    <2>4. QED
      BY <1>1, <2>2, <2>3, QuietStep
  <1>4. QED
    BY <1>2, <1>3 DEF LookupRow

\* The row a release found is its client's.
LEMMA ReadForReleaseInv ==
    ASSUME NEW h \in Handler, NEW waived, LeaseInv(waived), ReadForRelease(h)
    PROVE  LeaseInv(waived)'
  <1> DEFINE m == pkt[h].mac
  <1>1. /\ pc[h] = "relread" /\ m \in Mac
        /\ TypeOK /\ StageInv(h) /\ RowInv(h, waived) /\ pkt[h] \in Packet /\ deny \in SUBSET Addr
        /\ UNCHANGED <<leases, deny, cache, now, raced>>
    BY StageFacts DEF ReadForRelease, db
  <1>2. CASE Refuse(h)
    BY <1>1, <1>2, RefuseFrame, QuitInv, QuietStep
  <1>3. ASSUME NEW a \in GetLeaseByMAC(leases, m),
               /\ Goto(h, "relwrite")
               /\ ip' = [ip EXCEPT ![h] = a]
               /\ lease' = [lease EXCEPT ![h] =
                                [leases[a] EXCEPT !.state = "expired", !.end = now]]
               /\ UNCHANGED <<pkt, todo, scanning, client, await, stale>>
        PROVE  LeaseInv(waived)'
    <2> DEFINE row == [leases[a] EXCEPT !.state = "expired", !.end = now]
    <2>1. /\ a \in Addr /\ leases[a].mac = m /\ leases[a].state = "active"
          /\ leases[a] \in Row /\ HasRow(leases, a)
      BY <1>1, <1>3 DEF GetLeaseByMAC, ActiveFor, TypeOK, Table, NoRow, HasRow
    <2>2. row \in Row /\ row.mac = m /\ row.state = "expired"
      BY <1>1, <2>1 DEF Row, TypeOK
    <2> HIDE DEF row
    <2>3. lease' \in [Handler -> Row \cup {NoRow}] /\ lease'[h] = row
      BY <1>1, <1>3, <2>2 DEF TypeOK, row
    <2>4. LocalTypes' /\ Frame(h)
      BY <1>1, <1>3, <2>1, <2>3 DEF TypeOK, LocalTypes, Frame, Goto, PC
    <2>5. pc'[h] = "relwrite" /\ ip'[h] = a /\ pkt'[h] = pkt[h] /\ await'[h] = await[h]
      BY <1>1, <1>3 DEF TypeOK, Goto
    <2>6. StageInv(h)' /\ RowInv(h, waived)'
      BY <1>1, <2>1, <2>2, <2>3, <2>5 DEF StageInv, RowInv, Decided, Granting, HasRow
    <2>7. QED
      BY <1>1, <2>4, <2>6, QuietStep
  <1>4. QED
    BY <1>2, <1>3, Zenon DEF ReadForRelease

\* The client of a DHCPACK gets what was stored for it, unless a race undid it.
LEMMA SendReplyInv ==
    ASSUME NEW h \in Handler, NEW waived, LeaseInv(waived), SendReply(h)
    PROVE  LeaseInv(waived)'
  <1> DEFINE m == pkt[h].mac
             c == [st |-> "bound", ip |-> ip[h], end |-> lease[h].end]
  <1>1. /\ pc[h] = "reply" /\ ip[h] \in Addr /\ lease[h] \in Row /\ m \in Mac
        /\ TypeOK /\ StageInv(h) /\ RowInv(h, waived) /\ pkt[h] \in Packet /\ deny \in SUBSET Addr
        /\ UNCHANGED <<leases, deny, cache, now, raced>> /\ Done(h)
    BY StageFacts DEF SendReply, StageInv, db
  <1>2. CASE pkt[h].type # "REQUEST"
    <2>1. LocalTypes' /\ Frame(h) /\ Quit(h)
      BY <1>1, <1>2, NoReplyFrame, DoneFrame DEF SendReply, Frame, Quit
    <2>2. QED
      BY <1>1, <2>1, QuitInv, QuietStep
  <1>3. CASE pkt[h].type = "REQUEST"
    <2>1. c \in Client
      BY <1>1 DEF Client, Row
    <2>2. /\ client' \in [Mac -> Client] /\ await' \in [Handler -> BOOLEAN]
          /\ ~await'[h]
          /\ \A g \in Handler : await'[g] => await[g]
          /\ \A n \in Mac : \/ client'[n] = client[n]
                            \/ n = m /\ client'[n] = c /\ await[h]
      BY <1>1, <1>3, <2>1, AnswerFrame DEF SendReply
    <2>3. /\ LocalTypes'
          /\ pc'[h] = "idle"
          /\ \A g \in Handler \ {h} :
                /\ pc'[g] = pc[g] /\ pkt'[g] = pkt[g] /\ ip'[g] = ip[g]
                /\ lease'[g] = lease[g] /\ stale'[g] = stale[g]
      BY <1>1, <2>2, DoneFrame
    <2>4. TypeOK' /\ TableInv(waived)' /\ CacheInv(waived)'
      BY <1>1, <2>3 DEF LeaseInv, TypeOK, LocalTypes, TableInv, CacheInv
    <2>5. ASSUME NEW g \in Handler
          PROVE  StageInv(g)' /\ RowInv(g, waived)'
      <3>1. CASE g = h
        BY <2>2, <2>3, <3>1, QuitInv DEF Quit
      <3>2. CASE g # h
        <4>1. StageInv(g) /\ RowInv(g, waived)
          BY DEF LeaseInv
        <4>2. StageInv(g)'
          BY <1>1, <2>2, <2>3, <3>2, <4>1 DEF StageInv, HasRow
        <4>3. RowInv(g, waived)'
          BY <1>1, <2>2, <2>3, <3>2, <4>1 DEF RowInv
        <4>4. QED
          BY <4>2, <4>3
      <3>3. QED
        BY <3>1, <3>2
    <2>6. ASSUME NEW n \in Mac, NEW a \in Addr \ waived, Holds(n, a)'
          PROVE  /\ leases[a].state = "active" /\ leases[a].mac = n
                 /\ leases[a].end >= client'[n].end
      <3>1. CASE client'[n] = client[n]
        BY <1>1, <2>6, <3>1 DEF LeaseInv, ClientInv, Holds
      <3>2. CASE n = m /\ client'[n] = c /\ await[h]
        BY <1>1, <1>3, <2>6, <3>2 DEF RowInv, Holds
      <3>3. QED
        BY <2>2, <3>1, <3>2
    <2>7. ClientInv(waived)'
      BY <1>1, <2>6 DEF ClientInv
    <2>8. QED
      BY <2>4, <2>5, <2>7 DEF LeaseInv
  <1>4. QED
    BY <1>2, <1>3

(***************************************************************************)
(* Steps that write a lease.                                               *)
(***************************************************************************)
\* A lease stored: whoever relied on the row is stale from now on, and if the
\* row was not h's to take, h was stale itself.
LEMMA StoredInv ==
    ASSUME NEW h \in Handler, NEW waived, LeaseInv(waived), pc[h] \in {"add", "update"}, Stored(h),
           NEW s \in BOOLEAN, raced' \subseteq waived,
           leases' = [leases EXCEPT ![ip[h]] = [lease[h] EXCEPT !.static = s]]
    PROVE  LeaseInv(waived)'
  <1> DEFINE m == pkt[h].mac
             x == ip[h]
             row == [lease[h] EXCEPT !.static = s]
  <1>1. /\ x \in Addr /\ m \in Mac /\ pkt[h] \in Packet
        /\ TypeOK /\ StageInv(h) /\ RowInv(h, waived) /\ lease[h] \in Row
        /\ UNCHANGED <<deny, cache, now, pkt, ip, todo, scanning, lease, client, await>>
        /\ pc' = [pc EXCEPT ![h] = "reply"]
    BY StageFacts DEF StageInv, Decided, Stored, locals, Goto
  <1>2. /\ row \in Row /\ row.mac = m /\ row.state = "active"
        /\ row.end = lease[h].end /\ row.end <= now + LeaseTime
    BY <1>1 DEF StageInv, Row
  <1>3. leases'[x] = row /\ \A a \in Addr \ {x} : leases'[a] = leases[a]
    BY <1>1 DEF TypeOK, Table
  <1>4. leases' \in Table
    BY <1>1, <1>2 DEF TypeOK, Table
  <1>5. raced' \in SUBSET Addr /\ (x \notin waived => ~stale[h])
    BY <1>1 DEF Stored, TypeOK
  <1>6. /\ stale' \in [Handler -> BOOLEAN]
        /\ \A g \in Handler \ {h} :
              stale'[g] <=> stale[g] \/ (ip[g] = x /\ pc[g] \in Decided)
    BY <1>1 DEF Stored, TypeOK
  <1> HIDE DEF row
  <1>7. TypeOK' /\ CacheInv(waived)'
    BY <1>1, <1>4, <1>5, <1>6 DEF LeaseInv, TypeOK, PC, CacheInv
  \* Nobody else has a lease on x that could be lost here.
  <1>8. ASSUME x \notin waived
        PROVE  /\ leases[x].state = "active" /\ leases[x].mac # m => now > leases[x].end
               /\ leases[x].state = "active" /\ leases[x].mac = m => leases[x].end <= row.end
    BY <1>1, <1>2, <1>5, <1>8 DEF RowInv, Granting, Decided
  <1>9. ClientInv(waived)'
    <2> SUFFICES ASSUME NEW n \in Mac, NEW a \in Addr \ waived, Holds(n, a)
                 PROVE  /\ leases'[a].state = "active" /\ leases'[a].mac = n
                        /\ leases'[a].end >= client[n].end
      BY <1>1 DEF ClientInv, Holds
    <2>1. /\ leases[a].state = "active" /\ leases[a].mac = n
          /\ leases[a].end >= client[n].end
      BY <1>5 DEF LeaseInv, ClientInv
    <2>2. CASE a # x
      BY <1>3, <2>1, <2>2
    <2>3. CASE a = x
      <3>1. leases[x] \in Row /\ client[n].end \in Nat /\ now \in Nat
        BY <1>1, <2>1, <2>3 DEF TypeOK, Table, NoRow, Client
      <3>2. n = m
        BY <1>8, <2>1, <2>3, <3>1 DEF Holds, Row
      <3>3. QED
        BY <1>2, <1>3, <1>8, <2>1, <2>3, <3>1, <3>2 DEF Row
    <2>4. QED
      BY <2>2, <2>3
  <1>10. TableInv(waived)'
    BY <1>1, <1>2, <1>3 DEF LeaseInv, TableInv
  <1>11. StageInv(h)' /\ RowInv(h, waived)'
    <2>1. pc'[h] = "reply"
      BY <1>1 DEF TypeOK
    <2>2. StageInv(h)'
      BY <1>1, <2>1 DEF StageInv, Decided
    <2>3. RowInv(h, waived)'
      BY <1>1, <1>2, <1>3, <2>1 DEF RowInv, Decided, Granting, Row
    <2>4. QED
      BY <2>2, <2>3
  <1>12. ASSUME NEW g \in Handler \ {h}
         PROVE  StageInv(g)' /\ RowInv(g, waived)'
    <2>1. StageInv(g) /\ RowInv(g, waived)
      BY DEF LeaseInv
    <2>2. pc'[g] = pc[g]
      BY <1>1 DEF TypeOK
    <2>3. StageInv(g)'
      <3>1. \A a \in Addr : HasRow(leases, a) => HasRow(leases, a)'
        BY <1>2, <1>3 DEF HasRow, Row, NoRow
      <3>2. QED
        BY <1>1, <2>1, <2>2, <3>1 DEF StageInv, Decided
    <2>4. RowInv(g, waived)'
      <3>1. CASE ip[g] # x
        <4>1. leases'[ip[g]] = leases[ip[g]] \/ pc[g] \notin Decided \cup {"reply"}
          BY <1>3, <2>1, <3>1 DEF StageInv
        <4>2. QED
          BY <1>1, <1>5, <1>6, <2>1, <2>2, <3>1, <4>1 DEF RowInv, Granting, Decided
      <3>2. CASE ip[g] = x /\ pc[g] \in Decided
        BY <1>1, <1>6, <2>2, <3>2 DEF RowInv, Granting, Decided
      <3>3. CASE ip[g] = x /\ pc[g] \notin Decided
        <4> SUFFICES ASSUME x \notin waived, pc[g] = "reply",
                            pkt[g].type = "REQUEST", await[g], now < lease[g].end
                     PROVE  /\ leases'[x].state = "active" /\ leases'[x].mac = pkt[g].mac
                            /\ leases'[x].end >= lease[g].end
          BY <1>1, <2>2, <3>3 DEF RowInv, Granting, Decided
        <4>1. /\ leases[x].state = "active" /\ leases[x].mac = pkt[g].mac
              /\ leases[x].end >= lease[g].end
          BY <1>5, <2>1, <3>3 DEF RowInv
        <4>2. leases[x] \in Row /\ lease[g] \in Row /\ now \in Nat
          BY <1>1, <2>1, <4>1 DEF StageInv, TypeOK, Table, NoRow
        <4>3. pkt[g].mac = m
          BY <1>8, <4>1, <4>2 DEF Row
        <4>4. QED
          BY <1>2, <1>3, <1>8, <4>1, <4>2, <4>3 DEF Row
      <3>4. QED
        BY <3>1, <3>2, <3>3
    <2>5. QED
      BY <2>3, <2>4
  <1>13. QED
    BY <1>7, <1>9, <1>10, <1>11, <1>12 DEF LeaseInv

LEMMA InsertLeaseInv ==
    ASSUME NEW h \in Handler, NEW waived, LeaseInv(waived), raced' \subseteq waived, InsertLease(h)
    PROVE  LeaseInv(waived)'
  <1>1. /\ pc[h] = "add" /\ lease[h] \in Row /\ ip[h] \in Addr
        /\ TypeOK /\ pkt[h] \in Packet /\ deny \in SUBSET Addr
    BY StageFacts DEF InsertLease, StageInv, Decided
  <1>2. CASE leases' = AddLease(leases, ip[h], lease[h]) /\ Stored(h)
    <2>1. lease[h].static \in BOOLEAN /\ lease[h] = [lease[h] EXCEPT !.static = lease[h].static]
      BY <1>1 DEF Row
    <2>2. QED
      BY <1>1, <1>2, <2>1, StoredInv DEF AddLease
  <1>3. CASE Refuse(h) /\ UNCHANGED <<db, cache, now, raced>>
    BY <1>1, <1>3, RefuseFrame, QuitInv, QuietStep DEF db
  <1>4. QED
    BY <1>2, <1>3 DEF InsertLease

LEMMA OverwriteLeaseInv ==
    ASSUME NEW h \in Handler, NEW waived, LeaseInv(waived), raced' \subseteq waived, OverwriteLease(h)
    PROVE  LeaseInv(waived)'
  <1>1. /\ pc[h] = "update" /\ lease[h] \in Row /\ ip[h] \in Addr /\ HasRow(leases, ip[h])
        /\ TypeOK /\ pkt[h] \in Packet /\ deny \in SUBSET Addr
    BY StageFacts DEF OverwriteLease, StageInv, Decided
  <1>2. CASE leases' = UpdateLease(leases, ip[h], lease[h]) /\ Stored(h)
    <2>1. leases[ip[h]].static \in BOOLEAN
      BY <1>1 DEF TypeOK, Table, HasRow, Row
    <2>2. QED
      BY <1>1, <1>2, <2>1, StoredInv DEF UpdateLease
  <1>3. CASE Refuse(h) /\ UNCHANGED <<db, cache, now, raced>>
    BY <1>1, <1>3, RefuseFrame, QuitInv, QuietStep DEF db
  <1>4. QED
    BY <1>2, <1>3 DEF OverwriteLease

\* A release written: it ends a lease of its own client only, and one that the
\* client does not count on any more, or the address is raced.
LEMMA WriteReleaseInv ==
    ASSUME NEW h \in Handler, NEW waived, LeaseInv(waived), raced' \subseteq waived, WriteRelease(h)
    PROVE  LeaseInv(waived)'
  <1> DEFINE m == pkt[h].mac
             x == ip[h]
             row == [lease[h] EXCEPT !.static = leases[x].static]
  <1>1. /\ pc[h] = "relwrite" /\ x \in Addr /\ m \in Mac /\ pkt[h] \in Packet
        /\ TypeOK /\ StageInv(h) /\ RowInv(h, waived) /\ lease[h] \in Row
        /\ HasRow(leases, x) /\ leases[x] \in Row
        /\ Done(h) /\ NoReply(h) /\ UNCHANGED <<deny, cache, now>>
    BY StageFacts DEF WriteRelease, StageInv, Decided, TypeOK, Table, HasRow
  <1>2. LocalTypes' /\ Frame(h) /\ Quit(h) /\ client' = client
    BY <1>1, NoReplyFrame, DoneFrame DEF Frame, Quit
  <1>3. CASE UNCHANGED <<leases, raced>>
    BY <1>1, <1>2, <1>3, QuitInv, QuietStep DEF TypeOK
  <1>4. CASE /\ leases' = UpdateLease(leases, x, lease[h])
             /\ raced' = IF stale[h] \/ Overtaken(h) THEN raced \cup {x} ELSE raced
    <2>1. row \in Row /\ row.mac = m /\ row.state = "expired"
      BY <1>1 DEF StageInv, Row
    <2>2. leases' = [leases EXCEPT ![x] = row]
      BY <1>1, <1>4 DEF UpdateLease
    <2> HIDE DEF row
    <2>3. leases'[x] = row /\ \A a \in Addr \ {x} : leases'[a] = leases[a]
      BY <1>1, <2>2 DEF TypeOK, Table
    <2>4. leases' \in Table
      BY <1>1, <2>1, <2>2 DEF TypeOK, Table
    <2>5. raced' \in SUBSET Addr /\ (x \notin waived => ~stale[h] /\ ~Overtaken(h))
      BY <1>1, <1>4 DEF TypeOK
    <2>6. TypeOK' /\ CacheInv(waived)'
      BY <1>1, <1>2, <2>4, <2>5 DEF LeaseInv, TypeOK, LocalTypes, CacheInv
    <2>7. ASSUME x \notin waived, leases[x].state = "active"
          PROVE  leases[x].mac = m
      BY <1>1, <2>5, <2>7 DEF RowInv
    <2>8. ClientInv(waived)'
      <3> SUFFICES ASSUME NEW n \in Mac, NEW a \in Addr \ waived, Holds(n, a)
                   PROVE  a # x
        BY <1>1, <1>2, <2>3, <2>5 DEF LeaseInv, ClientInv, Holds
      <3>1. leases[a].mac = n /\ leases[a].state = "active"
        BY DEF LeaseInv, ClientInv
      <3>2. QED
        BY <2>5, <2>7, <3>1 DEF Overtaken, Holds
    <2>9. TableInv(waived)'
      BY <1>1, <2>1, <2>3 DEF LeaseInv, TableInv
    <2>10. ASSUME NEW g \in Handler \ {h}
           PROVE  StageInv(g)' /\ RowInv(g, waived)'
      <3>1. StageInv(g) /\ RowInv(g, waived)
        BY DEF LeaseInv
      <3>2. \A a \in Addr : HasRow(leases, a) => HasRow(leases, a)'
        BY <2>1, <2>3 DEF HasRow, Row, NoRow
      <3>3. /\ pc'[g] = pc[g] /\ pkt'[g] = pkt[g] /\ ip'[g] = ip[g]
            /\ lease'[g] = lease[g] /\ stale'[g] = stale[g]
            /\ await'[g] => await[g]
        BY <1>2 DEF Frame
      <3>4. StageInv(g)'
        BY <1>1, <3>1, <3>2, <3>3 DEF StageInv, Decided
      <3>5. RowInv(g, waived)'
        <4>1. CASE ip[g] # x
          <5>1. leases'[ip[g]] = leases[ip[g]] \/ pc[g] \notin Decided \cup {"reply"}
            BY <2>3, <3>1, <4>1 DEF StageInv
          <5>2. QED
            BY <1>1, <2>5, <3>1, <3>3, <4>1, <5>1 DEF RowInv, Granting, Decided
        <4>2. CASE ip[g] = x
          <5>1. x \notin waived /\ pc[g] = "reply"
                  /\ pkt[g].type = "REQUEST" /\ await[g] => ~(now < lease[g].end)
            BY <2>5, <2>7, <3>1, <4>2 DEF RowInv, StageInv, Overtaken
          <5>2. QED
            BY <1>1, <2>1, <2>3, <3>3, <4>2, <5>1 DEF RowInv, Granting, Decided
        <4>3. QED
          BY <4>1, <4>2
      <3>6. QED
        BY <3>4, <3>5
    <2>11. QED
      BY <1>2, <2>6, <2>8, <2>9, <2>10, QuitInv DEF LeaseInv
  <1>5. QED
    BY <1>3, <1>4 DEF WriteRelease

(***************************************************************************)
(* Steps of the environment: packets arrive, time passes.                  *)
(***************************************************************************)
LEMMA ReceiveInv ==
    ASSUME NEW h \in Handler, NEW waived, LeaseInv(waived), NEW p \in Packet,
           NEW label \in {"static", "relread"}, label = "static" => p.type # "RELEASE",
           Receive(h, p, label),
           client' \in [Mac -> Client], await' \in [Handler -> BOOLEAN],
           \A m \in Mac : client'[m] = client[m] \/ client'[m].st # "bound",
           \A g \in Handler \ {h} : await'[g] => await[g]
    PROVE  LeaseInv(waived)'
  <1>1. LocalTypes' /\ Frame(h) /\ pc'[h] = label /\ pkt'[h] = p
    BY DEF LeaseInv, TypeOK, Receive, Goto, LocalTypes, Frame, PC
  <1>2. StageInv(h)' /\ RowInv(h, waived)'
    BY <1>1 DEF StageInv, RowInv, Decided, Granting
  <1>3. deny' \in SUBSET Addr /\ UNCHANGED <<leases, cache, now, raced>>
    BY DEF LeaseInv, TypeOK, Receive
  <1>4. QED
    BY <1>1, <1>2, <1>3, QuietStep

LEMMA ArrivalInv ==
    ASSUME NEW h \in Handler, NEW waived, LeaseInv(waived), Arrival(h)
    PROVE  LeaseInv(waived)'
  <1>1. PICK m \in Mac :
          \/ \E a \in Addr \cup {NoAddr} : ReceiveDiscover(h, m, a)
          \/ \E a \in Addr : ReceiveRequest(h, m, a)
          \/ ReceiveRelease(h, m)
          \/ ReceiveBootP(h, m)
          \/ ReceiveUnserved(h, m)
    BY DEF Arrival
  <1>2. TypeOK /\ Unbound \in Client /\ Unbound.st # "bound"
    BY DEF LeaseInv, Unbound, Client
  <1>3. /\ Settled(m) \in [Handler -> BOOLEAN]
        /\ \A g \in Handler : Settled(m)[g] => await[g]
    BY <1>2 DEF Settled, TypeOK
  <1>4. /\ [client EXCEPT ![m] = Unbound] \in [Mac -> Client]
        /\ \A n \in Mac : \/ [client EXCEPT ![m] = Unbound][n] = client[n]
                          \/ [client EXCEPT ![m] = Unbound][n].st # "bound"
    BY <1>2 DEF TypeOK
  <1>5. ASSUME NEW a \in Addr \cup {NoAddr}, ReceiveDiscover(h, m, a)
        PROVE  LeaseInv(waived)'
    <2>1. [type |-> "DISCOVER", mac |-> m, req |-> a] \in Packet
      BY DEF Packet
    <2>2. await' \in [Handler -> BOOLEAN] /\ \A g \in Handler \ {h} : await'[g] => await[g]
      BY <1>3, <1>5 DEF ReceiveDiscover
    <2>3. QED
      BY <1>4, <1>5, <2>1, <2>2, ReceiveInv DEF ReceiveDiscover
  <1>6. ASSUME NEW a \in Addr, ReceiveRequest(h, m, a)
        PROVE  LeaseInv(waived)'
    <2>1. [type |-> "REQUEST", mac |-> m, req |-> a] \in Packet
      BY DEF Packet
    <2>2. await' \in [Handler -> BOOLEAN] /\ \A g \in Handler \ {h} : await'[g] => await[g]
      BY <1>2, <1>6 DEF ReceiveRequest, TypeOK
    <2>3. /\ client' \in [Mac -> Client]
          /\ \A n \in Mac : client'[n] = client[n] \/ client'[n].st # "bound"
      BY <1>2, <1>4, <1>6 DEF ReceiveRequest, TypeOK
    <2>4. QED
      BY <1>6, <2>1, <2>2, <2>3, ReceiveInv DEF ReceiveRequest
  <1>7. CASE ReceiveRelease(h, m)
    <2>1. [type |-> "RELEASE", mac |-> m, req |-> NoAddr] \in Packet
      BY DEF Packet
    <2>2. QED
      BY <1>3, <1>4, <1>7, <2>1, ReceiveInv DEF ReceiveRelease
  <1>8. CASE ReceiveBootP(h, m)
    <2>1. [type |-> "BOOTP", mac |-> m, req |-> NoAddr] \in Packet
      BY DEF Packet
    <2>2. QED
      BY <1>2, <1>8, <2>1, ReceiveInv DEF ReceiveBootP, TypeOK
  <1>9. CASE ReceiveUnserved(h, m)
    <2>1. LocalTypes' /\ Frame(h)
      BY <1>2, <1>3, <1>4, <1>9 DEF ReceiveUnserved, TypeOK, LocalTypes, Frame
    <2>2. StageInv(h)
      BY DEF LeaseInv
    <2>3. Quit(h)
      BY <1>3, <1>9, <2>2 DEF ReceiveUnserved, Quit, StageInv
    <2>4. QED
      BY <1>2, <1>9, <2>1, <2>3, QuitInv, QuietStep DEF ReceiveUnserved, TypeOK
  <1>10. QED
    BY <1>1, <1>5, <1>6, <1>7, <1>8, <1>9

LEMMA TickInv ==
    ASSUME NEW waived, LeaseInv(waived), Tick
    PROVE  LeaseInv(waived)'
  <1>1. /\ now \in Nat /\ now' = now + 1 /\ TypeOK
        /\ UNCHANGED <<leases, deny, cache, pc, pkt, ip, todo, scanning, lease, client,
                       await, stale, raced>>
    BY DEF LeaseInv, TypeOK, Tick, db, locals, history
  <1>2. TypeOK' /\ CacheInv(waived)'
    BY <1>1 DEF LeaseInv, TypeOK, CacheInv
  <1>3. ASSUME NEW h \in Handler
        PROVE  StageInv(h)' /\ RowInv(h, waived)'
    <2>1. StageInv(h) /\ RowInv(h, waived)
      BY DEF LeaseInv
    <2>2. StageInv(h)'
      BY <1>1, <2>1, TimeAssumption DEF StageInv, HasRow, Row
    <2>3. ip[h] \notin waived /\ pc[h] \in Granting /\ leases[ip[h]].state = "active"
            => leases[ip[h]] \in Row
      BY <1>1, <2>1 DEF StageInv, TypeOK, Table, NoRow, Granting, Decided
    <2>4. pc[h] = "reply" => lease[h] \in Row
      BY <2>1 DEF StageInv
    <2>5. RowInv(h, waived)'
      BY <1>1, <2>1, <2>3, <2>4 DEF RowInv, Row
    <2>6. QED
      BY <2>2, <2>5
  <1>4. ClientInv(waived)'
    <2>1. \A m \in Mac : client[m].end \in Nat
      BY <1>1 DEF TypeOK, Client
    <2>2. QED
      BY <1>1, <2>1 DEF LeaseInv, ClientInv, Holds
  <1>5. TableInv(waived)'
    <2>1. \A a \in Addr : leases[a].state = "active" => leases[a].end \in Nat
      BY <1>1 DEF TypeOK, Table, NoRow, Row
    <2>2. QED
      BY <1>1, <2>1, TimeAssumption DEF LeaseInv, TableInv
  <1>6. QED
    BY <1>2, <1>3, <1>4, <1>5 DEF LeaseInv

(***************************************************************************)
(* Theorems.                                                               *)
(***************************************************************************)
\* Whatever is waived, no step breaks the invariant of the other addresses.
LEMMA NextLeaseInv ==
    ASSUME NEW waived, LeaseInv(waived), [Next]_vars, raced' \subseteq waived
    PROVE  LeaseInv(waived)'
  <1>1. ASSUME NEW h \in Handler, Step(h)
        PROVE  LeaseInv(waived)'
    BY <1>1, CheckStaticInv, LookupByMACInv, ReadPoolInv, CheckDenyInv, CheckRowInv,
       PingSilentInv, PingAnsweredInv, MarkMartianInv, FindSubnetInv, CheckKindInv,
       LookupRowInv, InsertLeaseInv, OverwriteLeaseInv, SendReplyInv, ReadForReleaseInv,
       WriteReleaseInv, Zenon DEF Step
  <1>2. CASE UNCHANGED vars
    BY <1>2 DEF vars, LeaseInv, TypeOK, StageInv, RowInv, ClientInv, TableInv, CacheInv,
                Holds, HasRow
  <1>3. QED
    BY <1>1, <1>2, ArrivalInv, TickInv DEF Next

\* More may be waived at any time.
LEMMA MoreWaived ==
    ASSUME NEW E, NEW F, E \subseteq F, LeaseInv(E)
    PROVE  LeaseInv(F)
  BY DEF LeaseInv, CacheInv, TableInv, ClientInv, RowInv

\* No step reads the configuration anew, and what was raced stays so.
LEMMA NextFrame == ASSUME [Next]_vars PROVE cache' = cache /\ raced \subseteq raced'
  <1>1. ASSUME NEW h \in Handler, Step(h)
        PROVE  cache' = cache /\ raced \subseteq raced'
    BY <1>1 DEF Step, CheckStatic, LookupByMAC, ReadPool, CheckDeny, CheckRow, PingSilent,
                PingAnswered, MarkMartian, FindSubnet, CheckKind, LookupRow, InsertLease,
                OverwriteLease, SendReply, ReadForRelease, WriteRelease, Stored, history
  <1>2. ASSUME NEW h \in Handler, Arrival(h)
        PROVE  cache' = cache /\ raced \subseteq raced'
    BY <1>2 DEF Arrival, Receive, ReceiveDiscover, ReceiveRequest, ReceiveRelease,
                ReceiveBootP, ReceiveUnserved
  <1>3. QED
    BY <1>1, <1>2 DEF Next, Tick, vars, history

LEMMA NextInv == IInv /\ [Next]_vars => IInv'
  <1> SUFFICES ASSUME IInv, [Next]_vars PROVE IInv'
    OBVIOUS
  <1>1. PICK E : E = StaticAddr \cup raced
    OBVIOUS
  <1>2. PICK F : F = StaticAddr \cup raced'
    OBVIOUS
  <1>3. LeaseInv(E) /\ E \subseteq F /\ cache' = Configured
    BY <1>1, <1>2, NextFrame DEF IInv
  <1>4. LeaseInv(F)
    BY <1>3, MoreWaived
  <1>5. LeaseInv(F)'
    BY <1>2, <1>4, NextLeaseInv
  <1>6. QED
    BY <1>2, <1>3, <1>5 DEF IInv, StaticAddr

\* The inductive invariant holds of every reachable state.
THEOREM Invariance == Spec => []IInv
  <1>1. QED
    BY InitInv, NextInv, PTL DEF Spec

\* Type correctness: in particular no step writes a table row without a client,
\* and every handler past isIPAvailable considers a real address.
THEOREM Typing == Spec => []TypeOK
  <1>1. IInv => TypeOK
    BY DEF IInv, LeaseInv
  <1>2. QED
    BY <1>1, Invariance, PTL

\* However many handlers overlap, whatever is lost and whichever queries fail:
\* two clients hold one dynamic address only if a handler stored a lease, or a
\* release, over one that was stored after it had decided.
THEOREM OnlyRacesDoubleGrant == Spec => []ExclusiveUnlessRaced
  <1>1. IInv => ExclusiveUnlessRaced
    BY DEF IInv, LeaseInv, ClientInv, ExclusiveUnlessRaced
  <1>2. QED
    BY <1>1, Invariance, PTL

\* So no client is taken for a martian (isIPAvailable, pingCheck) but one that was
\* given the address between the check of its row and the ping.
THEOREM OnlyOvertakingDenies == Spec => []PingsNoClientUnlessOvertaken
  <1>1. ASSUME IInv, NEW h \in Handler, pc[h] = "ping", ~stale[h],
               ip[h] \notin StaticAddr \cup raced,
               NEW m \in Mac \ {pkt[h].mac}, Holds(m, ip[h])
        PROVE  FALSE
    <2> DEFINE a == ip[h]
    <2>1. a \in Addr
      BY <1>1 DEF IInv, LeaseInv, StageInv, Decided
    <2>2. /\ leases[a].state = "active" /\ leases[a].mac = m
          /\ leases[a].end >= client[m].end
      BY <1>1, <2>1 DEF IInv, LeaseInv, ClientInv
    <2>3. now > leases[a].end
      BY <1>1, <2>2 DEF IInv, LeaseInv, RowInv, Granting, Decided
    <2>4. leases[a].end \in Nat /\ client[m].end \in Nat /\ now \in Nat
      BY <1>1, <2>1, <2>2 DEF IInv, LeaseInv, TypeOK, Table, Row, NoRow, Client
    <2>5. QED
      BY <1>1, <2>2, <2>3, <2>4 DEF Holds
  <1>2. IInv => PingsNoClientUnlessOvertaken
    BY <1>1 DEF PingsNoClientUnlessOvertaken
  <1>3. QED
    BY <1>2, Invariance, PTL

(***************************************************************************)
(* If packets were handled one at a time, no address would be leased to    *)
(* two clients: with one handler no address is ever in "raced", and        *)
(* ExclusiveUnlessRaced becomes Exclusive.                                 *)
(***************************************************************************)

(***************************************************************************)
(* Ways for h to go on keep it fresh.                                      *)
(***************************************************************************)
Fresh(h) == ~stale'[h] /\ pc'[h] \notin {"relread", "relwrite"}

LEMMA DoneFresh ==
    ASSUME NEW h \in Handler, TypeOK, Done(h)
    PROVE  Fresh(h)
  BY DEF TypeOK, Done, Goto, Fresh

LEMMA RefuseFresh ==
    ASSUME NEW h \in Handler, TypeOK, Refuse(h)
    PROVE  Fresh(h)
  BY DoneFresh DEF Refuse

LEMMA AllocatedFresh ==
    ASSUME NEW h \in Handler, TypeOK, ~stale[h], NEW a, Allocated(h, a)
    PROVE  Fresh(h)
  <1>1. CASE pkt[h].type = "REQUEST" /\ a # pkt[h].req
    BY <1>1, RefuseFresh DEF Allocated
  <1>2. CASE ~(pkt[h].type = "REQUEST" /\ a # pkt[h].req)
    BY <1>2 DEF Allocated, Goto, TypeOK, Fresh
  <1>3. QED
    BY <1>1, <1>2

LEMMA ScanFresh ==
    ASSUME NEW h \in Handler, TypeOK, NEW q, Scan(h, q)
    PROVE  Fresh(h)
  <1>1. CASE q = <<>>
    BY <1>1, RefuseFresh DEF Scan
  <1>2. CASE q # <<>>
    <2>1. Goto(h, "deny") /\ stale' = [stale EXCEPT ![h] = FALSE]
      BY <1>2, Zenon DEF Scan
    <2>2. QED
      BY <2>1 DEF Goto, TypeOK, Fresh
  <1>3. QED
    BY <1>1, <1>2

LEMMA NextCandidateFresh ==
    ASSUME NEW h \in Handler, TypeOK, NextCandidate(h)
    PROVE  Fresh(h)
  <1>1. CASE scanning[h]
    BY <1>1, ScanFresh DEF NextCandidate
  <1>2. CASE ~scanning[h]
    BY <1>2 DEF NextCandidate, Goto, TypeOK, Fresh
  <1>3. QED
    BY <1>1, <1>2

LEMMA StoredFresh ==
    ASSUME NEW h \in Handler, TypeOK, ~stale[h], Stored(h)
    PROVE  Fresh(h) /\ raced' = raced
  BY DEF Stored, Goto, TypeOK, Fresh

(***************************************************************************)
(* Every step, with one handler.                                           *)
(***************************************************************************)
LEMMA FreshInv ==
    ASSUME SerialInv, NEW h \in Handler, Handler = {h}, Fresh(h), raced' = raced
    PROVE  SerialInv'
  BY DEF SerialInv, Fresh

LEMMA ServeSerial ==
    ASSUME IInv, SerialInv, NEW h \in Handler, Handler = {h},
           \/ CheckStatic(h) \/ LookupByMAC(h) \/ ReadPool(h) \/ CheckDeny(h)
           \/ CheckRow(h) \/ PingSilent(h) \/ PingAnswered(h) \/ MarkMartian(h)
    PROVE  SerialInv'
  <1>1. TypeOK /\ ~stale[h]
    BY DEF IInv, LeaseInv, SerialInv
  <1>2. CASE CheckStatic(h)
    BY <1>1, <1>2, AllocatedFresh, RefuseFresh, FreshInv
       DEF CheckStatic, Goto, TypeOK, Fresh
  <1>3. CASE LookupByMAC(h)
    <2>1. \/ \E a \in Addr : Allocated(h, a)
          \/ /\ Goto(h, IF pkt[h].req = NoAddr THEN "pool" ELSE "deny")
             /\ stale' = stale
          \/ Refuse(h)
      BY <1>3, Zenon DEF LookupByMAC, GetLeaseByMAC, ActiveFor
    <2>2. Fresh(h)
      BY <1>1, <2>1, AllocatedFresh, RefuseFresh DEF Goto, TypeOK, Fresh
    <2>3. QED
      BY <1>3, <2>2, FreshInv DEF LookupByMAC
  <1>4. CASE ReadPool(h)
    BY <1>1, <1>4, ScanFresh, FreshInv DEF ReadPool
  <1>5. CASE CheckDeny(h)
    BY <1>1, <1>5, NextCandidateFresh, FreshInv DEF CheckDeny, Goto, TypeOK, Fresh
  <1>6. CASE CheckRow(h)
    BY <1>1, <1>6, NextCandidateFresh, FreshInv DEF CheckRow, Goto, TypeOK, Fresh
  <1>7. CASE PingSilent(h)
    BY <1>1, <1>7, AllocatedFresh, FreshInv DEF PingSilent
  <1>8. CASE PingAnswered(h)
    BY <1>1, <1>8, FreshInv DEF PingAnswered, Goto, TypeOK, Fresh
  <1>9. CASE MarkMartian(h)
    BY <1>1, <1>9, NextCandidateFresh, FreshInv DEF MarkMartian
  <1>10. QED
    BY <1>2, <1>3, <1>4, <1>5, <1>6, <1>7, <1>8, <1>9

LEMMA GrantSerial ==
    ASSUME IInv, SerialInv, NEW h \in Handler, Handler = {h},
           \/ FindSubnet(h) \/ CheckKind(h) \/ LookupRow(h)
           \/ InsertLease(h) \/ OverwriteLease(h) \/ SendReply(h)
    PROVE  SerialInv'
  <1>1. TypeOK /\ ~stale[h]
    BY DEF IInv, LeaseInv, SerialInv
  <1>2. CASE FindSubnet(h)
    BY <1>1, <1>2, RefuseFresh, DoneFresh, FreshInv DEF FindSubnet, Goto, TypeOK, Fresh
  <1>3. CASE CheckKind(h)
    BY <1>1, <1>3, FreshInv DEF CheckKind, Goto, TypeOK, Fresh
  <1>4. CASE LookupRow(h)
    BY <1>1, <1>4, RefuseFresh, FreshInv DEF LookupRow, Goto, TypeOK, Fresh
  <1>5. CASE InsertLease(h)
    BY <1>1, <1>5, RefuseFresh, StoredFresh, FreshInv DEF InsertLease
  <1>6. CASE OverwriteLease(h)
    BY <1>1, <1>6, RefuseFresh, StoredFresh, FreshInv DEF OverwriteLease
  <1>7. CASE SendReply(h)
    BY <1>1, <1>7, DoneFresh, FreshInv DEF SendReply
  <1>8. QED
    BY <1>2, <1>3, <1>4, <1>5, <1>6, <1>7

\* The handler that carries out the RELEASE is the only one, so no newer packet
\* of its client is under way.
LEMMA ReleaseSerial ==
    ASSUME IInv, SerialInv, NEW h \in Handler, Handler = {h},
           ReadForRelease(h) \/ WriteRelease(h)
    PROVE  SerialInv'
  <1>1. TypeOK /\ ~stale[h]
    BY DEF IInv, LeaseInv, SerialInv
  <1>2. CASE ReadForRelease(h)
    <2>1. \/ Goto(h, "relwrite") /\ UNCHANGED <<pkt, client, stale>>
          \/ Refuse(h)
      BY <1>2, Zenon DEF ReadForRelease
    <2>2. raced' = raced /\ pc[h] = "relread"
      BY <1>2 DEF ReadForRelease
    <2>3. CASE Goto(h, "relwrite") /\ UNCHANGED <<pkt, client, stale>>
      BY <1>1, <2>2, <2>3 DEF SerialInv
    <2>4. CASE Refuse(h)
      BY <1>1, <2>2, <2>4, RefuseFresh, FreshInv
    <2>5. QED
      BY <2>1, <2>3, <2>4
  <1>3. CASE WriteRelease(h)
    <2>1. ~Overtaken(h)
      BY <1>3 DEF WriteRelease, SerialInv, Overtaken
    <2>2. raced' = raced
      BY <1>1, <1>3, <2>1 DEF WriteRelease
    <2>3. QED
      BY <1>1, <1>3, <2>2, DoneFresh, FreshInv DEF WriteRelease
  <1>4. QED
    BY <1>2, <1>3

LEMMA ArrivalSerial ==
    ASSUME IInv, SerialInv, NEW h \in Handler, Handler = {h}, Arrival(h)
    PROVE  SerialInv'
  <1>1. TypeOK /\ ~stale[h]
    BY DEF IInv, LeaseInv, SerialInv
  <1>2. PICK m \in Mac :
          \/ \E a \in Addr \cup {NoAddr} : ReceiveDiscover(h, m, a)
          \/ \E a \in Addr : ReceiveRequest(h, m, a)
          \/ ReceiveRelease(h, m)
          \/ ReceiveBootP(h, m)
          \/ ReceiveUnserved(h, m)
    BY DEF Arrival
  <1>3. CASE ReceiveRelease(h, m)
    BY <1>1, <1>3 DEF ReceiveRelease, Receive, Goto, SerialInv, TypeOK, Unbound
  <1>4. ASSUME \/ \E a \in Addr \cup {NoAddr} : ReceiveDiscover(h, m, a)
               \/ \E a \in Addr : ReceiveRequest(h, m, a)
               \/ ReceiveBootP(h, m)
               \/ ReceiveUnserved(h, m)
        PROVE  SerialInv'
    <2>1. Fresh(h) /\ raced' = raced
      BY <1>1, <1>4 DEF ReceiveDiscover, ReceiveRequest, ReceiveBootP, ReceiveUnserved,
                        Receive, Goto, TypeOK, Fresh
    <2>2. QED
      BY <2>1, FreshInv
  <1>5. QED
    BY <1>2, <1>3, <1>4

LEMMA SerialNext ==
    ASSUME \A g, h \in Handler : g = h, IInv, SerialInv, [Next]_vars
    PROVE  SerialInv'
  <1>1. CASE UNCHANGED vars
    BY <1>1 DEF vars, SerialInv
  <1>2. CASE Tick
    BY <1>2 DEF Tick, locals, history, SerialInv
  <1>3. ASSUME NEW h \in Handler, Arrival(h) \/ Step(h)
        PROVE  SerialInv'
    <2>1. Handler = {h}
      OBVIOUS
    <2>2. QED
      BY <1>3, <2>1, ArrivalSerial, ServeSerial, GrantSerial, ReleaseSerial DEF Step
  <1>4. QED
    BY <1>1, <1>2, <1>3 DEF Next

(***************************************************************************)
(* Theorems.                                                               *)
(***************************************************************************)
\* handlePacket called one packet after the other: no lease is lost to a race.
THEOREM SerialNoRace ==
    ASSUME \A g, h \in Handler : g = h
    PROVE  Spec => []SerialInv
  <1>1. Init => SerialInv
    BY DEF Init, SerialInv
  <1>2. IInv /\ SerialInv /\ [Next]_vars => SerialInv'
    BY SerialNext
  <1>3. QED
    BY <1>1, <1>2, Invariance, PTL DEF Spec

\* With one handler at a time, AllocateIP and CreateLease never lease a dynamic
\* address to two clients: the double grants are due to the goroutines alone.
THEOREM SerialExclusive ==
    ASSUME \A g, h \in Handler : g = h
    PROVE  Spec => []Exclusive
  <1>1. SerialInv /\ ExclusiveUnlessRaced => Exclusive
    BY DEF SerialInv, ExclusiveUnlessRaced, Exclusive
  <1>2. QED
    BY <1>1, SerialNoRace, OnlyRacesDoubleGrant, PTL


(***************************************************************************)
(* Without pings.  A step of h moves h alone, and takes it to CreateLease  *)
(* or to a reply with a static address only.                               *)
(***************************************************************************)
Kept(h) ==
    /\ pc'[h] \in Settling => ip'[h] \in StaticAddr
    /\ \A g \in Handler \ {h} : pc'[g] = pc[g] /\ ip'[g] = ip[g]

LEMMA DoneKept ==
    ASSUME NEW h \in Handler, TypeOK, Done(h)
    PROVE  Kept(h)
  BY DEF TypeOK, Done, Goto, Kept, Settling

LEMMA RefuseKept ==
    ASSUME NEW h \in Handler, TypeOK, Refuse(h)
    PROVE  Kept(h)
  BY DoneKept DEF Refuse

LEMMA AllocatedKept ==
    ASSUME NEW h \in Handler, TypeOK, NEW a \in StaticAddr, Allocated(h, a)
    PROVE  Kept(h)
  <1>1. CASE pkt[h].type = "REQUEST" /\ a # pkt[h].req
    BY <1>1, RefuseKept DEF Allocated
  <1>2. CASE ~(pkt[h].type = "REQUEST" /\ a # pkt[h].req)
    BY <1>2 DEF Allocated, Goto, TypeOK, Kept
  <1>3. QED
    BY <1>1, <1>2

LEMMA ScanKept ==
    ASSUME NEW h \in Handler, TypeOK, NEW q, Scan(h, q)
    PROVE  Kept(h)
  <1>1. CASE q = <<>>
    BY <1>1, RefuseKept DEF Scan
  <1>2. CASE q # <<>>
    <2>1. Goto(h, "deny") /\ \E a : ip' = [ip EXCEPT ![h] = a]
      BY <1>2, Zenon DEF Scan
    <2>2. QED
      BY <2>1 DEF Goto, TypeOK, Kept, Settling
  <1>3. QED
    BY <1>1, <1>2

LEMMA NextCandidateKept ==
    ASSUME NEW h \in Handler, TypeOK, NextCandidate(h)
    PROVE  Kept(h)
  <1>1. CASE scanning[h]
    BY <1>1, ScanKept DEF NextCandidate
  <1>2. CASE ~scanning[h]
    BY <1>2 DEF NextCandidate, Goto, TypeOK, Kept, Settling
  <1>3. QED
    BY <1>1, <1>2

LEMMA KeptInv ==
    ASSUME UnpingedInv, NEW h \in Handler, Kept(h), OnlyReserved'
    PROVE  UnpingedInv'
  BY DEF UnpingedInv, Kept

\* The steps of AllocateIP: the only address it returns is the static one, or that
\* of a row found, which is a static host's.
LEMMA ServeKept ==
    ASSUME IInv, UnpingedInv, PingRetries <= 0, NEW h \in Handler,
           \/ CheckStatic(h) \/ LookupByMAC(h) \/ ReadPool(h) \/ CheckDeny(h)
           \/ CheckRow(h) \/ PingSilent(h) \/ PingAnswered(h) \/ MarkMartian(h)
    PROVE  Kept(h) /\ leases' = leases
  <1>1. /\ TypeOK /\ StageInv(h) /\ cache = Configured
        /\ leases' = leases
    BY DEF IInv, LeaseInv, CheckStatic, LookupByMAC, ReadPool, CheckDeny, CheckRow,
           PingSilent, PingAnswered, MarkMartian, db
  <1>2. CASE CheckStatic(h)
    <2> DEFINE a == cache.static[pkt[h].mac]
    <2>1. pkt[h].mac \in Mac
      BY <1>1, <1>2 DEF CheckStatic, StageInv, Packet
    <2>2. a # NoAddr => a \in StaticAddr
      BY <1>1, <2>1, StaticAssumption DEF Configured, StaticAddr
    <2>3. CASE a # NoAddr /\ Allocated(h, a)
      BY <1>1, <2>2, <2>3, AllocatedKept
    <2>4. CASE Goto(h, "bymac") /\ UNCHANGED locals
      BY <1>1, <2>4 DEF Goto, TypeOK, Kept, Settling, locals
    <2>5. CASE Refuse(h)
      BY <1>1, <2>5, RefuseKept
    <2>6. QED
      BY <1>2, <2>3, <2>4, <2>5 DEF CheckStatic
  <1>3. CASE LookupByMAC(h)
    <2>1. CASE \E a \in GetLeaseByMAC(leases, pkt[h].mac) : Allocated(h, a)
      <3>1. PICK a \in Addr : Allocated(h, a) /\ leases[a].state = "active"
        BY <2>1 DEF GetLeaseByMAC, ActiveFor
      <3>2. a \in StaticAddr
        BY <3>1 DEF UnpingedInv, OnlyReserved, NoRow
      <3>3. QED
        BY <1>1, <3>1, <3>2, AllocatedKept
    <2>2. CASE /\ Goto(h, IF pkt[h].req = NoAddr THEN "pool" ELSE "deny")
               /\ ip' = [ip EXCEPT ![h] = pkt[h].req]
      BY <1>1, <2>2 DEF Goto, TypeOK, Kept, Settling
    <2>3. CASE Refuse(h)
      BY <1>1, <2>3, RefuseKept
    <2>4. \/ \E a \in GetLeaseByMAC(leases, pkt[h].mac) : Allocated(h, a)
          \/ /\ Goto(h, IF pkt[h].req = NoAddr THEN "pool" ELSE "deny")
             /\ ip' = [ip EXCEPT ![h] = pkt[h].req]
          \/ Refuse(h)
      BY <1>3, Zenon DEF LookupByMAC
    <2>5. QED
      BY <2>1, <2>2, <2>3, <2>4
  <1>4. CASE ReadPool(h)
    BY <1>1, <1>4, ScanKept DEF ReadPool
  <1>5. CASE CheckDeny(h)
    BY <1>1, <1>5, NextCandidateKept DEF CheckDeny, Goto, TypeOK, Kept, Settling, locals
  <1>6. CASE CheckRow(h)
    BY <1>1, <1>6, NextCandidateKept DEF CheckRow, Goto, TypeOK, Kept, Settling, locals
  <1>7. CASE PingSilent(h)
    BY <1>7, TimeAssumption DEF PingSilent
  <1>8. CASE PingAnswered(h)
    BY <1>1, <1>8 DEF PingAnswered, Goto, TypeOK, Kept, Settling, locals
  <1>9. CASE MarkMartian(h)
    BY <1>1, <1>9, NextCandidateKept DEF MarkMartian
  <1>10. QED
    BY <1>2, <1>3, <1>4, <1>5, <1>6, <1>7, <1>8, <1>9


\* The steps that follow it keep the address, and write the row of no other.
LEMMA GrantKept ==
    ASSUME IInv, UnpingedInv, NEW h \in Handler,
           \/ FindSubnet(h) \/ CheckKind(h) \/ LookupRow(h)
           \/ InsertLease(h) \/ OverwriteLease(h) \/ SendReply(h)
    PROVE  Kept(h) /\ OnlyReserved'
  <1>1. TypeOK /\ OnlyReserved
    BY DEF IInv, LeaseInv, UnpingedInv
  <1>2. pc[h] \in Settling /\ ip[h] \in StaticAddr
    BY DEF FindSubnet, CheckKind, LookupRow, InsertLease, OverwriteLease, SendReply,
           UnpingedInv, Settling
  <1>3. CASE leases' = leases
    <2>1. OnlyReserved'
      BY <1>1, <1>3 DEF OnlyReserved
    <2>2. CASE FindSubnet(h)
      BY <1>1, <1>2, <2>1, <2>2, RefuseKept, DoneKept DEF FindSubnet, Goto, TypeOK, Kept, locals
    <2>3. CASE CheckKind(h)
      BY <1>1, <1>2, <2>1, <2>3 DEF CheckKind, Goto, TypeOK, Kept
    <2>4. CASE LookupRow(h)
      BY <1>1, <1>2, <2>1, <2>4, RefuseKept DEF LookupRow, Goto, TypeOK, Kept, locals
    <2>5. CASE InsertLease(h)
      BY <1>1, <1>2, <2>1, <2>5, RefuseKept DEF InsertLease, Stored, Goto, TypeOK, Kept, locals
    <2>6. CASE OverwriteLease(h)
      BY <1>1, <1>2, <2>1, <2>6, RefuseKept DEF OverwriteLease, Stored, Goto, TypeOK, Kept, locals
    <2>7. CASE SendReply(h)
      BY <1>1, <2>1, <2>7, DoneKept DEF SendReply
    <2>8. QED
      BY <2>2, <2>3, <2>4, <2>5, <2>6, <2>7
  <1>4. CASE Stored(h) /\ \E row : leases' = [leases EXCEPT ![ip[h]] = row]
    BY <1>1, <1>2, <1>4 DEF Stored, Goto, TypeOK, Kept, locals, OnlyReserved, Table
  <1>5. \/ leases' = leases
        \/ Stored(h) /\ \E row : leases' = [leases EXCEPT ![ip[h]] = row]
    BY Zenon DEF FindSubnet, CheckKind, LookupRow, InsertLease, OverwriteLease, SendReply,
           AddLease, UpdateLease, db
  <1>6. QED
    BY <1>3, <1>4, <1>5

LEMMA ReleaseKept ==
    ASSUME IInv, UnpingedInv, NEW h \in Handler, ReadForRelease(h) \/ WriteRelease(h)
    PROVE  Kept(h) /\ OnlyReserved'
  <1>1. TypeOK /\ OnlyReserved
    BY DEF IInv, LeaseInv, UnpingedInv
  <1>2. CASE ReadForRelease(h)
    <2>1. leases' = leases
      BY <1>2 DEF ReadForRelease, db
    <2>2. CASE Refuse(h)
      BY <1>1, <2>1, <2>2, RefuseKept DEF OnlyReserved
    <2>3. CASE \E a \in GetLeaseByMAC(leases, pkt[h].mac) :
                  Goto(h, "relwrite") /\ ip' = [ip EXCEPT ![h] = a]
      <3>1. PICK a \in Addr : /\ leases[a].state = "active"
                              /\ Goto(h, "relwrite") /\ ip' = [ip EXCEPT ![h] = a]
        BY <2>3 DEF GetLeaseByMAC, ActiveFor
      <3>2. a \in StaticAddr
        BY <1>1, <3>1 DEF OnlyReserved, NoRow
      <3>3. QED
        BY <1>1, <2>1, <3>1, <3>2 DEF OnlyReserved, Goto, TypeOK, Kept
    <2>4. QED
      BY <1>2, <2>2, <2>3 DEF ReadForRelease
  <1>3. CASE WriteRelease(h)
    <2>1. ip[h] \in StaticAddr
      BY <1>3 DEF WriteRelease, UnpingedInv, Settling
    <2>2. leases' = leases \/ \E row : leases' = [leases EXCEPT ![ip[h]] = row]
      BY <1>3, Zenon DEF WriteRelease, UpdateLease
    <2>3. OnlyReserved'
      BY <1>1, <2>1, <2>2 DEF OnlyReserved, TypeOK, Table
    <2>4. QED
      BY <1>1, <1>3, <2>3, DoneKept DEF WriteRelease
  <1>4. QED
    BY <1>2, <1>3

LEMMA ArrivalKept ==
    ASSUME IInv, UnpingedInv, NEW h \in Handler, Arrival(h)
    PROVE  Kept(h) /\ leases' = leases
  <1>1. TypeOK
    BY DEF IInv, LeaseInv
  <1>2. pc[h] = "idle"
    BY DEF Arrival, ReceiveDiscover, ReceiveRequest, ReceiveRelease, ReceiveBootP,
           ReceiveUnserved, Receive
  <1>3. /\ leases' = leases /\ ip' = ip
        /\ pc' = pc \/ \E label \in {"static", "relread"} : Goto(h, label)
    BY DEF Arrival, ReceiveDiscover, ReceiveRequest, ReceiveRelease, ReceiveBootP,
           ReceiveUnserved, Receive
  <1>4. QED
    BY <1>1, <1>2, <1>3 DEF Goto, TypeOK, Kept, Settling

\* A server configured with a ping_retries below 0 (config.go takes it as it
\* stands) never leases an address of a range: pingCheck finds each in use, and
\* the database holds the static hosts only, whatever packets come.
THEOREM UnpingedServesNobody ==
    ASSUME PingRetries <= 0
    PROVE  Spec => []OnlyReserved
  <1>1. Init => UnpingedInv
    BY DEF Init, Seeded, UnpingedInv, OnlyReserved, Settling
  <1>2. ASSUME IInv, UnpingedInv, [Next]_vars
        PROVE  UnpingedInv'
    <2>1. CASE UNCHANGED vars
      BY <1>2, <2>1 DEF vars, UnpingedInv, OnlyReserved
    <2>2. CASE Tick
      BY <1>2, <2>2 DEF Tick, db, locals, UnpingedInv, OnlyReserved
    <2>3. ASSUME NEW h \in Handler, Arrival(h) \/ Step(h)
          PROVE  UnpingedInv'
      <3>1. Kept(h) /\ (leases' = leases \/ OnlyReserved')
        BY <1>2, <2>3, ArrivalKept, ServeKept, GrantKept, ReleaseKept DEF Step
      <3>2. OnlyReserved'
        BY <1>2, <3>1 DEF UnpingedInv, OnlyReserved
      <3>3. QED
        BY <1>2, <3>1, <3>2, KeptInv
    <2>4. QED
      BY <1>2, <2>1, <2>2, <2>3 DEF Next
  <1>3. UnpingedInv => OnlyReserved
    BY DEF UnpingedInv
  <1>4. QED
    BY <1>1, <1>2, <1>3, Invariance, PTL DEF Spec
=============================================================================
