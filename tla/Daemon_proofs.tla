--------------------------- MODULE Daemon_proofs ----------------------------
(***************************************************************************)
(* Proofs about Daemon, for any number of handlers, clients and addresses: *)
(* its types, and ExclusiveThroughReconfiguration; and, of one handler,    *)
(* DenyThroughReconfiguration.                                             *)
(*                                                                         *)
(* The steps of handlers are those of LeaseServer, so NextLeaseInv is all  *)
(* that has to be said of them.  A request or a restart writes rows of     *)
(* addresses that are waived, or ends a lease nobody counts on.            *)
(***************************************************************************)
EXTENDS DaemonInv, LeaseServer_proofs, FiniteSetTheorems, WellFoundedInduction

(***************************************************************************)
(* The initial states.                                                     *)
(***************************************************************************)
LEMMA DInitInv == DInit => DInv
  <1> SUFFICES ASSUME DInit PROVE DInv
    OBVIOUS
  <1>1. IInv /\ raced = {} /\ cache = Configured
    BY InitInv DEF DInit, Init
  <1>2. Waived = StaticAddr \cup raced
    BY <1>1 DEF DInit, Waived
  <1>3. LeaseInv(Waived)
    BY <1>1, <1>2 DEF IInv
  <1>4. DTypeOK
    BY <1>1, StaticAssumption, HostAssumption
    DEF DInit, DTypeOK, NoRequest, Configured, StaticAddr
  <1>5. QED
    BY <1>3, <1>4 DEF DInit, DInv, AdminInv, NoRequest

(***************************************************************************)
(* Steps of handlers.                                                      *)
(***************************************************************************)
\* No query deletes a row.
LEMMA RowsStay ==
    ASSUME NEW waived, LeaseInv(waived), [Next]_vars
    PROVE  \A a \in Addr : HasRow(leases, a) => HasRow(leases, a)'
  <1> SUFFICES ASSUME NEW a \in Addr, HasRow(leases, a) PROVE leases'[a] # NoRow
    BY DEF HasRow
  <1>1. leases \in Table /\ leases[a] # NoRow
    BY DEF LeaseInv, TypeOK, HasRow
  <1>2. CASE UNCHANGED leases
    BY <1>1, <1>2
  <1>3. ASSUME NEW h \in Handler, pc[h] \in {"add", "update", "relwrite"}, ip[h] \in Addr,
               \/ leases' = AddLease(leases, ip[h], lease[h])
               \/ leases' = UpdateLease(leases, ip[h], lease[h])
        PROVE  leases'[a] # NoRow
    <2>1. lease[h] \in Row
      BY <1>3 DEF LeaseInv, StageInv
    <2>2. \A s : [lease[h] EXCEPT !.static = s] # NoRow
      BY <2>1, NullAssumption DEF Row, NoRow
    <2>3. QED
      BY <1>1, <1>3, <2>1, <2>2, NullAssumption DEF AddLease, UpdateLease, Table, Row, NoRow
  <1>4. ASSUME NEW h \in Handler, Step(h)
        PROVE  leases'[a] # NoRow
    <2>1. pc[h] \in {"add", "update", "relwrite"} => ip[h] \in Addr
      BY DEF LeaseInv, StageInv, Decided
    <2>2. CASE InsertLease(h) \/ OverwriteLease(h) \/ WriteRelease(h)
      BY <1>2, <1>3, <2>1, <2>2 DEF InsertLease, OverwriteLease, WriteRelease, db
    <2>3. CASE ~(InsertLease(h) \/ OverwriteLease(h) \/ WriteRelease(h))
      <3>1. UNCHANGED leases
        BY <1>4, <2>3 DEF Step, CheckStatic, LookupByMAC, ReadPool, CheckDeny, CheckRow,
                          PingSilent, PingAnswered, MarkMartian, FindSubnet, CheckKind,
                          LookupRow, SendReply, ReadForRelease, db
      <3>2. QED
        BY <1>2, <3>1
    <2>4. QED
      BY <2>2, <2>3
  <1>5. ASSUME NEW h \in Handler, Arrival(h)
        PROVE  UNCHANGED leases
    BY <1>5 DEF Arrival, Receive, ReceiveDiscover, ReceiveRequest, ReceiveRelease,
                ReceiveBootP, ReceiveUnserved
  <1>6. QED
    BY <1>2, <1>4, <1>5 DEF Next, Tick, vars, db

LEMMA HandlerStepInv ==
    ASSUME DInv, [Next]_vars, UNCHANGED <<provider, admin, revoked>>
    PROVE  DInv'
  <1>1. PICK E : E = Waived
    OBVIOUS
  <1>2. PICK F : F = Waived'
    OBVIOUS
  <1>3. cache' = cache /\ raced \subseteq raced'
    BY NextFrame
  <1>4. LeaseInv(E) /\ E \subseteq F /\ raced' \subseteq F
    BY <1>1, <1>2, <1>3 DEF DInv, Waived, provider
  <1>5. LeaseInv(F)
    BY <1>4, MoreWaived
  <1>6. LeaseInv(F)'
    BY <1>4, <1>5, NextLeaseInv
  <1>7. \A a \in Addr : HasRow(leases, a) => HasRow(leases, a)'
    BY <1>4, RowsStay
  <1>8. DTypeOK'
    <2>1. admin.pc \in {"revoke", "overwrite"} => admin.at \in Addr
      BY DEF DInv, DTypeOK, AdminInv
    <2>2. QED
      BY <1>3, <1>7, <2>1 DEF DInv, DTypeOK, provider
  <1>9. QED
    BY <1>2, <1>6, <1>8 DEF DInv, AdminInv, provider


(***************************************************************************)
(* Steps of a request.                                                     *)
(***************************************************************************)
\* A request touches no handler and no client.
Elsewhere == <<deny, now, pc, locals, client, await, history>>

LEMMA UnreadLeases ==
    ASSUME NEW waived, LeaseInv(waived), UNCHANGED <<leases, Elsewhere>>,
           cache' \in Cache, CacheInv(waived)'
    PROVE  LeaseInv(waived)'
  BY DEF LeaseInv, Elsewhere, locals, history, TypeOK, TableInv, ClientInv, StageInv, RowInv,
         Holds, HasRow

\* Every client on the address, and every handler about to answer with it, is among
\* those it is waived for, unless nobody is and the row stored is ended.
LEMMA RowWritten ==
    ASSUME NEW waived, LeaseInv(waived), UNCHANGED <<cache, Elsewhere>>,
           NEW x \in Addr, NEW row \in Row, leases' = [leases EXCEPT ![x] = row],
           x \in waived \/ (row.state = "expired" /\ ~InUse(x))
    PROVE  LeaseInv(waived)'
  <1>1. /\ UNCHANGED <<deny, cache, now, pc, pkt, ip, todo, scanning, lease, client, await,
                       stale, raced>>
        /\ TypeOK
    BY DEF Elsewhere, locals, history, LeaseInv
  <1>2. leases'[x] = row /\ \A a \in Addr \ {x} : leases'[a] = leases[a]
    BY <1>1 DEF TypeOK, Table
  <1>3. leases' \in Table /\ row # NoRow
    BY <1>1, NullAssumption DEF TypeOK, Table, Row, NoRow
  <1>4. TypeOK' /\ CacheInv(waived)'
    BY <1>1, <1>3 DEF LeaseInv, TypeOK, CacheInv
  <1>5. TableInv(waived)'
    BY <1>1, <1>2 DEF LeaseInv, TableInv
  <1>6. ClientInv(waived)'
    BY <1>1, <1>2 DEF LeaseInv, ClientInv, Holds, InUse
  <1>7. ASSUME NEW h \in Handler
        PROVE  StageInv(h)' /\ RowInv(h, waived)'
    <2>1. StageInv(h) /\ RowInv(h, waived)
      BY DEF LeaseInv
    <2>2. StageInv(h)'
      BY <1>1, <1>2, <1>3, <2>1 DEF StageInv, HasRow, Decided
    <2>3. CASE ip[h] = x
      <3>1. CASE x \in waived
        BY <1>1, <2>2, <2>3, <3>1 DEF RowInv
      <3>2. CASE row.state = "expired" /\ ~InUse(x)
        <4>1. leases'[ip'[h]].state = "expired" /\ pc'[h] # "reply"
          BY <1>1, <1>2, <2>3, <3>2 DEF InUse
        <4>2. QED
          BY <2>2, <4>1 DEF RowInv, Granting, Decided
      <3>3. QED
        BY <3>1, <3>2
    <2>4. CASE ip[h] # x
      <3>1. leases'[ip[h]] = leases[ip[h]] \/ pc[h] \notin Decided \cup {"reply"}
        BY <1>2, <2>1, <2>4 DEF StageInv
      <3>2. QED
        BY <1>1, <2>1, <2>2, <3>1 DEF RowInv, Granting, Decided
    <2>5. QED
      BY <2>2, <2>3, <2>4
  <1>8. QED
    BY <1>4, <1>5, <1>6, <1>7 DEF LeaseInv

\* The request goes on, or is over, and touches nothing else.
LEMMA RequestMoves ==
    ASSUME DInv, UNCHANGED <<vars, provider, revoked>>, DTypeOK', AdminInv'
    PROVE  DInv'
  <1>1. PICK E : E = Waived
    OBVIOUS
  <1>2. Waived' = E /\ LeaseInv(E) /\ TypeOK
    BY <1>1 DEF DInv, LeaseInv, Waived, vars, provider
  <1>3. LeaseInv(E)'
    BY <1>2, UnreadLeases DEF vars, Elsewhere, locals, history, LeaseInv, TypeOK, CacheInv
  <1>4. QED
    BY <1>2, <1>3 DEF DInv

LEMMA WriteHostInv ==
    ASSUME DInv, NEW m \in Host, NEW a \in Addr \cup {NoAddr},
           NEW op \in {"add", "update", "delete"}, op = "delete" <=> a = NoAddr,
           WriteHost(op, m, a)
    PROVE  DInv'
  <1>1. PICK F : F = Waived'
    OBVIOUS
  <1>2. UNCHANGED vars /\ TypeOK /\ Waived \subseteq F /\ DTypeOK /\ m \in Mac
    BY <1>1, HostAssumption DEF WriteHost, DInv, LeaseInv, Waived, vars
  <1>3. PICK E : E = Waived
    OBVIOUS
  <1>4. LeaseInv(F)
    BY <1>2, <1>3, MoreWaived DEF DInv
  <1>5. LeaseInv(F)'
    BY <1>2, <1>4, UnreadLeases DEF vars, Elsewhere, locals, history, LeaseInv, TypeOK, CacheInv
  <1>6. admin' = NoRequest
          \/ admin' = [pc |-> "refresh", op |-> op, host |-> m, val |-> a, at |-> NoAddr,
                       row |-> NoRow]
    BY DEF WriteHost, NoRequest
  <1>7. AdminInv'
    <2>1. op # "delete" => a \in reserved'
      BY NullAssumption DEF WriteHost
    <2>2. QED
      BY <1>6, <2>1 DEF AdminInv, NoRequest
  <1>8. DTypeOK'
    <2>1. store' \in [Mac -> Addr \cup {NoAddr}]
      BY <1>2 DEF WriteHost, DTypeOK
    <2>2. {store'[n] : n \in Mac} \subseteq reserved' \cup {NoAddr}
      BY <1>2 DEF WriteHost, DTypeOK
    <2>3. requests' \in 0 .. MaxRequests /\ reserved' \in SUBSET Addr
      BY <1>2, HostAssumption DEF WriteHost, DTypeOK
    <2>4. {cache'.static[n] : n \in Mac} \subseteq reserved' \cup {NoAddr}
      BY <1>2 DEF WriteHost, DTypeOK, vars
    <2>5. admin' \in [pc: {"idle", "refresh", "find", "revoke", "lookup", "insert", "overwrite"},
                      op: {"none", "add", "update", "delete"}, host: Host \cup {NoMac},
                      val: Addr \cup {NoAddr}, at: Addr \cup {NoAddr}, row: Row \cup {NoRow}]
      BY <1>6 DEF NoRequest
    <2>6. admin'.pc \notin {"revoke", "overwrite"} /\ revoked' = revoked
      BY <1>6 DEF NoRequest, WriteHost
    <2>7. QED
      BY <1>2, <2>1, <2>2, <2>3, <2>4, <2>5, <2>6 DEF DTypeOK
  <1>9. QED
    BY <1>1, <1>5, <1>7, <1>8 DEF DInv


\* The request as a record, to see its fields.
RequestTypes ==
    [pc: {"idle", "refresh", "find", "revoke", "lookup", "insert", "overwrite"},
     op: {"none", "add", "update", "delete"}, host: Host \cup {NoMac},
     val: Addr \cup {NoAddr}, at: Addr \cup {NoAddr}, row: Row \cup {NoRow}]

\* Where a request can be that is no longer to write a row.
LEMMA RequestOver ==
    ASSUME DInv, admin' = NoRequest
    PROVE  AdminInv' /\ admin' \in RequestTypes /\ admin'.pc = "idle"
  BY DEF AdminInv, NoRequest, RequestTypes

LEMMA AfterRevokeMoves ==
    ASSUME DInv, admin.pc \in {"find", "revoke"}, AfterRevoke, UNCHANGED provider
    PROVE  AdminInv' /\ admin' \in RequestTypes /\ admin'.pc \in {"lookup", "idle"}
  <1>1. CASE admin' = NoRequest
    BY <1>1, RequestOver
  <1>2. CASE admin.op = "update"
    <2>1. admin' = [admin EXCEPT !.pc = "lookup", !.at = NoAddr, !.row = NoRow]
      BY <1>2 DEF AfterRevoke
    <2>2. admin \in RequestTypes
      BY DEF DInv, DTypeOK, RequestTypes
    <2>3. /\ admin' \in RequestTypes /\ admin'.pc = "lookup" /\ admin'.op = "update"
          /\ admin'.host = admin.host /\ admin'.val = admin.val
      BY <1>2, <2>1, <2>2 DEF RequestTypes
    <2>4. AdminInv'
      BY <2>3, <1>2 DEF AdminInv, DInv, provider
    <2>5. QED
      BY <2>3, <2>4
  <1>3. QED
    BY <1>1, <1>2 DEF AfterRevoke

\* A request touches the types only with its own place, the tables and the cache.
LEMMA RequestTyped ==
    ASSUME DInv, UNCHANGED provider, admin' \in RequestTypes, revoked' \in SUBSET Addr,
           cache' = cache \/ cache' = [cache EXCEPT !.static = store],
           admin'.pc \in {"revoke", "overwrite"} => HasRow(leases, admin.at)'
    PROVE  DTypeOK' /\ cache' \in Cache
                    /\ {cache'.static[m] : m \in Mac} \subseteq reserved \cup {NoAddr}
  <1>1. cache \in Cache /\ store \in [Mac -> Addr \cup {NoAddr}]
    BY DEF DInv, LeaseInv, TypeOK, DTypeOK
  <1>2. cache' \in Cache /\ cache'.static \in {cache.static, store}
    BY <1>1 DEF Cache
  <1>3. {cache'.static[m] : m \in Mac} \subseteq reserved \cup {NoAddr}
    BY <1>2 DEF DInv, DTypeOK
  <1>4. DTypeOK'
    BY <1>3 DEF DInv, DTypeOK, provider, RequestTypes
  <1>5. QED
    BY <1>2, <1>3, <1>4

LEMMA RefreshInv ==
    ASSUME DInv, Refresh
    PROVE  DInv'
  <1>1. PICK E : E = Waived
    OBVIOUS
  <1>2. Waived' = E /\ LeaseInv(E) /\ TypeOK /\ reserved \subseteq E
    BY <1>1 DEF DInv, LeaseInv, Waived, Refresh, provider, history
  <1>3. /\ UNCHANGED <<leases, Elsewhere>> /\ UNCHANGED provider
        /\ admin' = [admin EXCEPT !.pc = IF admin.op = "add" THEN "lookup" ELSE "find"]
        /\ admin \in RequestTypes
    BY DEF Refresh, AdminGoto, Elsewhere, db, DInv, DTypeOK, RequestTypes
  <1>4. /\ admin' \in RequestTypes /\ admin'.pc \in {"lookup", "find"}
        /\ admin'.op = admin.op /\ admin'.host = admin.host /\ admin'.val = admin.val
        /\ admin'.pc = "lookup" => admin.op = "add"
    BY <1>3 DEF RequestTypes
  <1>5. AdminInv'
    BY <1>4 DEF AdminInv, Refresh, DInv, provider
  <1>6. /\ DTypeOK' /\ cache' \in Cache
        /\ {cache'.static[m] : m \in Mac} \subseteq reserved \cup {NoAddr}
    BY <1>3, <1>4, RequestTyped DEF Refresh, DInv, DTypeOK
  <1>7. CacheInv(E)'
    BY <1>2, <1>6 DEF CacheInv
  <1>8. LeaseInv(E)'
    BY <1>2, <1>3, <1>6, <1>7, UnreadLeases
  <1>9. QED
    BY <1>2, <1>5, <1>6, <1>8 DEF DInv

LEMMA FindLeaseInv ==
    ASSUME DInv, FindLease
    PROVE  DInv'
  <1>1. /\ UNCHANGED <<vars, provider, revoked>> /\ UNCHANGED provider /\ leases' = leases
        /\ cache' = cache /\ revoked' \in SUBSET Addr /\ leases \in Table /\ now \in Nat
        /\ admin.pc = "find"
    BY DEF FindLease, vars, DInv, DTypeOK, LeaseInv, TypeOK
  <1>2. CASE AfterRevoke
    BY <1>1, <1>2, AfterRevokeMoves, RequestTyped, RequestMoves
  <1>3. ASSUME NEW a \in GetLeaseByMAC(leases, admin.host),
               admin' = [admin EXCEPT !.pc = "revoke", !.at = a,
                              !.row = [leases[a] EXCEPT !.state = "expired", !.end = now]]
        PROVE  DInv'
    <2>1. a \in Addr /\ leases[a].state = "active"
      BY <1>3 DEF GetLeaseByMAC, ActiveFor
    <2>2. leases[a] \in Row /\ leases[a] # NoRow
      BY <1>1, <2>1 DEF Table, NoRow
    <2>3. [leases[a] EXCEPT !.state = "expired", !.end = now] \in Row
      BY <1>1, <2>2 DEF Row
    <2>4. [leases[a] EXCEPT !.state = "expired", !.end = now].state = "expired"
      BY <2>2 DEF Row
    <2>5. PICK r \in Row : r.state = "expired" /\ admin' = [admin EXCEPT !.pc = "revoke",
                                                                !.at = a, !.row = r]
      BY <1>3, <2>3, <2>4
    <2>6. admin \in RequestTypes
      BY DEF DInv, DTypeOK, RequestTypes
    <2>7. /\ admin' \in RequestTypes /\ admin'.pc = "revoke" /\ admin'.at = a /\ admin'.row = r
          /\ admin'.op = admin.op /\ admin'.host = admin.host /\ admin'.val = admin.val
      BY <2>1, <2>5, <2>6 DEF RequestTypes
    <2>8. AdminInv'
      BY <1>1, <2>1, <2>5, <2>7 DEF AdminInv, DInv, provider
    <2>9. HasRow(leases, admin.at)'
      BY <1>1, <2>2, <2>7 DEF HasRow
    <2>10. QED
      BY <1>1, <2>7, <2>8, <2>9, RequestTyped, RequestMoves
  <1>4. QED
    BY <1>2, <1>3 DEF FindLease


LEMMA UpdatedTable ==
    ASSUME leases \in Table, NEW x \in Addr, HasRow(leases, x), NEW row \in Row
    PROVE  \E r \in Row : UpdateLease(leases, x, row) = [leases EXCEPT ![x] = r]
  <1>1. leases[x] \in Row
    BY DEF Table, HasRow
  <1>2. [row EXCEPT !.static = leases[x].static] \in Row
    BY <1>1 DEF Row
  <1>3. QED
    BY <1>2 DEF UpdateLease

\* UpdateLease of the request's row.
LEMMA WrittenRow ==
    ASSUME leases \in Table, admin.at \in Addr, HasRow(leases, admin.at), admin.row \in Row,
           leases' = UpdateLease(leases, admin.at, admin.row)
    PROVE  \E r \in Row : /\ r.state = admin.row.state
                          /\ leases' = [leases EXCEPT ![admin.at] = r]
  <1>1. leases[admin.at] \in Row
    BY DEF Table, HasRow
  <1> DEFINE r == [admin.row EXCEPT !.static = leases[admin.at].static]
  <1>2. r \in Row /\ r.state = admin.row.state
    BY <1>1 DEF Row
  <1>3. leases' = [leases EXCEPT ![admin.at] = r]
    BY DEF UpdateLease
  <1> HIDE DEF r
  <1>4. QED
    BY <1>2, <1>3

\* RevokeStaticLease ends a lease; one that was in use makes its address revoked.
LEMMA RevokeLeaseInv ==
    ASSUME DInv, RevokeLease
    PROVE  DInv'
  <1>1. PICK F : F = Waived'
    OBVIOUS
  <1>2. PICK E : E = Waived
    OBVIOUS
  <1>3. /\ UNCHANGED <<cache, Elsewhere>> /\ UNCHANGED provider /\ admin.pc = "revoke"
        /\ AfterRevoke /\ raced' = raced
    BY DEF RevokeLease, Elsewhere, history
  <1>4. /\ admin.at \in Addr /\ admin.row \in Row /\ admin.row.state = "expired"
        /\ HasRow(leases, admin.at) /\ leases \in Table /\ LeaseInv(E) /\ revoked \in SUBSET Addr
    BY <1>2, <1>3 DEF DInv, DTypeOK, AdminInv, LeaseInv, TypeOK
  <1>5. revoked \subseteq revoked' /\ revoked' \in SUBSET Addr
    BY <1>4 DEF RevokeLease
  <1>6. E \subseteq F
    BY <1>1, <1>2, <1>3, <1>5 DEF Waived, provider
  <1>7. LeaseInv(F)
    BY <1>4, <1>6, MoreWaived
  <1>8. LeaseInv(F)'
    <2>1. CASE UNCHANGED <<leases, revoked>>
      <3>1. cache' \in Cache /\ CacheInv(F)'
        BY <1>3, <1>7 DEF LeaseInv, TypeOK, CacheInv
      <3>2. QED
        BY <1>3, <1>7, <2>1, <3>1, UnreadLeases
    <2>2. ASSUME leases' = UpdateLease(leases, admin.at, admin.row),
                 revoked' = IF InUse(admin.at) THEN revoked \cup {admin.at} ELSE revoked
          PROVE  LeaseInv(F)'
      <3>1. PICK x \in Addr : x = admin.at
        BY <1>4
      <3>2. PICK r \in Row : r.state = "expired" /\ leases' = [leases EXCEPT ![x] = r]
        BY <1>4, <2>2, <3>1, WrittenRow
      <3>3. x \in F \/ ~InUse(x)
        BY <1>1, <2>2, <3>1 DEF Waived
      <3>4. QED
        BY <1>3, <1>7, <3>2, <3>3, RowWritten
    <2>3. QED
      BY <2>1, <2>2 DEF RevokeLease
  <1>9. AdminInv' /\ admin' \in RequestTypes /\ admin'.pc \in {"lookup", "idle"}
    BY <1>3, AfterRevokeMoves
  <1>10. DTypeOK'
    BY <1>3, <1>5, <1>9, RequestTyped
  <1>11. QED
    BY <1>1, <1>8, <1>9, <1>10 DEF DInv

LEMMA PermanentRows ==
    ASSUME NEW m \in Mac, now \in Nat
    PROVE  PermanentRow(m) \in Row
  <1>1. PICK r \in Row : r = SeededRow(m)
    BY TimeAssumption DEF SeededRow, Row
  <1>2. PermanentRow(m) = [r EXCEPT !.end = now + Forever] /\ now + Forever \in Nat
    BY <1>1, TimeAssumption DEF PermanentRow
  <1>3. QED
    BY <1>2 DEF Row

LEMMA LookupAddressInv ==
    ASSUME DInv, LookupAddress
    PROVE  DInv'
  <1>1. /\ UNCHANGED <<vars, provider, revoked>> /\ UNCHANGED provider /\ leases' = leases
        /\ cache' = cache /\ revoked' \in SUBSET Addr /\ now \in Nat /\ admin.pc = "lookup"
        /\ admin \in RequestTypes
    BY DEF LookupAddress, vars, DInv, DTypeOK, LeaseInv, TypeOK, RequestTypes
  <1>2. CASE admin' = NoRequest
    BY <1>1, <1>2, RequestOver, RequestTyped, RequestMoves
  <1>3. ASSUME admin' = [admin EXCEPT !.pc = IF HasRow(leases, admin.val)
                                             THEN "overwrite" ELSE "insert",
                                      !.at = admin.val, !.row = PermanentRow(admin.host)]
        PROVE  DInv'
    <2>1. admin.host \in Mac /\ admin.op # "delete" /\ admin.val \in reserved
          /\ reserved \in SUBSET Addr
      BY <1>1, HostAssumption DEF DInv, AdminInv, DTypeOK
    <2>2. PICK r \in Row : r = PermanentRow(admin.host)
      BY <1>1, <2>1, PermanentRows
    <2>3. PICK label \in {"overwrite", "insert"} :
              /\ label = "overwrite" => HasRow(leases, admin.val)
              /\ admin' = [admin EXCEPT !.pc = label, !.at = admin.val, !.row = r]
      BY <1>3, <2>2
    <2>4. /\ admin' \in RequestTypes /\ admin'.pc = label /\ admin'.at = admin.val
          /\ admin'.row = r
          /\ admin'.op = admin.op /\ admin'.host = admin.host /\ admin'.val = admin.val
      BY <1>1, <2>3 DEF RequestTypes
    <2>5. AdminInv'
      BY <1>1, <2>1, <2>4 DEF AdminInv, DInv, provider
    <2>6. admin'.pc \in {"revoke", "overwrite"} => HasRow(leases, admin.at)'
      BY <1>1, <2>3, <2>4 DEF HasRow
    <2>7. QED
      BY <1>1, <2>4, <2>5, <2>6, RequestTyped, RequestMoves
  <1>4. QED
    BY <1>2, <1>3 DEF LookupAddress

\* SeedStaticLease writes at an address that is, or was, a static host's.
LEMMA SeedInv ==
    ASSUME DInv, InsertSeed \/ OverwriteSeed
    PROVE  DInv'
  <1>1. PICK E : E = Waived
    OBVIOUS
  <1>2. /\ UNCHANGED <<cache, Elsewhere>> /\ UNCHANGED provider
        /\ admin.pc \in {"insert", "overwrite"} /\ admin' = NoRequest
        /\ revoked' = revoked /\ raced' = raced
    BY DEF InsertSeed, OverwriteSeed, Elsewhere, history
  <1>3. /\ admin.at \in E /\ admin.at \in Addr /\ admin.row \in Row
        /\ admin.pc = "overwrite" => HasRow(leases, admin.at)
        /\ leases \in Table /\ LeaseInv(E) /\ revoked' \in SUBSET Addr
    BY <1>1, <1>2 DEF DInv, DTypeOK, AdminInv, LeaseInv, TypeOK, Waived
  <1>4. Waived' = E
    BY <1>1, <1>2 DEF Waived, provider
  <1>5. LeaseInv(E)'
    <2>1. CASE UNCHANGED leases
      <3>1. cache' \in Cache /\ CacheInv(E)'
        BY <1>2, <1>3 DEF LeaseInv, TypeOK, CacheInv
      <3>2. QED
        BY <1>2, <1>3, <2>1, <3>1, UnreadLeases
    <2>2. ASSUME NEW r \in Row, leases' = [leases EXCEPT ![admin.at] = r]
          PROVE  LeaseInv(E)'
      <3>1. PICK x \in Addr : x = admin.at
        BY <1>3
      <3>2. QED
        BY <1>2, <1>3, <2>2, <3>1, RowWritten
    <2>3. CASE InsertSeed /\ ~UNCHANGED leases
      BY <1>3, <2>2, <2>3 DEF InsertSeed, AddLease
    <2>4. CASE OverwriteSeed /\ ~UNCHANGED leases
      <3>1. leases' = UpdateLease(leases, admin.at, admin.row) /\ HasRow(leases, admin.at)
        BY <1>3, <2>4 DEF OverwriteSeed
      <3>2. QED
        BY <1>3, <2>2, <3>1, WrittenRow
    <2>5. QED
      BY <2>1, <2>3, <2>4
  <1>6. AdminInv' /\ admin' \in RequestTypes /\ admin'.pc = "idle"
    BY <1>2, RequestOver
  <1>7. DTypeOK'
    BY <1>2, <1>3, <1>6, RequestTyped
  <1>8. QED
    BY <1>4, <1>5, <1>6, <1>7 DEF DInv

(***************************************************************************)
(* A restart.                                                              *)
(***************************************************************************)
LEMMA SeededAgain ==
    ASSUME DInv, NEW owner \in Owners(store),
           leases' = SeedAll(Reopen(leases), owner, [m \in Mac |-> PermanentRow(m)])
    PROVE  /\ leases' \in Table
           /\ \A a \in Addr \ reserved : leases'[a] = leases[a]
  <1>1. leases \in Table /\ now \in Nat
    BY DEF DInv, LeaseInv, TypeOK
  <1>2. \A a \in Addr \ reserved : \A m \in Mac : store[m] # a
    BY NullAssumption DEF DInv, DTypeOK
  <1> DEFINE R == [m \in Mac |-> PermanentRow(m)]
  <1>3. \A m \in Mac : R[m] \in Row
    BY <1>1, PermanentRows
  <1>4. leases' = [a \in Addr |-> IF owner[a] = NoMac THEN leases[a]
                                  ELSE IF HasRow(leases, a) THEN UpdateLease(leases, a, R[owner[a]])[a]
                                  ELSE AddLease(leases, a, R[owner[a]])[a]]
    BY DEF SeedAll, Reopen
  <1> HIDE DEF R
  <1>5. ASSUME NEW a \in Addr
        PROVE  leases'[a] \in Row \cup {NoRow} /\ (a \notin reserved => leases'[a] = leases[a])
    <2> DEFINE named == {m \in Mac : store[m] = a}
    <2>1. IF named = {} THEN owner[a] = NoMac ELSE owner[a] \in named
      BY Zenon DEF Owners
    <2>2. CASE named = {}
      BY <1>1, <1>4, <2>1, <2>2 DEF Table
    <2>3. CASE named # {}
      <3>1. owner[a] \in Mac /\ store[owner[a]] = a /\ owner[a] # NoMac
        BY <2>1, <2>3, NullAssumption
      <3>2. R[owner[a]] \in Row /\ a \in reserved
        BY <1>2, <1>3, <3>1
      <3>3. CASE HasRow(leases, a)
        <4>1. PICK row \in Row : row = R[owner[a]]
          BY <3>2
        <4>2. \E r \in Row : UpdateLease(leases, a, row) = [leases EXCEPT ![a] = r]
          BY <1>1, <3>3, UpdatedTable
        <4>3. PICK r \in Row : UpdateLease(leases, a, R[owner[a]]) = [leases EXCEPT ![a] = r]
          BY <4>1, <4>2
        <4>4. leases'[a] = r
          BY <1>1, <1>4, <3>1, <3>3, <4>3 DEF Table
        <4>5. QED
          BY <3>2, <4>4
      <3>4. CASE ~HasRow(leases, a)
        <4>1. leases'[a] = R[owner[a]]
          BY <1>1, <1>4, <3>1, <3>4 DEF AddLease, Table
        <4>2. QED
          BY <3>2, <4>1
      <3>5. QED
        BY <3>3, <3>4
    <2>4. QED
      BY <2>2, <2>3
  <1>6. leases' \in Table
    BY <1>4, <1>5 DEF Table
  <1>7. QED
    BY <1>5, <1>6

LEMMA RestartInv ==
    ASSUME DInv, Restart
    PROVE  DInv'
  <1>1. PICK E : E = Waived
    OBVIOUS
  <1>2. /\ leases' \in Table
        /\ \A a \in Addr \ reserved : leases'[a] = leases[a]
    BY SeededAgain DEF Restart
  <1>3. Waived' = E /\ LeaseInv(E) /\ reserved \subseteq E
    BY <1>1 DEF DInv, Waived, Restart, provider
  <1>4. \A a \in Addr \ E : leases'[a] = leases[a]
    BY <1>2, <1>3
  <1>5. UNCHANGED <<deny, now, client, raced, store, requests, reserved, revoked>>
        /\ admin' = NoRequest /\ cache' = [cache EXCEPT !.static = store]
    BY DEF Restart, provider
  <1>6. AdminInv' /\ admin' \in RequestTypes /\ admin'.pc = "idle"
    BY <1>5, RequestOver
  <1>7. /\ DTypeOK' /\ cache' \in Cache
        /\ {cache'.static[m] : m \in Mac} \subseteq reserved \cup {NoAddr}
    BY <1>5, <1>6, RequestTyped DEF provider, DInv, DTypeOK
  <1>8. TypeOK'
    BY <1>2, <1>5, <1>7 DEF Restart, DInv, LeaseInv, TypeOK, PC
  <1>9. CacheInv(E)' /\ TableInv(E)' /\ ClientInv(E)'
    BY <1>3, <1>4, <1>5, <1>7 DEF LeaseInv, CacheInv, TableInv, ClientInv, Holds
  <1>10. ASSUME NEW h \in Handler
         PROVE  StageInv(h)' /\ RowInv(h, E)'
    <2>1. pc'[h] = "idle" /\ pkt'[h] = NoPacket /\ ~await'[h]
      BY DEF Restart
    <2>2. QED
      BY <2>1 DEF StageInv, RowInv, Decided, Granting, NoPacket
  <1>11. QED
    BY <1>3, <1>6, <1>7, <1>8, <1>9, <1>10 DEF DInv, LeaseInv


(***************************************************************************)
(* Any number of handlers.                                                 *)
(***************************************************************************)
LEMMA DNextInv == DInv /\ [DNext]_dvars => DInv'
  <1> SUFFICES ASSUME DInv, [DNext]_dvars PROVE DInv'
    OBVIOUS
  <1>1. CASE Next /\ UNCHANGED <<provider, admin, revoked>>
    BY <1>1, HandlerStepInv
  <1>2. CASE UNCHANGED dvars
    BY <1>2, HandlerStepInv DEF dvars
  <1>3. ASSUME NEW m \in Host, NEW a \in Addr, NEW op \in {"add", "update"}, WriteHost(op, m, a)
        PROVE  DInv'
    BY <1>3, WriteHostInv, NullAssumption
  <1>4. ASSUME NEW m \in Host, WriteHost("delete", m, NoAddr)
        PROVE  DInv'
    BY <1>4, WriteHostInv
  <1>5. CASE Refresh \/ FindLease \/ RevokeLease \/ LookupAddress \/ InsertSeed \/ OverwriteSeed
    BY <1>5, RefreshInv, FindLeaseInv, RevokeLeaseInv, LookupAddressInv, SeedInv
  <1>6. CASE Restart
    BY <1>6, RestartInv
  <1>7. QED
    BY <1>1, <1>2, <1>3, <1>4, <1>5, <1>6 DEF DNext, AdminStep

\* DInv is inductive, whatever the API is asked to do between two steps of a
\* handler and however often the daemon is restarted.
THEOREM DaemonInvariance == DSpec => []DInv
  <1>1. DInit => DInv
    BY DInitInv
  <1>2. DInv /\ [DNext]_dvars => DInv'
    BY DNextInv
  <1>3. QED
    BY <1>1, <1>2, PTL DEF DSpec

\* Type correctness of the whole daemon.
THEOREM DaemonTyped == DSpec => []DTypeOK
  <1>1. DInv => DTypeOK
    BY DEF DInv
  <1>2. QED
    BY <1>1, DaemonInvariance, PTL

\* Static hosts added, moved and removed under the running handlers, and restarts,
\* never give one address to two clients, but for the addresses the property names:
\* AllocateIP and CreateLease of any number of handlers, against the API's requests.
THEOREM ReconfigurationExclusive == DSpec => []ExclusiveThroughReconfiguration
  <1>1. DInv => ExclusiveThroughReconfiguration
    BY DEF DInv, LeaseInv, ClientInv, Waived, ExclusiveThroughReconfiguration
  <1>2. QED
    BY <1>1, DaemonInvariance, PTL

(***************************************************************************)
(* Choosing the lease that ends last.                                      *)
(***************************************************************************)
LEMMA LeastNatural ==
    ASSUME NEW T, T \subseteq Nat, T # {}
    PROVE  \E x \in T : \A y \in T : x <= y
  <1> DEFINE R == OpToRel(<, Nat)
  <1>1. IsWellFoundedOn(R, Nat)
    BY NatLessThanWellFounded
  <1>2. ASSUME NEW x \in Nat, NEW y \in Nat, x < y PROVE <<x, y>> \in R
    BY <1>2 DEF OpToRel
  <1> HIDE DEF R
  <1>3. PICK x \in T : \A y \in T : ~(<<y, x>> \in R)
    BY <1>1, WFMin
  <1>4. ASSUME NEW y \in T PROVE x <= y
    <2>1. ~(y < x)
      BY <1>2, <1>3
    <2>2. x \in Nat /\ y \in Nat
      OBVIOUS
    <2>3. QED
      BY <2>1, <2>2
  <1>5. QED
    BY <1>4

\* Of finitely many, one has no other above it.
LEMMA Highest ==
    ASSUME NEW A, IsFiniteSet(A), A # {}, NEW end, \A a \in A : end[a] \in Nat
    PROVE  \E a \in A : \A b \in A : end[b] <= end[a]
  <1> DEFINE Above(a) == {b \in A : end[a] < end[b]}
             Counts == {Cardinality(Above(a)) : a \in A}
  <1>1. \A a \in A : IsFiniteSet(Above(a)) /\ Cardinality(Above(a)) \in Nat
    BY FS_Subset, FS_CardinalityType
  <1>2. Counts \subseteq Nat /\ Counts # {}
    BY <1>1
  <1>3. PICK a \in A : \A b \in A : Cardinality(Above(a)) <= Cardinality(Above(b))
    <2>1. PICK n \in Counts : \A k \in Counts : n <= k
      BY <1>2, LeastNatural
    <2>2. QED
      BY <2>1
  <1>4. ASSUME NEW b \in A, ~(end[b] <= end[a])
        PROVE  FALSE
    <2>1. Above(b) \subseteq Above(a) /\ b \in Above(a) /\ b \notin Above(b)
      BY <1>4
    <2>2. Cardinality(Above(b)) <= Cardinality(Above(a)) /\ Cardinality(Above(a)) <= Cardinality(Above(b))
      BY <1>1, <1>3, <2>1, FS_Subset
    <2>3. Cardinality(Above(b)) = Cardinality(Above(a))
      BY <1>1, <2>2
    <2>4. Above(a) = Above(b)
      BY <1>1, <2>1, <2>3, FS_Subset
    <2>5. QED
      BY <2>1, <2>4
  <1>5. QED
    BY <1>4

\* ORDER BY lease_end DESC finds a lease that lasts, if there is one.
LEMMA LastingFound ==
    ASSUME IsFiniteSet(Addr), TypeOK, NEW m \in Mac, NEW a \in Addr, Live(leases[a], m)
    PROVE  \E b \in GetLeaseByMAC(leases, m) : now < leases[b].end
  <1> DEFINE A == ActiveFor(leases, m)
             end == [b \in A |-> leases[b].end]
  <1>1. a \in A /\ IsFiniteSet(A)
    BY FS_Subset DEF ActiveFor, Live
  <1>2. now \in Nat /\ \A b \in A : end[b] \in Nat /\ end[b] = leases[b].end
    BY DEF ActiveFor, TypeOK, Table, Row, NoRow
  <1> HIDE DEF end
  <1>3. PICK b \in A : \A c \in A : end[c] <= end[b]
    BY <1>1, <1>2, Highest
  <1>4. b \in GetLeaseByMAC(leases, m)
    BY <1>2, <1>3 DEF GetLeaseByMAC
  <1>5. now < leases[b].end
    BY <1>1, <1>2, <1>3 DEF Live
  <1>6. QED
    BY <1>4, <1>5

(***************************************************************************)
(* One handler that pings.                                                 *)
(***************************************************************************)
Searching == {"pool", "deny", "row", "ping", "mark"}

\* What does not move a handler keeps PingInv, if it starts no lease that lasts.
LEMMA PingElsewhere ==
    ASSUME DInv, PingInv, UNCHANGED <<deny, pc, pkt, ip, stale>>, Waived \subseteq Waived',
           now' \in Nat, now <= now',
           \A a \in Addr \ Waived' : leases'[a] = leases[a] \/ leases'[a].state = "expired"
    PROVE  PingInv'
  <1>1. ASSUME NEW h \in Handler
        PROVE  PingStage(h)'
    <2>1. PingStage(h)
      BY DEF PingInv
    <2>2. ASSUME WithoutLease(h)
          PROVE  WithoutLease(h)'
      <3>1. SUFFICES ASSUME NEW a \in Addr, a \notin Waived', Live(leases[a], pkt[h].mac)'
                     PROVE  FALSE
        BY DEF WithoutLease
      <3>2. leases'[a] = leases[a] /\ leases[a].state = "active"
        BY <3>1 DEF Live
      <3>3. leases[a].end \in Nat /\ now \in Nat
        BY <3>2 DEF DInv, LeaseInv, TypeOK, Table, Row, NoRow
      <3>4. Live(leases[a], pkt[h].mac)
        BY <3>1, <3>2, <3>3 DEF Live
      <3>5. QED
        BY <2>2, <3>1, <3>4 DEF WithoutLease
    <2>3. QED
      BY <2>1, <2>2 DEF PingStage
  <1>2. DenyThroughReconfiguration'
    BY DEF PingInv, DenyThroughReconfiguration, Waived
  <1>3. QED
    BY <1>1, <1>2 DEF PingInv

LEMMA PingRequest ==
    ASSUME DInv, PingInv, AdminStep
    PROVE  PingInv'
  <1>1. /\ UNCHANGED <<deny, now, pc, pkt, ip, stale, raced>> /\ now \in Nat
        /\ leases \in Table
    BY DEF AdminStep, WriteHost, Refresh, FindLease, RevokeLease, LookupAddress, InsertSeed,
           OverwriteSeed, vars, db, locals, history, DInv, LeaseInv, TypeOK
  <1>2. Waived \subseteq Waived'
    BY <1>1 DEF AdminStep, WriteHost, Refresh, FindLease, RevokeLease, LookupAddress,
                InsertSeed, OverwriteSeed, provider, Waived
  <1>3. \A a \in Addr \ Waived' : leases'[a] = leases[a] \/ leases'[a].state = "expired"
    <2>1. CASE UNCHANGED leases
      BY <2>1
    <2>2. CASE RevokeLease /\ ~UNCHANGED leases
      <3>1. /\ admin.at \in Addr /\ admin.row \in Row /\ admin.row.state = "expired"
            /\ HasRow(leases, admin.at) /\ leases' = UpdateLease(leases, admin.at, admin.row)
        BY <2>2 DEF RevokeLease, DInv, DTypeOK, AdminInv
      <3>2. PICK r \in Row : /\ r.state = "expired"
                             /\ leases' = [leases EXCEPT ![admin.at] = r]
        BY <1>1, <3>1, WrittenRow
      <3>3. QED
        BY <1>1, <3>1, <3>2 DEF Table
    <2>3. CASE (InsertSeed \/ OverwriteSeed) /\ ~UNCHANGED leases
      <3>1. /\ admin.at \in Waived /\ admin.at \in Addr /\ admin.row \in Row
            /\ admin.pc = "overwrite" => HasRow(leases, admin.at)
        BY <2>3 DEF InsertSeed, OverwriteSeed, DInv, DTypeOK, AdminInv, Waived
      <3>2. \E r \in Row : leases' = [leases EXCEPT ![admin.at] = r]
        <4>1. CASE InsertSeed
          BY <1>1, <2>3, <3>1, <4>1 DEF InsertSeed, AddLease
        <4>2. CASE OverwriteSeed
          <5>1. leases' = UpdateLease(leases, admin.at, admin.row) /\ HasRow(leases, admin.at)
            BY <2>3, <3>1, <4>2 DEF OverwriteSeed
          <5>2. QED
            BY <1>1, <3>1, <5>1, WrittenRow
        <4>3. QED
          BY <2>3, <4>1, <4>2
      <3>3. \A a \in Addr \ {admin.at} : leases'[a] = leases[a]
        BY <1>1, <3>2 DEF Table
      <3>4. QED
        BY <1>2, <3>1, <3>3
    <2>4. CASE Refresh \/ FindLease \/ LookupAddress
                 \/ \E m \in Host, a \in Addr \cup {NoAddr}, op \in {"add", "update", "delete"} :
                        WriteHost(op, m, a)
      BY <2>4 DEF Refresh, FindLease, LookupAddress, WriteHost, vars, db
    <2>5. QED
      BY <2>1, <2>2, <2>3, <2>4 DEF AdminStep
  <1>4. QED
    BY <1>1, <1>2, <1>3, PingElsewhere

LEMMA PingRestart ==
    ASSUME DInv, PingInv, Restart
    PROVE  PingInv'
  <1>1. UNCHANGED <<deny, raced, reserved, revoked>>
    BY DEF Restart, provider
  <1>2. DenyThroughReconfiguration'
    BY <1>1 DEF PingInv, DenyThroughReconfiguration
  <1>3. \A h \in Handler : pc'[h] = "idle" /\ ~stale'[h]
    BY DEF Restart
  <1>4. QED
    BY <1>2, <1>3 DEF PingInv, PingStage


\* How a step of the one handler, h, can leave it.
Settles(h) ==
    /\ ~stale'[h] /\ deny' \subseteq Squatted \cup Waived /\ Waived \subseteq Waived'
    /\ pc'[h] \in Searching
         => WithoutLease(h) /\ pkt'[h] = pkt[h] /\ UNCHANGED <<leases, now>>
    /\ pc'[h] = "mark" => ip'[h] \in Squatted \cup Waived

LEMMA SettledPing ==
    ASSUME NEW h \in Handler, Handler = {h}, Settles(h)
    PROVE  PingInv'
  <1>1. DenyThroughReconfiguration'
    BY DEF Settles, DenyThroughReconfiguration, Waived
  <1>2. pc'[h] \in Searching => WithoutLease(h)'
    BY DEF Settles, WithoutLease, Live
  <1>3. PingStage(h)'
    BY <1>2 DEF Settles, PingStage, Searching
  <1>4. QED
    BY <1>1, <1>3 DEF PingInv

LEMMA PingFacts ==
    ASSUME DInv, PingInv, NEW h \in Handler, pc[h] # "idle"
    PROVE  /\ TypeOK /\ LeaseInv(Waived) /\ StageInv(h) /\ RowInv(h, Waived)
           /\ pkt[h] \in Packet /\ pkt[h].mac \in Mac
           /\ ~stale[h] /\ deny \subseteq Squatted \cup Waived
           /\ pc[h] \in Searching => WithoutLease(h)
           /\ pc[h] = "mark" => ip[h] \in Squatted \cup Waived
  <1>1. TypeOK /\ LeaseInv(Waived) /\ StageInv(h) /\ RowInv(h, Waived)
    BY DEF DInv, LeaseInv
  <1>2. pkt[h] \in Packet /\ pkt[h].mac \in Mac
    BY <1>1 DEF StageInv, Packet
  <1>3. QED
    BY <1>1, <1>2 DEF PingInv, PingStage, Searching, DenyThroughReconfiguration, Waived

\* A client without a lease that is not found either by its hardware address.
LEMMA LookupByMACPing ==
    ASSUME DInv, PingInv, IsFiniteSet(Addr), NEW h \in Handler, LookupByMAC(h),
           UNCHANGED <<provider, revoked>>
    PROVE  Settles(h)
  <1> DEFINE m == pkt[h].mac
             usable == {a \in GetLeaseByMAC(leases, m) : now < leases[a].end}
  <1>1. /\ pc[h] = "bymac" /\ TypeOK /\ pkt[h] \in Packet /\ m \in Mac /\ ~stale[h]
        /\ deny \subseteq Squatted \cup Waived
        /\ UNCHANGED <<leases, now, deny>> /\ Waived' = Waived
    BY PingFacts DEF LookupByMAC, db, Waived, provider
  <1>2. ASSUME NEW a \in usable, Allocated(h, a)
        PROVE  Settles(h)
    <2>1. a \in Addr
      BY DEF GetLeaseByMAC, ActiveFor
    <2>2. pc'[h] \in {"idle", "subnet"} /\ ~stale'[h]
      BY <1>1, <1>2, <2>1, AllocatedFrame, AllocatedFresh DEF Quit, Moved, Fresh
    <2>3. QED
      BY <1>1, <2>2 DEF Settles, Searching
  <1>3. CASE /\ usable = {}
             /\ Goto(h, IF pkt[h].req = NoAddr THEN "pool" ELSE "deny")
             /\ UNCHANGED <<pkt, todo, scanning, lease, client, await, stale>>
    <2>1. \A a \in Addr : ~Live(leases[a], m)
      BY <1>1, <1>3, LastingFound
    <2>2. pc'[h] # "mark" /\ pkt'[h] = pkt[h] /\ ~stale'[h]
      BY <1>1, <1>3 DEF Goto, TypeOK
    <2>3. QED
      BY <1>1, <2>1, <2>2 DEF Settles, WithoutLease
  <1>4. CASE Refuse(h)
    BY <1>1, <1>4, RefuseFrame, RefuseFresh DEF Quit, Fresh, Settles, Searching
  <1>5. QED
    BY <1>2, <1>3, <1>4, Zenon DEF LookupByMAC

\* Trying one address after the other.
LEMMA SearchPing ==
    ASSUME DInv, PingInv, NEW h \in Handler, UNCHANGED <<provider, revoked>>,
           ReadPool(h) \/ CheckDeny(h) \/ CheckRow(h) \/ MarkMartian(h)
    PROVE  Settles(h)
  <1>1. /\ pc[h] \in Searching /\ TypeOK /\ pkt[h] \in Packet /\ ~stale[h] /\ WithoutLease(h)
        /\ UNCHANGED <<leases, now>> /\ Waived' = Waived
    BY PingFacts DEF ReadPool, CheckDeny, CheckRow, MarkMartian, db, Waived, provider, Searching
  <1>2. deny' \subseteq Squatted \cup Waived
    BY PingFacts DEF ReadPool, CheckDeny, CheckRow, MarkMartian, db, AddDenyAddress, Searching
  <1>3. CASE Scan(h, cache.pool)
    <2>1. cache.pool \in Seq(Addr)
      BY <1>1 DEF TypeOK, Cache
    <2>2. pc'[h] = "idle" \/ (pc'[h] = "deny" /\ pkt'[h] = pkt[h])
      BY <1>1, <1>3, <2>1, ScanFrame DEF Quit, Moved
    <2>3. ~stale'[h]
      BY <1>1, <1>3, ScanFresh DEF Fresh
    <2>4. QED
      BY <1>1, <1>2, <2>2, <2>3 DEF Settles, Searching
  <1>4. CASE NextCandidate(h)
    <2>1. pc'[h] = "idle" \/ (pc'[h] \in {"deny", "pool"} /\ pkt'[h] = pkt[h])
      BY <1>1, <1>4, NextCandidateFrame DEF Quit, Moved
    <2>2. ~stale'[h]
      BY <1>1, <1>4, NextCandidateFresh DEF Fresh
    <2>3. QED
      BY <1>1, <1>2, <2>1, <2>2 DEF Settles, Searching
  <1>5. CASE /\ Goto(h, "row") \/ Goto(h, "ping")
             /\ UNCHANGED <<locals, client, await, stale>>
    <2>1. pc'[h] \in {"row", "ping"} /\ pkt'[h] = pkt[h] /\ ~stale'[h]
      BY <1>1, <1>5 DEF Goto, locals, TypeOK
    <2>2. QED
      BY <1>1, <1>2, <2>1 DEF Settles
  <1>6. QED
    BY <1>3, <1>4, <1>5 DEF ReadPool, CheckDeny, CheckRow, MarkMartian

\* A client that answers has the lease the row tells of, and isIPAvailable let only
\* that client pass: but it has none.
LEMMA PingAnsweredPing ==
    ASSUME DInv, PingInv, PingRetries > 0, NEW h \in Handler, PingAnswered(h),
           UNCHANGED <<provider, revoked>>
    PROVE  Settles(h)
  <1> DEFINE m == pkt[h].mac
             x == ip[h]
  <1>1. /\ pc[h] = "ping" /\ TypeOK /\ LeaseInv(Waived) /\ RowInv(h, Waived) /\ ~stale[h]
        /\ WithoutLease(h) /\ x \in Addr /\ deny \subseteq Squatted \cup Waived
        /\ UNCHANGED <<leases, now, deny, pkt, ip, stale>> /\ Waived' = Waived /\ pc'[h] = "mark"
    BY PingFacts DEF PingAnswered, db, locals, StageInv, Decided, Goto, TypeOK, Waived, provider,
                     Searching
  <1>2. x \in Answering
    BY TimeAssumption DEF PingAnswered
  <1>3. ASSUME NEW n \in Mac, Holds(n, x), x \notin Waived
        PROVE  FALSE
    <2>1. leases[x].state = "active" /\ leases[x].mac = n /\ leases[x].end >= client[n].end
      BY <1>1, <1>3 DEF LeaseInv, ClientInv
    <2>2. now < client[n].end /\ now \in Nat /\ client[n].end \in Nat /\ leases[x].end \in Nat
      BY <1>1, <1>3, <2>1 DEF Holds, TypeOK, Client, Table, Row, NoRow
    <2>3. leases[x].mac = m
      BY <1>1, <1>3, <2>1, <2>2 DEF RowInv, Granting, Decided
    <2>4. Live(leases[x], m)
      BY <2>1, <2>2, <2>3 DEF Live
    <2>5. QED
      BY <1>1, <1>3, <2>4 DEF WithoutLease
  <1>4. x \in Squatted \cup Waived
    BY <1>2, <1>3 DEF Answering
  <1>5. QED
    BY <1>1, <1>4 DEF Settles

\* Once an address is chosen, and as packets come, nothing is marked.
LEMMA ServePing ==
    ASSUME DInv, PingInv, NEW h \in Handler, UNCHANGED <<provider, revoked>>,
           \/ CheckStatic(h) \/ PingSilent(h) \/ FindSubnet(h) \/ CheckKind(h) \/ LookupRow(h)
           \/ InsertLease(h) \/ OverwriteLease(h) \/ SendReply(h)
           \/ ReadForRelease(h) \/ WriteRelease(h) \/ Arrival(h)
    PROVE  Settles(h)
  <1>1. TypeOK /\ ~stale[h] /\ deny \subseteq Squatted \cup Waived /\ pc[h] \in PC
    BY DEF DInv, LeaseInv, TypeOK, PingInv, PingStage, DenyThroughReconfiguration, Waived
  <1>2. raced \subseteq raced' /\ deny' = deny
    BY DEF CheckStatic, PingSilent, FindSubnet, CheckKind, LookupRow, InsertLease, Stored,
           OverwriteLease, SendReply, ReadForRelease, WriteRelease, Arrival, Receive,
           ReceiveDiscover, ReceiveRequest, ReceiveRelease, ReceiveBootP, ReceiveUnserved, db
  <1>3. Waived \subseteq Waived'
    BY <1>2 DEF Waived, provider
  <1>4. SUFFICES pc'[h] \notin Searching /\ ~stale'[h]
    BY <1>1, <1>2, <1>3 DEF Settles, Searching
  <1>5. CASE Done(h)
    BY <1>1, <1>5, DoneFresh DEF Done, Goto, TypeOK, Fresh, Searching
  <1>6. CASE Refuse(h)
    BY <1>1, <1>6, DoneFresh DEF Refuse, Done, Goto, TypeOK, Fresh, Searching
  <1>7. CASE \E a : Allocated(h, a)
    <2>1. PICK a : Allocated(h, a)
      BY <1>7
    <2>2. CASE Refuse(h)
      BY <1>6, <2>2
    <2>3. CASE Goto(h, "subnet") /\ stale' = stale
      BY <1>1, <2>3 DEF Goto, TypeOK, Searching
    <2>4. QED
      BY <2>1, <2>2, <2>3 DEF Allocated
  <1>8. CASE \E label \in {"static", "bymac", "kind", "lookup", "add", "update", "relread",
                           "relwrite"} : Goto(h, label) /\ stale' = stale
    BY <1>1, <1>8 DEF Goto, TypeOK, Searching
  <1>9. CASE Stored(h)
    BY <1>1, <1>9 DEF Stored, Goto, TypeOK, Searching
  <1>10. CASE Arrival(h)
    <2>1. \/ pc' = pc /\ pc[h] = "idle"
          \/ Goto(h, "static") \/ Goto(h, "relread")
      BY <1>10 DEF Arrival, Receive, ReceiveDiscover, ReceiveRequest, ReceiveRelease,
                   ReceiveBootP, ReceiveUnserved
    <2>2. stale' = stale
      BY <1>10 DEF Arrival, Receive, ReceiveDiscover, ReceiveRequest, ReceiveRelease,
                   ReceiveBootP, ReceiveUnserved
    <2>3. QED
      BY <1>1, <2>1, <2>2 DEF Goto, TypeOK, Searching
  <1>11. CASE CheckStatic(h) \/ PingSilent(h)
    BY <1>6, <1>7, <1>8, <1>11 DEF CheckStatic, PingSilent
  <1>12. CASE FindSubnet(h) \/ CheckKind(h) \/ LookupRow(h)
    BY <1>5, <1>6, <1>8, <1>12 DEF FindSubnet, CheckKind, LookupRow
  <1>13. CASE InsertLease(h) \/ OverwriteLease(h) \/ SendReply(h)
    BY <1>5, <1>6, <1>9, <1>13 DEF InsertLease, OverwriteLease, SendReply
  <1>14. CASE ReadForRelease(h) \/ WriteRelease(h)
    BY <1>5, <1>6, <1>8, <1>14 DEF ReadForRelease, WriteRelease
  <1>15. QED
    BY <1>10, <1>11, <1>12, <1>13, <1>14


LEMMA PingNext ==
    ASSUME \A g, h \in Handler : g = h, PingRetries > 0, IsFiniteSet(Addr)
    PROVE  DInv /\ PingInv /\ [DNext]_dvars => PingInv'
  <1> SUFFICES ASSUME DInv, PingInv, [DNext]_dvars PROVE PingInv'
    OBVIOUS
  <1>1. now \in Nat
    BY DEF DInv, LeaseInv, TypeOK
  <1>2. ASSUME NEW h \in Handler, Arrival(h) \/ Step(h), UNCHANGED <<provider, admin, revoked>>
        PROVE  PingInv'
    <2>1. Handler = {h}
      OBVIOUS
    <2>2. Settles(h)
      BY <1>2, LookupByMACPing, SearchPing, PingAnsweredPing, ServePing DEF Step
    <2>3. QED
      BY <2>1, <2>2, SettledPing
  <1>3. CASE Tick /\ UNCHANGED <<provider, admin, revoked>>
    <2>1. /\ UNCHANGED <<leases, deny, pc, pkt, ip, stale>> /\ Waived' = Waived
          /\ now' = now + 1
      BY <1>3 DEF Tick, db, locals, history, Waived, provider
    <2>2. QED
      BY <1>1, <2>1, PingElsewhere
  <1>4. CASE UNCHANGED dvars
    <2>1. UNCHANGED <<leases, deny, pc, pkt, ip, stale, now>> /\ Waived' = Waived
      BY <1>4 DEF dvars, vars, Waived, provider
    <2>2. QED
      BY <1>1, <2>1, PingElsewhere
  <1>5. CASE AdminStep
    BY <1>5, PingRequest
  <1>6. CASE Restart
    BY <1>6, PingRestart
  <1>7. QED
    BY <1>2, <1>3, <1>4, <1>5, <1>6 DEF DNext, Next

\* PingInv is inductive relative to DInv: with one handler at a time, that pings.
THEOREM PingInvariance ==
    ASSUME \A g, h \in Handler : g = h, PingRetries > 0, IsFiniteSet(Addr)
    PROVE  DSpec => []PingInv
  <1>1. DInit => PingInv
    BY DEF DInit, Init, PingInv, PingStage, DenyThroughReconfiguration
  <1>2. DInv /\ PingInv /\ [DNext]_dvars => PingInv'
    BY PingNext
  <1>3. QED
    BY <1>1, <1>2, DaemonInvariance, PTL DEF DSpec

\* pingCheck denies no address that a client has from this server, whatever static
\* hosts the API adds, moves and removes meanwhile and however often the daemon is
\* restarted, when packets are handled one at a time and ping_retries is positive.
THEOREM ReconfigurationDeniesSquatters ==
    ASSUME \A g, h \in Handler : g = h, PingRetries > 0, IsFiniteSet(Addr)
    PROVE  DSpec => []DenyThroughReconfiguration
  <1>1. PingInv => DenyThroughReconfiguration
    BY DEF PingInv
  <1>2. QED
    BY <1>1, PingInvariance, PTL
=============================================================================
