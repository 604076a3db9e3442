------------------------- MODULE ConfigAdmin_proofs -------------------------
(***************************************************************************)
(* Proofs about ConfigAdmin: for any number of requests, whatever fails,   *)
(* its types and NoGhostReservation; for requests that do not overlap,     *)
(* CacheFresh and Reserved.                                                *)
(*                                                                         *)
(* A step of request r leaves the other requests as they are (Others).     *)
(* GhostKept says when such a step keeps GhostInv(m): if m keeps no new    *)
(* address, and r brings m's reservation in order before it is done.       *)
(***************************************************************************)
EXTENDS ConfigAdminInv, TLAPS

(***************************************************************************)
(* Jobs, rows and configurations.                                          *)
(***************************************************************************)
LEMMA HostJobs ==
    ASSUME NEW j \in HostJob
    PROVE  /\ j.kind = "hosts" /\ j.key \in Host /\ j.key \in Mac
           /\ j.op \in {"add", "update", "delete"}
           /\ j.op = "delete" => j.val = NoAddr
           /\ j.op # "delete" => j.val \in Addr
           /\ j.val \in Addr \cup {NoAddr}
  BY PartiesAssumption DEF HostJob

LEMMA NetJobs ==
    ASSUME NEW j \in NetJob
    PROVE  /\ j.kind = "nets" /\ j.key \in Net /\ j.val \in Settings \cup {NoAddr}
  BY DEF NetJob

\* Store writes one entry.
LEMMA StoredConfig ==
    ASSUME store \in Config, NEW j \in HostJob \cup NetJob,
           store' = [store EXCEPT ![j.kind][j.key] = j.val]
    PROVE  /\ store' \in Config
           /\ j \in HostJob
                => store'.hosts[j.key] = j.val
           /\ \A m \in Mac : ~(j \in HostJob /\ j.key = m) => store'.hosts[m] = store.hosts[m]
  <1>1. CASE j \in HostJob
    <2>1. store' = [store EXCEPT !.hosts = [store.hosts EXCEPT ![j.key] = j.val]]
      BY <1>1, HostJobs DEF Config
    <2>2. [store.hosts EXCEPT ![j.key] = j.val] \in [Mac -> Addr \cup {NoAddr}]
      BY <1>1, HostJobs DEF Config
    <2>3. store' = [nets |-> store.nets, hosts |-> [store.hosts EXCEPT ![j.key] = j.val]]
      BY <2>1 DEF Config
    <2>4. store' \in Config
      BY <2>2, <2>3 DEF Config
    <2>5. store.hosts \in [Mac -> Addr \cup {NoAddr}] /\ j.key \in Mac
      BY <1>1, HostJobs DEF Config
    <2>6. QED
      BY <1>1, <2>3, <2>4, <2>5
  <1>2. CASE j \in NetJob
    <2>1. store' = [store EXCEPT !.nets = [store.nets EXCEPT ![j.key] = j.val]]
      BY <1>2, NetJobs DEF Config
    <2>2. [store.nets EXCEPT ![j.key] = j.val] \in [Net -> Settings \cup {NoAddr}]
      BY <1>2, NetJobs DEF Config
    <2>3. store' = [nets |-> [store.nets EXCEPT ![j.key] = j.val], hosts |-> store.hosts]
      BY <2>1 DEF Config
    <2>4. store' \in Config
      BY <2>2, <2>3 DEF Config
    <2>5. j \notin HostJob
      BY <1>2, HostJobs, NetJobs
    <2>6. QED
      BY <2>3, <2>4, <2>5
  <1>3. QED
    BY <1>1, <1>2

LEMMA UpdatedRow ==
    ASSUME NEW t \in Table, NEW b \in Addr, NEW x \in Row
    PROVE  /\ UpdateLease(t, b, x) \in Table
           /\ \A a \in Addr \ {b} : UpdateLease(t, b, x)[a] = t[a]
           /\ HasRow(t, b) => /\ UpdateLease(t, b, x)[b].mac = x.mac
                              /\ UpdateLease(t, b, x)[b].end = x.end
                              /\ UpdateLease(t, b, x)[b].state = x.state
           /\ ~HasRow(t, b) => UpdateLease(t, b, x) = t
           /\ \A a \in Addr : HasRow(UpdateLease(t, b, x), a) <=> HasRow(t, a)
  <1>1. CASE HasRow(t, b)
    <2>1. t[b] \in Row
      BY <1>1 DEF HasRow, Table
    <2>2. [x EXCEPT !.static = t[b].static] \in Row
      BY <2>1 DEF Row
    <2>3. UpdateLease(t, b, x) = [t EXCEPT ![b] = [x EXCEPT !.static = t[b].static]]
      BY <1>1 DEF UpdateLease
    <2>4. NoRow \notin Row
      BY DEF NoRow, Row
    <2>5. UpdateLease(t, b, x) \in Table
      BY <2>2, <2>3 DEF Table
    <2>6. UpdateLease(t, b, x)[b] = [x EXCEPT !.static = t[b].static]
      BY <2>3 DEF Table
    <2>7. /\ UpdateLease(t, b, x)[b].mac = x.mac
          /\ UpdateLease(t, b, x)[b].end = x.end
          /\ UpdateLease(t, b, x)[b].state = x.state
      BY <2>6 DEF Row
    <2>8. \A a \in Addr \ {b} : UpdateLease(t, b, x)[a] = t[a]
      BY <2>3 DEF Table
    <2>9. QED
      BY <1>1, <2>2, <2>4, <2>5, <2>6, <2>7, <2>8 DEF HasRow
  <1>2. CASE ~HasRow(t, b)
    BY <1>2 DEF UpdateLease
  <1>3. QED
    BY <1>1, <1>2

LEMMA AddedRow ==
    ASSUME NEW t \in Table, NEW b \in Addr, NEW x \in Row
    PROVE  /\ AddLease(t, b, x) \in Table
           /\ \A a \in Addr \ {b} : AddLease(t, b, x)[a] = t[a]
           /\ AddLease(t, b, x)[b] = x
           /\ \A a \in Addr : HasRow(t, a) => HasRow(AddLease(t, b, x), a)
  BY DEF AddLease, Table, HasRow, Row, NoRow

LEMMA SeededRows ==
    ASSUME TypeOK, NEW m \in Mac
    PROVE  SeededRow(m) \in Row /\ SeededRow(m).mac = m /\ Permanent(SeededRow(m))
  BY TimesAssumption DEF TypeOK, SeededRow, Row, Permanent

LEMMA ExpiredRow ==
    ASSUME TypeOK, NEW a \in Addr, HasRow(leases, a)
    PROVE  LET x == [leases[a] EXCEPT !.state = "expired", !.end = now]
           IN  x \in Row /\ x.mac = leases[a].mac /\ x.state = "expired"
  <1>1. leases[a] \in Row
    BY DEF TypeOK, Table, HasRow
  <1>2. QED
    BY <1>1 DEF TypeOK, Row

LEMMA FoundLease ==
    ASSUME TypeOK, NEW m, NEW a \in GetLeaseByMAC(leases, m)
    PROVE  /\ a \in Addr /\ HasRow(leases, a)
           /\ leases[a].mac = m /\ leases[a].state = "active"
           /\ \A b \in Addr : leases[b].state = "active" /\ leases[b].mac = m
                                => leases[b].end <= leases[a].end
  BY DEF GetLeaseByMAC, ActiveFor, HasRow, NoRow

(***************************************************************************)
(* The initial states.                                                     *)
(***************************************************************************)
LEMMA InitInv == Init => IInv
  <1> SUFFICES ASSUME Init PROVE IInv
    OBVIOUS
  <1>1. EmptyConfig \in Config
    BY DEF EmptyConfig, Config
  <1>2. leases \in Table
    BY DEF Init, Table
  <1>3. TypeOK
    BY <1>1, <1>2 DEF Init, TypeOK, PC
  <1>4. \A r \in Request : RequestInv(r)
    BY DEF Init, RequestInv
  <1>5. \A m \in Mac, a \in Addr : ~Keeps(m, a)
    BY DEF Init, Keeps, Permanent, NoRow
  <1>6. \A m \in Mac : GhostInv(m)
    BY <1>5 DEF Init, GhostInv, Working, Committed
  <1>7. Doubled(store) = {}
    BY NullAssumption DEF Init, Doubled, EmptyConfig
  <1>8. QED
    BY <1>3, <1>4, <1>6, <1>7, TimesAssumption DEF Init, IInv

(***************************************************************************)
(* Ways for a request to go on.                                            *)
(***************************************************************************)
LocalTypes ==
    /\ pc \in [Request -> PC]
    /\ job \in [Request -> HostJob \cup NetJob \cup {NoJob}]
    /\ fetched \in [Request -> Config]
    /\ at \in [Request -> Addr \cup {NoAddr}]
    /\ row \in [Request -> Row \cup {NoRow}]

Others(r) ==
    \A q \in Request \ {r} :
        /\ pc'[q] = pc[q] /\ job'[q] = job[q] /\ fetched'[q] = fetched[q]
        /\ at'[q] = at[q] /\ row'[q] = row[q]

Went(r, label) == pc'[r] = label /\ job'[r] = job[r]

LEMMA DoneMove ==
    ASSUME LocalTypes, NEW r \in Request, Done(r)
    PROVE  LocalTypes' /\ Others(r) /\ pc'[r] = "idle" /\ job'[r] = NoJob
  <1>1. EmptyConfig \in Config
    BY DEF EmptyConfig, Config
  <1>2. QED
    BY <1>1 DEF LocalTypes, Others, Done, Goto, Forget, PC

LEMMA ContinueMove ==
    ASSUME LocalTypes, NEW r \in Request, NEW label \in PC, Continue(r, label)
    PROVE  LocalTypes' /\ Others(r) /\ Went(r, label)
  <1>1. EmptyConfig \in Config
    BY DEF EmptyConfig, Config
  <1>2. QED
    BY <1>1 DEF LocalTypes, Others, Went, Continue, Goto

LEMMA AfterRefreshMove ==
    ASSUME LocalTypes, NEW r \in Request, job[r] \in HostJob \cup NetJob, AfterRefresh(r)
    PROVE  /\ LocalTypes' /\ Others(r)
           /\ \/ job[r] \in NetJob /\ pc'[r] = "idle" /\ job'[r] = NoJob
              \/ job[r] \in HostJob /\ job[r].op = "add" /\ Went(r, "lookup")
              \/ job[r] \in HostJob /\ job[r].op # "add" /\ Went(r, "find")
  <1>1. CASE job[r] \in NetJob
    BY <1>1, NetJobs, DoneMove DEF AfterRefresh
  <1>2. CASE job[r] \in HostJob /\ job[r].op = "add"
    <2>1. Continue(r, "lookup")
      BY <1>2, HostJobs DEF AfterRefresh
    <2>2. QED
      BY <1>2, <2>1, ContinueMove DEF PC
  <1>3. CASE job[r] \in HostJob /\ job[r].op # "add"
    <2>1. Continue(r, "find")
      BY <1>3, HostJobs DEF AfterRefresh
    <2>2. QED
      BY <1>3, <2>1, ContinueMove DEF PC
  <1>4. QED
    BY <1>1, <1>2, <1>3

LEMMA AfterRevokeMove ==
    ASSUME LocalTypes, NEW r \in Request, job[r] \in HostJob, job[r].op # "add",
           AfterRevoke(r)
    PROVE  /\ LocalTypes' /\ Others(r)
           /\ \/ job[r].op = "delete" /\ pc'[r] = "idle" /\ job'[r] = NoJob
              \/ job[r].op = "update" /\ Went(r, "lookup")
  <1>1. CASE job[r].op = "delete"
    BY <1>1, DoneMove DEF AfterRevoke
  <1>2. CASE job[r].op # "delete"
    <2>1. job[r].op = "update" /\ Continue(r, "lookup")
      BY <1>2, HostJobs DEF AfterRevoke
    <2>2. QED
      BY <2>1, ContinueMove DEF PC
  <1>3. QED
    BY <1>1, <1>2

(***************************************************************************)
(* Types, and what a request knows.                                        *)
(***************************************************************************)
LEMMA AtWork ==
    ASSUME IInv, NEW r \in Request
    PROVE  /\ LocalTypes
           /\ pc[r] # "idle" => up /\ job[r] \in HostJob \cup NetJob
           /\ pc[r] # "idle" /\ job[r].kind = "hosts" => job[r] \in HostJob
           /\ \A m : Working(r, m) => job[r] \in HostJob /\ job[r].key = m
  <1>1. LocalTypes
    BY DEF IInv, TypeOK, LocalTypes
  <1>2. RequestInv(r)
    BY DEF IInv
  <1>3. up \in BOOLEAN
    BY DEF IInv, TypeOK
  <1>4. pc[r] # "idle" => up /\ job[r] \in HostJob \cup NetJob
    BY <1>2, <1>3 DEF RequestInv
  <1>5. pc[r] # "idle" /\ job[r].kind = "hosts" => job[r] \in HostJob
    BY <1>4, NetJobs
  <1>6. QED
    BY <1>1, <1>4, <1>5 DEF Working, Committed

LEMMA Broken ==
    ASSUME IInv, NEW r \in Request, pc[r] # "idle", NEW is \in BOOLEAN, Break(r, is)
    PROVE  /\ broken' \in SUBSET Mac /\ broken \subseteq broken'
           /\ is /\ job[r] \in HostJob => job[r].key \in broken'
  <1>1. broken \in SUBSET Mac
    BY DEF IInv, TypeOK
  <1>2. CASE job[r] \in HostJob
    BY <1>1, <1>2, HostJobs DEF Break
  <1>3. CASE job[r] \notin HostJob
    BY <1>1, <1>3, AtWork DEF Break
  <1>4. QED
    BY <1>2, <1>3

\* The tables and the daemon, which few steps change.
GlobalTypes ==
    /\ store \in Config /\ cache \in Config
    /\ leases \in Table
    /\ now \in Nat
    /\ up \in BOOLEAN
    /\ broken \in SUBSET Mac /\ contested \in SUBSET Addr

LEMMA TypesSplit == TypeOK <=> LocalTypes /\ GlobalTypes
  BY DEF TypeOK, LocalTypes, GlobalTypes

LEMMA AcceptStep ==
    ASSUME IInv, NEW r \in Request, NEW j \in HostJob \cup NetJob, Accept(r, j)
    PROVE  /\ LocalTypes' /\ GlobalTypes' /\ Others(r) /\ RequestInv(r)'
           /\ pc'[r] = "write"
  <1>1. LocalTypes /\ GlobalTypes
    BY TypesSplit DEF IInv
  <1>2. LocalTypes' /\ Others(r) /\ pc'[r] = "write" /\ job'[r] = j
    BY <1>1 DEF Accept, Goto, reads, LocalTypes, Others, PC
  <1>3. RequestInv(r)'
    BY <1>2 DEF RequestInv, Accept, daemon
  <1>4. QED
    BY <1>1, <1>2, <1>3 DEF Accept, daemon, history, GlobalTypes

LEMMA RunWriteStep ==
    ASSUME IInv, NEW r \in Request, RunWrite(r)
    PROVE  LocalTypes' /\ GlobalTypes' /\ Others(r) /\ RequestInv(r)'
  <1>1. LocalTypes /\ GlobalTypes /\ up /\ up' /\ job[r] \in HostJob \cup NetJob
    BY TypesSplit, AtWork DEF IInv, RunWrite, daemon
  <1>2. LocalTypes' /\ Others(r) /\ (Went(r, "nets") \/ pc'[r] = "idle")
    BY <1>1, ContinueMove, DoneMove DEF RunWrite, PC
  <1>3. RequestInv(r)'
    BY <1>1, <1>2 DEF RequestInv, Went
  <1>4. store' \in Config /\ contested' \in SUBSET Addr
    <2>1. CASE Store(job[r])
      <3>1. store' \in Config
        BY <1>1, <2>1, StoredConfig DEF Store, GlobalTypes
      <3>2. QED
        BY <1>1, <2>1, <3>1 DEF Store, GlobalTypes, Doubled
    <2>2. QED
      BY <1>1, <2>1 DEF RunWrite, history, GlobalTypes
  <1>5. broken' \in SUBSET Mac
    <2>1. Overlaps(r) \in BOOLEAN
      BY DEF Overlaps
    <2>2. QED
      BY <1>1, <2>1, Broken DEF RunWrite, history, GlobalTypes
  <1>6. QED
    BY <1>1, <1>2, <1>3, <1>4, <1>5 DEF RunWrite, daemon, GlobalTypes

LEMMA FetchStep ==
    ASSUME IInv, NEW r \in Request, FetchSubnets(r) \/ FetchStaticHosts(r)
    PROVE  LocalTypes' /\ GlobalTypes' /\ Others(r) /\ RequestInv(r)'
  <1>1. LocalTypes /\ GlobalTypes /\ up /\ up' /\ job[r] \in HostJob \cup NetJob
    BY TypesSplit, AtWork DEF IInv, FetchSubnets, FetchStaticHosts, daemon
  <1>2. store \in Config /\ fetched[r] \in Config
    BY <1>1 DEF GlobalTypes, LocalTypes
  <1>3. [fetched[r] EXCEPT !.nets = store.nets] \in Config
    BY <1>2 DEF Config
  <1>4. [fetched[r] EXCEPT !.hosts = store.hosts] \in Config
    BY <1>2 DEF Config
  <1>5. CASE AfterRefresh(r)
    <2>1. LocalTypes' /\ Others(r)
      BY <1>1, <1>5, AfterRefreshMove
    <2>2. \/ pc'[r] = "idle"
          \/ job[r] \in HostJob /\ job[r].op = "add" /\ Went(r, "lookup")
          \/ job[r] \in HostJob /\ job[r].op # "add" /\ Went(r, "find")
      BY <1>1, <1>5, AfterRefreshMove
    <2>3. RequestInv(r)'
      BY <1>1, <2>2 DEF RequestInv, Went
    <2>4. QED
      BY <1>1, <2>1, <2>3 DEF FetchSubnets, FetchStaticHosts, daemon, history, GlobalTypes
  <1>6. CASE ~AfterRefresh(r)
    <2>1. \E c \in Config : fetched' = [fetched EXCEPT ![r] = c]
      BY <1>3, <1>4, <1>6 DEF FetchSubnets, FetchStaticHosts
    <2>2. LocalTypes' /\ Others(r) /\ (Went(r, "hosts") \/ Went(r, "install"))
      BY <1>1, <1>6, <2>1 DEF FetchSubnets, FetchStaticHosts, Goto, LocalTypes, Others, Went, PC
    <2>3. RequestInv(r)'
      BY <1>1, <2>2 DEF RequestInv, Went
    <2>4. QED
      BY <1>1, <2>2, <2>3 DEF FetchSubnets, FetchStaticHosts, daemon, history, GlobalTypes
  <1>7. QED
    BY <1>5, <1>6

LEMMA InstallStep ==
    ASSUME IInv, NEW r \in Request, Install(r)
    PROVE  LocalTypes' /\ GlobalTypes' /\ Others(r) /\ RequestInv(r)'
  <1>1. LocalTypes /\ GlobalTypes /\ up /\ up' /\ job[r] \in HostJob \cup NetJob
    BY TypesSplit, AtWork DEF IInv, Install
  <1>2. LocalTypes' /\ Others(r)
    BY <1>1, AfterRefreshMove DEF Install
  <1>3. \/ pc'[r] = "idle"
        \/ job[r] \in HostJob /\ job[r].op = "add" /\ Went(r, "lookup")
        \/ job[r] \in HostJob /\ job[r].op # "add" /\ Went(r, "find")
    BY <1>1, AfterRefreshMove DEF Install
  <1>4. RequestInv(r)'
    BY <1>1, <1>3 DEF RequestInv, Went
  <1>5. QED
    BY <1>1, <1>2, <1>4 DEF Install, Load, history, GlobalTypes, LocalTypes

LEMMA FindLeaseStep ==
    ASSUME IInv, NEW r \in Request, FindLease(r)
    PROVE  LocalTypes' /\ GlobalTypes' /\ Others(r) /\ RequestInv(r)'
  <1>1. /\ TypeOK /\ LocalTypes /\ GlobalTypes /\ up /\ up'
        /\ job[r] \in HostJob /\ job[r].op # "add"
    BY TypesSplit, AtWork DEF IInv, RequestInv, FindLease, daemon
  <1>2. broken' \in SUBSET Mac
    BY <1>1, Broken DEF FindLease, GlobalTypes
  <1>3. GlobalTypes'
    BY <1>1, <1>2 DEF FindLease, daemon, GlobalTypes
  <1>4. CASE AfterRevoke(r)
    <2>1. RequestInv(r)'
      BY <1>1, <1>4, AfterRevokeMove, HostJobs DEF RequestInv, Went
    <2>2. QED
      BY <1>1, <1>3, <1>4, <2>1, AfterRevokeMove
  <1>5. CASE ~AfterRevoke(r)
    <2>1. PICK a \in GetLeaseByMAC(leases, job[r].key) :
            /\ Goto(r, "revoke")
            /\ at' = [at EXCEPT ![r] = a]
            /\ row' = [row EXCEPT ![r] = [leases[a] EXCEPT !.state = "expired", !.end = now]]
            /\ UNCHANGED <<job, fetched, broken>>
      BY <1>5 DEF FindLease
    <2>2. a \in Addr /\ HasRow(leases, a) /\ leases[a].mac = job[r].key
      BY <1>1, FoundLease
    <2> DEFINE x == [leases[a] EXCEPT !.state = "expired", !.end = now]
    <2>3. x \in Row /\ x.mac = job[r].key /\ x.state = "expired"
      BY <1>1, <2>2, ExpiredRow
    <2>4. row' = [row EXCEPT ![r] = x]
      BY <2>1
    <2> HIDE DEF x
    <2>5. LocalTypes' /\ Others(r)
      BY <1>1, <2>1, <2>2, <2>3, <2>4 DEF LocalTypes, Others, Goto, PC
    <2>6. pc'[r] = "revoke" /\ at'[r] = a /\ row'[r] = x /\ job'[r] = job[r]
      BY <1>1, <2>1, <2>4 DEF LocalTypes, Goto
    <2>7. RequestInv(r)'
      BY <1>1, <2>2, <2>3, <2>6 DEF RequestInv
    <2>8. QED
      BY <1>3, <2>5, <2>7
  <1>6. QED
    BY <1>4, <1>5

LEMMA RevokeLeaseStep ==
    ASSUME IInv, NEW r \in Request, RevokeLease(r)
    PROVE  LocalTypes' /\ GlobalTypes' /\ Others(r) /\ RequestInv(r)'
  <1>1. /\ TypeOK /\ LocalTypes /\ GlobalTypes /\ up /\ up'
        /\ job[r] \in HostJob /\ job[r].op # "add"
        /\ at[r] \in Addr /\ row[r] \in Row
    BY TypesSplit, AtWork DEF IInv, RequestInv, RevokeLease, daemon
  <1>2. broken' \in SUBSET Mac
    BY <1>1, Broken DEF RevokeLease, GlobalTypes
  <1>3. leases' \in Table
    <2>1. leases \in Table
      BY <1>1 DEF GlobalTypes
    <2>2. UpdateLease(leases, at[r], row[r]) \in Table
      BY <1>1, <2>1, UpdatedRow
    <2>3. QED
      BY <2>1, <2>2 DEF RevokeLease
  <1>4. GlobalTypes'
    BY <1>1, <1>2, <1>3 DEF RevokeLease, daemon, GlobalTypes
  <1>5. RequestInv(r)'
    BY <1>1, AfterRevokeMove, HostJobs DEF RequestInv, Went, RevokeLease
  <1>6. QED
    BY <1>1, <1>4, <1>5, AfterRevokeMove DEF RevokeLease

LEMMA LookupAddressStep ==
    ASSUME IInv, NEW r \in Request, LookupAddress(r)
    PROVE  LocalTypes' /\ GlobalTypes' /\ Others(r) /\ RequestInv(r)'
  <1>1. /\ TypeOK /\ LocalTypes /\ GlobalTypes /\ up /\ up'
        /\ job[r] \in HostJob /\ job[r].op # "delete" /\ pc[r] = "lookup"
    BY TypesSplit, AtWork DEF IInv, RequestInv, LookupAddress, daemon
  <1>2. GlobalTypes'
    BY <1>1 DEF LookupAddress, daemon, history, GlobalTypes
  <1>3. CASE Done(r)
    BY <1>1, <1>2, <1>3, DoneMove DEF RequestInv
  <1>4. CASE ~Done(r)
    <2>1. /\ job[r].val \in Addr /\ SeededRow(job[r].key) \in Row
          /\ SeededRow(job[r].key).mac = job[r].key /\ Permanent(SeededRow(job[r].key))
      BY <1>1, HostJobs, SeededRows
    <2>2. /\ pc' = [pc EXCEPT ![r] = IF HasRow(leases, job[r].val)
                                     THEN "overwrite" ELSE "insert"]
          /\ at' = [at EXCEPT ![r] = job[r].val]
          /\ row' = [row EXCEPT ![r] = SeededRow(job[r].key)]
          /\ UNCHANGED <<job, fetched>>
      BY <1>4 DEF LookupAddress, Goto
    <2>3. LocalTypes' /\ Others(r)
      BY <1>1, <2>1, <2>2 DEF LocalTypes, Others, PC
    <2>4. /\ pc'[r] \in {"insert", "overwrite"} /\ job'[r] = job[r]
          /\ at'[r] = job[r].val /\ row'[r] = SeededRow(job[r].key)
      BY <1>1, <2>2 DEF LocalTypes
    <2>5. RequestInv(r)'
      BY <1>1, <2>1, <2>4 DEF RequestInv, Permanent
    <2>6. QED
      BY <1>2, <2>3, <2>5
  <1>5. QED
    BY <1>3, <1>4

LEMMA SeedStep ==
    ASSUME IInv, NEW r \in Request, InsertSeed(r) \/ OverwriteSeed(r)
    PROVE  /\ LocalTypes' /\ GlobalTypes' /\ Others(r) /\ RequestInv(r)'
           /\ pc'[r] = "idle"
  <1>1. /\ LocalTypes /\ GlobalTypes /\ up /\ up' /\ Done(r)
        /\ job[r] \in HostJob /\ at[r] \in Addr /\ row[r] \in Row
    BY TypesSplit, AtWork, HostJobs
    DEF IInv, RequestInv, InsertSeed, OverwriteSeed, daemon
  <1>2. leases' \in Table
    BY <1>1, UpdatedRow, AddedRow DEF InsertSeed, OverwriteSeed, GlobalTypes
  <1>3. GlobalTypes'
    BY <1>1, <1>2 DEF InsertSeed, OverwriteSeed, daemon, history, GlobalTypes
  <1>4. QED
    BY <1>1, <1>3, DoneMove DEF RequestInv

\* A step of a request leaves what the others know as it is.
LEMMA StepTypes ==
    ASSUME IInv, NEW r \in Request, Step(r)
    PROVE  /\ TypeOK' /\ Others(r)
           /\ \A q \in Request : RequestInv(q)'
           /\ now' = now /\ up' = up
  <1>1. LocalTypes' /\ GlobalTypes' /\ Others(r) /\ RequestInv(r)'
    BY AcceptStep, RunWriteStep, FetchStep, InstallStep, FindLeaseStep, RevokeLeaseStep,
       LookupAddressStep, SeedStep DEF Step
  <1>2. now' = now /\ up' = up
    BY DEF Step, Accept, RunWrite, FetchSubnets, FetchStaticHosts, Install, FindLease,
           RevokeLease, LookupAddress, InsertSeed, OverwriteSeed, daemon
  <1>3. \A q \in Request \ {r} : RequestInv(q)'
    <2> SUFFICES ASSUME NEW q \in Request \ {r} PROVE RequestInv(q)'
      OBVIOUS
    <2>1. RequestInv(q)
      BY DEF IInv
    <2>2. pc'[q] = pc[q] /\ job'[q] = job[q] /\ at'[q] = at[q] /\ row'[q] = row[q]
      BY <1>1 DEF Others
    <2>3. QED
      BY <1>2, <2>1, <2>2 DEF RequestInv, Permanent
  <1>4. TypeOK'
    BY <1>1 DEF TypeOK, LocalTypes, GlobalTypes
  <1>5. QED
    BY <1>1, <1>2, <1>3, <1>4

(***************************************************************************)
(* GhostInv.                                                               *)
(***************************************************************************)
LEMMA GhostKept ==
    ASSUME NEW r \in Request, NEW m \in Mac, GhostInv(m), Others(r),
           broken \subseteq broken', store'.hosts[m] = store.hosts[m],
           ~Working(r, m) => /\ ~Working(r, m)'
                             /\ \A a \in Addr : Keeps(m, a)' => Keeps(m, a),
           m \notin broken' /\ Working(r, m) =>
               IF Working(r, m)' THEN OneAtWork(r, m)'
               ELSE \A a \in Addr : Keeps(m, a)' => store.hosts[m] = a
    PROVE  GhostInv(m)'
  <1> SUFFICES ASSUME m \notin broken' PROVE GhostInv(m)'
    BY DEF GhostInv
  <1>1. m \notin broken
    OBVIOUS
  <1>2. \A q \in Request \ {r} : Working(q, m)' <=> Working(q, m)
    BY DEF Others, Working, Committed
  <1>3. CASE Working(r, m)
    <2>1. \A q \in Request \ {r} : ~Working(q, m)'
      BY <1>1, <1>2, <1>3 DEF GhostInv
    <2>2. CASE Working(r, m)'
      BY <1>3, <2>1, <2>2 DEF GhostInv
    <2>3. CASE ~Working(r, m)'
      <3>1. \A q \in Request : ~Working(q, m)'
        BY <2>1, <2>3
      <3>2. \A a \in Addr : Keeps(m, a)' => store'.hosts[m] = a
        BY <1>3, <2>3
      <3>3. QED
        BY <3>1, <3>2 DEF GhostInv
    <2>4. QED
      BY <2>2, <2>3
  <1>4. CASE ~Working(r, m)
    <2>1. ~Working(r, m)' /\ \A a \in Addr : Keeps(m, a)' => Keeps(m, a)
      BY <1>4
    <2>2. \A q \in Request : Working(q, m)' => q # r /\ Working(q, m)
      BY <1>2, <2>1
    <2>3. ASSUME NEW q \in Request, Working(q, m)' PROVE OneAtWork(q, m)'
      <3>1. q # r /\ OneAtWork(q, m)
        BY <1>1, <2>2, <2>3 DEF GhostInv
      <3>2. pc'[q] = pc[q] /\ job'[q] = job[q] /\ at'[q] = at[q]
        BY <3>1 DEF Others
      <3>3. QED
        BY <2>1, <3>1, <3>2 DEF OneAtWork
    <2>4. (\A q \in Request : ~Working(q, m)') => \A q \in Request : ~Working(q, m)
      BY <1>2, <1>4
    <2>5. (\A q \in Request : ~Working(q, m)')
             => \A a \in Addr : Keeps(m, a)' => store'.hosts[m] = a
      BY <1>1, <2>1, <2>4 DEF GhostInv
    <2>6. \A p, q \in Request : Working(p, m)' /\ Working(q, m)' => p = q
      BY <1>1, <2>2 DEF GhostInv
    <2>7. QED
      BY <2>3, <2>5, <2>6 DEF GhostInv
  <1>5. QED
    BY <1>3, <1>4

LEMMA GhostStill ==
    ASSUME NEW m \in Mac, GhostInv(m), UNCHANGED <<pc, job, at>>,
           broken \subseteq broken', store'.hosts[m] = store.hosts[m],
           \A a \in Addr : Keeps(m, a)' => Keeps(m, a)
    PROVE  GhostInv(m)'
  <1> SUFFICES ASSUME m \notin broken' PROVE GhostInv(m)'
    BY DEF GhostInv
  <1>1. m \notin broken
    OBVIOUS
  <1>2. \A q \in Request : Working(q, m)' <=> Working(q, m)
    BY DEF Working, Committed
  <1>3. \A q \in Request : OneAtWork(q, m) => OneAtWork(q, m)'
    BY DEF OneAtWork
  <1>4. QED
    BY <1>1, <1>2, <1>3 DEF GhostInv

LEMMA GhostAccept ==
    ASSUME IInv, NEW r \in Request, NEW j \in HostJob \cup NetJob, Accept(r, j),
           NEW m \in Mac
    PROVE  GhostInv(m)'
  <1>1. GhostInv(m) /\ Others(r) /\ pc'[r] = "write"
    BY AcceptStep DEF IInv
  <1>2. ~Working(r, m) /\ ~Working(r, m)'
    BY <1>1 DEF Working, Committed, Accept
  <1>3. broken' = broken /\ store' = store /\ leases' = leases
    BY DEF Accept, history
  <1>4. \A a \in Addr : Keeps(m, a)' => Keeps(m, a)
    BY <1>3 DEF Keeps
  <1>5. QED
    BY <1>1, <1>2, <1>3, <1>4, GhostKept

LEMMA GhostRunWrite ==
    ASSUME IInv, NEW r \in Request, RunWrite(r), NEW m \in Mac
    PROVE  GhostInv(m)'
  <1>1. /\ GhostInv(m) /\ Others(r) /\ LocalTypes /\ store \in Config
        /\ job[r] \in HostJob \cup NetJob
        /\ pc[r] = "write" /\ leases' = leases
    BY RunWriteStep, AtWork DEF IInv, TypeOK, RunWrite
  <1>2. ~Working(r, m)
    BY <1>1 DEF Working, Committed
  <1>3. \A a \in Addr : Keeps(m, a)' => Keeps(m, a)
    BY <1>1 DEF Keeps
  <1>4. pc[r] # "idle" /\ Overlaps(r) \in BOOLEAN
    BY <1>1 DEF Overlaps
  <1>5. broken \subseteq broken'
    BY <1>4, Broken DEF RunWrite, history
  <1>6. CASE Done(r) /\ store' = store
    <2>1. ~Working(r, m)'
      BY <1>1, <1>6, DoneMove DEF Working, Committed
    <2>2. QED
      BY <1>1, <1>2, <1>3, <1>5, <1>6, <2>1, GhostKept
  <1>7. CASE Store(job[r]) /\ ~(job[r] \in HostJob /\ job[r].key = m)
    <2>1. store'.hosts[m] = store.hosts[m]
      BY <1>1, <1>7, StoredConfig DEF Store
    <2>2. pc'[r] = "idle" \/ job'[r] = job[r]
      BY <1>1, ContinueMove, DoneMove DEF RunWrite, Went, PC
    <2>3. ~Working(r, m)'
      BY <1>1, <1>7, <2>2, NetJobs DEF Working, Committed
    <2>4. QED
      BY <1>1, <1>2, <1>3, <1>5, <2>1, <2>3, GhostKept
  <1>8. CASE Done(r) /\ Break(r, TRUE) /\ job[r] \in HostJob /\ job[r].key = m
    <2>1. m \in broken'
      BY <1>4, <1>8, Broken
    <2>2. QED
      BY <2>1 DEF GhostInv
  <1>9. CASE /\ Store(job[r]) /\ job[r] \in HostJob /\ job[r].key = m
             /\ Applies(job[r]) /\ Continue(r, "nets") /\ Break(r, Overlaps(r))
    <2> SUFFICES ASSUME m \notin broken' PROVE GhostInv(m)'
      BY DEF GhostInv
    <2>1. ~Overlaps(r)
      BY <1>4, <1>9, Broken
    <2>2. m \notin broken
      BY <1>5
    <2>3. \A q \in Request \ {r} : ~Working(q, m)
      BY <1>9, <2>1, HostJobs DEF Overlaps, Working
    <2>4. \A a \in Addr : Keeps(m, a) => store.hosts[m] = a
      BY <1>1, <1>2, <2>2, <2>3 DEF GhostInv
    <2>5. Went(r, "nets")
      BY <1>1, <1>9, ContinueMove DEF PC
    <2>6. store'.hosts[m] = job[r].val
      BY <1>1, <1>9, StoredConfig DEF Store
    <2>7. job[r].op = "add" => \A a \in Addr : ~Keeps(m, a)
      <3>1. job[r].op = "add" => store.hosts[m] = NoAddr
        BY <1>9, HostJobs DEF Applies
      <3>2. QED
        BY <2>4, <3>1, NullAssumption
    <2>8. OneAtWork(r, m)'
      BY <1>3, <2>4, <2>5, <2>6, <2>7 DEF OneAtWork, Went
    <2>9. \A q \in Request : Working(q, m)' <=> q = r
      BY <1>1, <1>9, <2>3, <2>5, HostJobs DEF Others, Working, Committed, Went
    <2>10. QED
      BY <2>8, <2>9 DEF GhostInv
  <1>10. QED
    BY <1>6, <1>7, <1>8, <1>9 DEF RunWrite

\* The steps that change no table.
LEMMA GhostRefresh ==
    ASSUME IInv, NEW r \in Request, FetchSubnets(r) \/ FetchStaticHosts(r) \/ Install(r),
           NEW m \in Mac
    PROVE  GhostInv(m)'
  <1>1. /\ GhostInv(m) /\ Others(r) /\ LocalTypes
        /\ job[r] \in HostJob \cup NetJob
        /\ pc[r] \in {"nets", "hosts", "install"}
        /\ leases' = leases /\ store' = store /\ broken' = broken
    BY FetchStep, InstallStep, AtWork
    DEF IInv, FetchSubnets, FetchStaticHosts, Install, history
  <1>2. \A a \in Addr : Keeps(m, a)' <=> Keeps(m, a)
    BY <1>1 DEF Keeps
  <1>3. \/ job[r] \in NetJob /\ pc'[r] = "idle"
        \/ job[r] \in HostJob /\ job[r].op = "add" /\ Went(r, "lookup")
        \/ job[r] \in HostJob /\ job[r].op # "add" /\ Went(r, "find")
        \/ Went(r, "hosts") \/ Went(r, "install")
    BY <1>1, AfterRefreshMove
    DEF FetchSubnets, FetchStaticHosts, Install, Goto, LocalTypes, Went
  <1>4. Working(r, m)' <=> Working(r, m)
    BY <1>1, <1>3, NetJobs, HostJobs DEF Working, Committed, Went
  <1>5. m \notin broken /\ Working(r, m) => OneAtWork(r, m)'
    <2>1. m \notin broken /\ Working(r, m) => OneAtWork(r, m) /\ job[r] \in HostJob
      BY <1>1, AtWork DEF GhostInv
    <2>2. QED
      BY <1>1, <1>2, <1>3, <2>1, NetJobs, HostJobs DEF OneAtWork, Went
  <1>6. QED
    BY <1>1, <1>2, <1>4, <1>5, GhostKept

\* GetLeaseByMAC returns the reservation of its client, if it has one and only one:
\* no other lease runs for as long.
LEMMA KeptIsFound ==
    ASSUME TypeOK, NEW m \in Mac, NEW a \in Addr, Keeps(m, a),
           \A b \in Addr : Keeps(m, b) => b = a
    PROVE  GetLeaseByMAC(leases, m) = {a}
  <1>1. a \in ActiveFor(leases, m) /\ leases[a].end >= Forever
    BY DEF ActiveFor, Keeps, Permanent
  <1>2. \A b \in ActiveFor(leases, m) : leases[b] \in Row
    BY DEF ActiveFor, TypeOK, Table, NoRow
  <1>3. \A b \in ActiveFor(leases, m) : b # a => leases[b].end < Forever
    BY <1>2, TimesAssumption DEF ActiveFor, Keeps, Permanent, Row
  <1>4. leases[a].end \in Nat
    BY <1>1, <1>2 DEF Row
  <1>5. \A b \in ActiveFor(leases, m) : leases[b].end \in Nat
    BY <1>2 DEF Row
  <1>6. a \in GetLeaseByMAC(leases, m)
    BY <1>1, <1>3, <1>4, <1>5, TimesAssumption DEF GetLeaseByMAC
  <1>7. \A b \in GetLeaseByMAC(leases, m) : b = a
    BY <1>1, <1>3, <1>4, <1>5, TimesAssumption DEF GetLeaseByMAC
  <1>8. QED
    BY <1>6, <1>7

LEMMA GhostFindLease ==
    ASSUME IInv, NEW r \in Request, FindLease(r), NEW m \in Mac
    PROVE  GhostInv(m)'
  <1>1. /\ GhostInv(m) /\ Others(r) /\ LocalTypes /\ TypeOK
        /\ job[r] \in HostJob /\ job[r].op # "add"
        /\ pc[r] = "find" /\ leases' = leases /\ store' = store
    BY FindLeaseStep, AtWork DEF IInv, RequestInv, FindLease
  <1>2. broken \subseteq broken' /\ (Break(r, TRUE) => job[r].key \in broken')
    BY <1>1, Broken DEF FindLease
  <1>3. \A a \in Addr : Keeps(m, a)' <=> Keeps(m, a)
    BY <1>1 DEF Keeps
  <1>4. job'[r] = job[r] \/ pc'[r] = "idle"
    BY <1>1, AfterRevokeMove DEF FindLease, Went
  <1>5. Working(r, m) <=> job[r].key = m
    BY <1>1, HostJobs DEF Working, Committed
  <1>6. CASE job[r].key # m
    BY <1>1, <1>2, <1>3, <1>4, <1>5, <1>6, GhostKept DEF Working, Committed
  <1>7. CASE job[r].key = m
    <2> SUFFICES ASSUME m \notin broken' PROVE GhostInv(m)'
      BY DEF GhostInv
    <2>1. OneAtWork(r, m) /\ ~Break(r, TRUE)
      BY <1>1, <1>2, <1>5, <1>7 DEF GhostInv
    <2>2. \A a \in Addr : Keeps(m, a) => GetLeaseByMAC(leases, m) = {a}
      BY <1>1, <2>1, KeptIsFound DEF OneAtWork
    <2>3. CASE GetLeaseByMAC(leases, m) = {} /\ AfterRevoke(r)
      <3>1. \A a \in Addr : ~Keeps(m, a)'
        BY <1>3, <2>2, <2>3
      <3>2. pc'[r] = "idle" \/ Went(r, "lookup")
        BY <1>1, <2>3, AfterRevokeMove
      <3>3. Working(r, m)' => OneAtWork(r, m)'
        BY <1>1, <2>1, <3>1, <3>2 DEF Working, Committed, OneAtWork, Went
      <3>4. QED
        BY <1>1, <1>2, <1>5, <1>7, <3>1, <3>3, GhostKept
    <2>4. CASE ~(GetLeaseByMAC(leases, m) = {} /\ AfterRevoke(r))
      <3>1. PICK a \in GetLeaseByMAC(leases, m) :
              pc' = [pc EXCEPT ![r] = "revoke"] /\ at' = [at EXCEPT ![r] = a] /\ job' = job
        BY <1>7, <2>1, <2>4 DEF FindLease, Goto
      <3>2. pc'[r] = "revoke" /\ at'[r] = a /\ job'[r] = job[r]
        BY <1>1, <3>1 DEF LocalTypes
      <3>3. \A b \in Addr : Keeps(m, b)' => b = a
        BY <1>3, <2>2, <3>1
      <3>4. Working(r, m)' /\ OneAtWork(r, m)'
        BY <1>1, <1>5, <1>7, <2>1, <3>2, <3>3, HostJobs
        DEF Working, Committed, OneAtWork
      <3>5. QED
        BY <1>1, <1>2, <1>5, <1>7, <3>4, GhostKept
    <2>5. QED
      BY <2>3, <2>4
  <1>8. QED
    BY <1>6, <1>7

LEMMA GhostRevokeLease ==
    ASSUME IInv, NEW r \in Request, RevokeLease(r), NEW m \in Mac
    PROVE  GhostInv(m)'
  <1>1. /\ GhostInv(m) /\ Others(r) /\ LocalTypes /\ leases \in Table
        /\ job[r] \in HostJob /\ job[r].op # "add"
        /\ at[r] \in Addr /\ row[r] \in Row
        /\ row[r].state = "expired"
        /\ pc[r] = "revoke" /\ store' = store
    BY RevokeLeaseStep, AtWork DEF IInv, TypeOK, RequestInv, RevokeLease
  <1>2. broken \subseteq broken' /\ (Break(r, TRUE) => job[r].key \in broken')
    BY <1>1, Broken DEF RevokeLease
  <1>3. pc'[r] = "idle" \/ Went(r, "lookup")
    BY <1>1, AfterRevokeMove DEF RevokeLease
  <1>4. Working(r, m) <=> job[r].key = m
    BY <1>1, HostJobs DEF Working, Committed
  <1>5. leases' = leases \/ leases' = UpdateLease(leases, at[r], row[r])
    BY DEF RevokeLease
  <1>6. leases' = UpdateLease(leases, at[r], row[r]) => ~Permanent(leases'[at[r]])
    <2>1. HasRow(leases, at[r]) => UpdateLease(leases, at[r], row[r])[at[r]].state = "expired"
      BY <1>1, UpdatedRow
    <2>2. ~HasRow(leases, at[r]) => UpdateLease(leases, at[r], row[r])[at[r]].state = "none"
      BY <1>1, UpdatedRow DEF HasRow, NoRow
    <2>3. QED
      BY <2>1, <2>2 DEF Permanent
  <1>7. \A a \in Addr : Keeps(m, a)' => Keeps(m, a)
    <2>1. \A a \in Addr \ {at[r]} : UpdateLease(leases, at[r], row[r])[a] = leases[a]
      BY <1>1, UpdatedRow
    <2>2. QED
      BY <1>5, <1>6, <2>1 DEF Keeps
  <1>8. CASE job[r].key # m
    BY <1>1, <1>2, <1>3, <1>4, <1>7, <1>8, GhostKept DEF Working, Committed, Went
  <1>9. CASE job[r].key = m
    <2> SUFFICES ASSUME m \notin broken' PROVE GhostInv(m)'
      BY DEF GhostInv
    <2>1. OneAtWork(r, m) /\ ~Break(r, TRUE)
      BY <1>1, <1>2, <1>4, <1>9 DEF GhostInv
    <2>2. \A a \in Addr : Keeps(m, a) => a = at[r]
      BY <1>1, <2>1 DEF OneAtWork
    <2>3. \A a \in Addr : ~Keeps(m, a)'
      BY <1>6, <1>7, <2>1, <2>2 DEF Keeps, RevokeLease
    <2>4. Working(r, m)' => OneAtWork(r, m)'
      BY <1>1, <1>3, <2>1, <2>3 DEF Working, Committed, OneAtWork, Went
    <2>5. QED
      BY <1>1, <1>2, <1>4, <1>9, <2>3, <2>4, GhostKept
  <1>10. QED
    BY <1>8, <1>9

LEMMA GhostLookupAddress ==
    ASSUME IInv, NEW r \in Request, LookupAddress(r), NEW m \in Mac
    PROVE  GhostInv(m)'
  <1>1. /\ GhostInv(m) /\ Others(r) /\ LocalTypes
        /\ job[r] \in HostJob /\ pc[r] = "lookup"
        /\ leases' = leases /\ store' = store /\ broken' = broken
    BY LookupAddressStep, AtWork DEF IInv, RequestInv, LookupAddress, history
  <1>2. \A a \in Addr : Keeps(m, a)' <=> Keeps(m, a)
    BY <1>1 DEF Keeps
  <1>3. pc'[r] = "idle" \/ Went(r, "insert") \/ Went(r, "overwrite")
    BY <1>1, DoneMove DEF LookupAddress, Goto, Went, LocalTypes
  <1>4. ~Working(r, m) => ~Working(r, m)'
    BY <1>1, <1>3, HostJobs DEF Working, Committed, Went
  <1>5. m \notin broken /\ Working(r, m)
          => /\ OneAtWork(r, m)
             /\ Working(r, m)' => OneAtWork(r, m)'
             /\ \A a \in Addr : Keeps(m, a)' => store.hosts[m] = a
    BY <1>1, <1>2, <1>3 DEF GhostInv, OneAtWork, Went, Working, Committed
  <1>6. QED
    BY <1>1, <1>2, <1>4, <1>5, GhostKept

\* The reservation that r adds is its host's, and at the address of the store.
LEMMA GhostSeed ==
    ASSUME IInv, NEW r \in Request, InsertSeed(r) \/ OverwriteSeed(r), NEW m \in Mac
    PROVE  GhostInv(m)'
  <1>1. /\ GhostInv(m) /\ Others(r) /\ leases \in Table
        /\ job[r] \in HostJob /\ pc[r] \in {"insert", "overwrite"} /\ pc'[r] = "idle"
        /\ at[r] = job[r].val /\ at[r] \in Addr /\ row[r] \in Row
        /\ row[r].mac = job[r].key
        /\ store' = store /\ broken' = broken
    BY SeedStep, AtWork, HostJobs
    DEF IInv, TypeOK, RequestInv, InsertSeed, OverwriteSeed, history
  <1>2. ~Working(r, m)' /\ (Working(r, m) <=> job[r].key = m)
    BY <1>1, HostJobs DEF Working, Committed
  <1>3. /\ \A a \in Addr \ {at[r]} : leases'[a] = leases[a]
        /\ leases'[at[r]] = leases[at[r]] \/ leases'[at[r]].mac = job[r].key
    BY <1>1, UpdatedRow, AddedRow DEF InsertSeed, OverwriteSeed
  <1>4. \A a \in Addr : Keeps(m, a)' => Keeps(m, a) \/ (a = job[r].val /\ job[r].key = m)
    BY <1>1, <1>3 DEF Keeps
  <1>5. m \notin broken /\ Working(r, m)
          => \A a \in Addr : Keeps(m, a)' => store.hosts[m] = a
    BY <1>1, <1>4 DEF GhostInv, OneAtWork
  <1>6. QED
    BY <1>1, <1>2, <1>4, <1>5, GhostKept

(***************************************************************************)
(* The daemon and the clients.                                             *)
(***************************************************************************)
LEMMA SeededTable ==
    ASSUME TypeOK, NEW owner \in Owners(store.hosts), NEW t,
           t = SeedAll(leases, owner, [m \in Mac |-> SeededRow(m)])
    PROVE  /\ t \in Table
           /\ \A a \in Addr :
                \/ /\ t[a] = leases[a]
                   /\ \A m \in Mac : store.hosts[m] # a
                \/ /\ Permanent(t[a])
                   /\ t[a].mac \in Mac /\ store.hosts[t[a].mac] = a
  <1>1. leases \in Table
    BY DEF TypeOK
  <1> DEFINE R == [m \in Mac |-> SeededRow(m)]
  <1>2. ASSUME NEW a \in Addr
        PROVE  /\ t[a] \in Row \cup {NoRow}
               /\ \/ /\ t[a] = leases[a]
                     /\ \A m \in Mac : store.hosts[m] # a
                  \/ /\ Permanent(t[a])
                     /\ t[a].mac \in Mac /\ store.hosts[t[a].mac] = a
    <2> DEFINE named == {m \in Mac : store.hosts[m] = a}
    <2>1. IF named = {} THEN owner[a] = NoMac ELSE owner[a] \in named
      BY Zenon DEF Owners
    <2>2. t[a] = IF owner[a] = NoMac THEN leases[a]
                 ELSE IF HasRow(leases, a) THEN UpdateLease(leases, a, R[owner[a]])[a]
                 ELSE AddLease(leases, a, R[owner[a]])[a]
      BY DEF SeedAll
    <2>3. CASE named = {}
      BY <1>1, <2>1, <2>2, <2>3 DEF Table
    <2>4. CASE named # {}
      <3>1. owner[a] \in Mac /\ store.hosts[owner[a]] = a /\ owner[a] # NoMac
        BY <2>1, <2>4, NullAssumption
      <3>2. /\ R[owner[a]] \in Row /\ R[owner[a]].mac = owner[a]
            /\ Permanent(R[owner[a]])
        BY <3>1, SeededRows
      <3> HIDE DEF R
      <3>3. CASE HasRow(leases, a)
        <4>1. t[a] = UpdateLease(leases, a, R[owner[a]])[a]
          BY <2>2, <3>1, <3>3
        <4>2. UpdateLease(leases, a, R[owner[a]]) \in Table
          BY <1>1, <3>2, UpdatedRow
        <4>3. /\ t[a].mac = R[owner[a]].mac /\ t[a].end = R[owner[a]].end
              /\ t[a].state = R[owner[a]].state
          BY <1>1, <3>2, <3>3, <4>1, UpdatedRow
        <4>4. QED
          BY <3>1, <3>2, <4>1, <4>2, <4>3 DEF Permanent, Table
      <3>4. CASE ~HasRow(leases, a)
        <4>1. t[a] = R[owner[a]]
          BY <1>1, <2>2, <3>1, <3>2, <3>4, AddedRow
        <4>2. QED
          BY <3>1, <3>2, <4>1
      <3>5. QED
        BY <3>3, <3>4
    <2>5. QED
      BY <2>3, <2>4
  <1>3. t = [a \in Addr |-> t[a]]
    BY DEF SeedAll
  <1>4. t \in Table
    BY <1>2, <1>3 DEF Table
  <1>5. QED
    BY <1>2, <1>4

LEMMA StopStep ==
    ASSUME IInv, Stop
    PROVE  /\ TypeOK' /\ \A r \in Request : RequestInv(r)'
           /\ \A m \in Mac : GhostInv(m)'
  <1>1. EmptyConfig \in Config
    BY DEF EmptyConfig, Config
  <1>2. \A r \in Request : Committed(r) /\ job[r].kind = "hosts" => job[r].key \in broken'
    BY DEF Stop
  <1>3. broken \subseteq broken' /\ broken' \in SUBSET Mac
    <2>1. \A r \in Request : Committed(r) /\ job[r].kind = "hosts" => job[r].key \in Mac
      BY AtWork, HostJobs DEF Committed
    <2>2. QED
      BY <2>1 DEF Stop, IInv, TypeOK
  <1>4. TypeOK'
    BY <1>1, <1>3 DEF Stop, IInv, TypeOK, PC
  <1>5. \A r \in Request : RequestInv(r)'
    BY DEF Stop, RequestInv
  <1>6. ASSUME NEW m \in Mac PROVE GhostInv(m)'
    <2> SUFFICES ASSUME m \notin broken' PROVE GhostInv(m)'
      BY DEF GhostInv
    <2>1. \A r \in Request : ~Working(r, m) /\ ~Working(r, m)'
      BY <1>2 DEF Working, Committed, Stop
    <2>2. \A a \in Addr : Keeps(m, a)' => store'.hosts[m] = a
      BY <1>3, <2>1 DEF IInv, GhostInv, Stop, Keeps
    <2>3. QED
      BY <2>1, <2>2 DEF GhostInv
  <1>7. QED
    BY <1>4, <1>5, <1>6

LEMMA EditStep ==
    ASSUME IInv, NEW m0 \in Host, NEW a0 \in Addr \cup {NoAddr}, Edit(m0, a0)
    PROVE  /\ TypeOK' /\ \A r \in Request : RequestInv(r)'
           /\ \A m \in Mac : GhostInv(m)'
  <1>1. m0 \in Mac /\ store \in Config
    BY PartiesAssumption DEF IInv, TypeOK
  <1>2. store' = [nets |-> store.nets, hosts |-> [store.hosts EXCEPT ![m0] = a0]]
    <2>1. store' = [store EXCEPT !.hosts = [store.hosts EXCEPT ![m0] = a0]]
      BY DEF Edit
    <2>2. QED
      BY <1>1, <2>1 DEF Config
  <1>3. store' \in Config
    BY <1>1, <1>2 DEF Config
  <1>4. TypeOK'
    BY <1>1, <1>3 DEF Edit, daemon, reads, IInv, TypeOK, Doubled
  <1>5. \A r \in Request : RequestInv(r)'
    BY DEF Edit, daemon, reads, IInv, RequestInv, Permanent
  <1>6. ASSUME NEW m \in Mac PROVE GhostInv(m)'
    <2>1. CASE m = m0
      BY <2>1 DEF Edit, GhostInv
    <2>2. CASE m # m0
      <3>1. store'.hosts[m] = store.hosts[m]
        BY <1>1, <1>2, <2>2 DEF Config
      <3>2. \A a \in Addr : Keeps(m, a)' => Keeps(m, a)
        BY DEF Keeps, Edit
      <3>3. GhostInv(m) /\ UNCHANGED <<pc, job, at>> /\ broken \subseteq broken'
        BY DEF IInv, Edit, reads
      <3>4. QED
        BY <3>1, <3>2, <3>3, GhostStill
    <2>3. QED
      BY <2>1, <2>2
  <1>7. QED
    BY <1>4, <1>5, <1>6

LEMMA StartStep ==
    ASSUME IInv, Start
    PROVE  /\ TypeOK' /\ \A r \in Request : RequestInv(r)'
           /\ \A m \in Mac : GhostInv(m)'
           /\ \A a \in Addr :
                \/ /\ leases'[a] = leases[a]
                   /\ \A m \in Mac : store.hosts[m] # a
                \/ /\ Permanent(leases'[a])
                   /\ leases'[a].mac \in Mac /\ store.hosts[leases'[a].mac] = a
  <1>1. TypeOK
    BY DEF IInv
  <1>2. PICK owner \in Owners(store.hosts) :
          leases' = SeedAll(leases, owner, [m \in Mac |-> SeededRow(m)])
    BY DEF Start
  <1>3. /\ leases' \in Table
        /\ \A a \in Addr :
             \/ /\ leases'[a] = leases[a]
                /\ \A m \in Mac : store.hosts[m] # a
             \/ /\ Permanent(leases'[a])
                /\ leases'[a].mac \in Mac /\ store.hosts[leases'[a].mac] = a
    BY <1>1, <1>2, SeededTable
  <1>4. TypeOK'
    BY <1>1, <1>3 DEF Start, reads, history, TypeOK
  <1>5. \A r \in Request : pc[r] = "idle"
    BY DEF IInv, RequestInv, Start
  <1>6. \A r \in Request : RequestInv(r)'
    BY <1>5 DEF Start, reads, IInv, RequestInv, Permanent
  <1>7. ASSUME NEW m \in Mac PROVE GhostInv(m)'
    <2>1. \A r \in Request : ~Working(r, m) /\ ~Working(r, m)'
      BY <1>5 DEF Working, Committed, Start
    <2>2. \A a \in Addr : Keeps(m, a)' => Keeps(m, a) \/ store.hosts[m] = a
      BY <1>3 DEF Keeps
    <2>3. m \notin broken' => \A a \in Addr : Keeps(m, a)' => store'.hosts[m] = a
      BY <2>1, <2>2 DEF IInv, GhostInv, Start, history
    <2>4. QED
      BY <2>1, <2>3 DEF GhostInv
  <1>8. QED
    BY <1>3, <1>4, <1>6, <1>7

\* The lease of a packet runs for LeaseTime, so it is no reservation.
LEMMA GrantStep ==
    ASSUME IInv, NEW p \in Dhcp, NEW b \in Addr, Grant(p, b)
    PROVE  /\ TypeOK' /\ \A r \in Request : RequestInv(r)'
           /\ \A m \in Mac : GhostInv(m)'
           /\ \A a \in Addr \ {b} : leases'[a] = leases[a]
           /\ \A a \in Addr : HasRow(leases, a) => HasRow(leases', a)
  <1>1. TypeOK /\ leases \in Table /\ p \in Mac /\ now \in Nat /\ now <= MaxTime
    BY PartiesAssumption DEF IInv, TypeOK
  <1> DEFINE new == [mac |-> p, end |-> now + LeaseTime, state |-> "active",
                     static |-> cache.hosts[p] # NoAddr]
  <1>2. new \in Row /\ new.end < Forever
    BY <1>1, TimesAssumption DEF Row
  <1>3. leases' = IF HasRow(leases, b) THEN UpdateLease(leases, b, new)
                  ELSE AddLease(leases, b, new)
    BY DEF Grant
  <1> HIDE DEF new
  <1>4. /\ leases' \in Table
        /\ \A a \in Addr \ {b} : leases'[a] = leases[a]
        /\ leases'[b].end = new.end
        /\ \A a \in Addr : HasRow(leases, a) => HasRow(leases', a)
    <2>1. CASE HasRow(leases, b)
      BY <1>1, <1>2, <1>3, <2>1, UpdatedRow
    <2>2. CASE ~HasRow(leases, b)
      BY <1>1, <1>2, <1>3, <2>2, AddedRow
    <2>3. QED
      BY <2>1, <2>2
  <1>5. ~Permanent(leases'[b])
    BY <1>2, <1>4, TimesAssumption DEF Permanent, Row
  <1>6. TypeOK'
    BY <1>1, <1>4 DEF Grant, daemon, reads, TypeOK
  <1>7. \A r \in Request : RequestInv(r)'
    BY DEF Grant, daemon, reads, IInv, RequestInv, Permanent
  <1>8. ASSUME NEW m \in Mac PROVE GhostInv(m)'
    <2>1. \A a \in Addr : Keeps(m, a)' => Keeps(m, a)
      BY <1>4, <1>5 DEF Keeps
    <2>2. /\ GhostInv(m) /\ UNCHANGED <<pc, job, at>>
          /\ broken' = broken /\ store' = store
      BY DEF IInv, Grant, reads
    <2>3. QED
      BY <2>1, <2>2, GhostStill
  <1>9. QED
    BY <1>4, <1>6, <1>7, <1>8

LEMMA ReleaseStep ==
    ASSUME IInv, NEW p \in Dhcp, Release(p)
    PROVE  /\ TypeOK' /\ \A r \in Request : RequestInv(r)'
           /\ \A m \in Mac : GhostInv(m)'
           /\ \A a \in Addr : leases'[a] = leases[a] \/ leases[a].mac = p
           /\ \A a \in Addr : HasRow(leases, a) <=> HasRow(leases', a)
  <1>1. TypeOK /\ leases \in Table
    BY DEF IInv, TypeOK
  <1>2. PICK b \in GetLeaseByMAC(leases, p) :
          leases' = UpdateLease(leases, b, [leases[b] EXCEPT !.state = "expired", !.end = now])
    BY DEF Release
  <1>3. b \in Addr /\ HasRow(leases, b) /\ leases[b].mac = p
    BY <1>1, <1>2, FoundLease
  <1> DEFINE x == [leases[b] EXCEPT !.state = "expired", !.end = now]
  <1>4. x \in Row /\ x.state = "expired"
    BY <1>1, <1>3, ExpiredRow
  <1>5. leases' = UpdateLease(leases, b, x)
    BY <1>2
  <1> HIDE DEF x
  <1>6. /\ leases' \in Table
        /\ \A a \in Addr \ {b} : leases'[a] = leases[a]
        /\ leases'[b].state = "expired"
        /\ \A a \in Addr : HasRow(leases, a) <=> HasRow(leases', a)
    BY <1>1, <1>3, <1>4, <1>5, UpdatedRow
  <1>7. TypeOK'
    BY <1>1, <1>6 DEF Release, daemon, reads, history, TypeOK
  <1>8. \A r \in Request : RequestInv(r)'
    BY DEF Release, daemon, reads, IInv, RequestInv, Permanent
  <1>9. ASSUME NEW m \in Mac PROVE GhostInv(m)'
    <2>1. \A a \in Addr : Keeps(m, a)' => Keeps(m, a)
      BY <1>6 DEF Keeps, Permanent
    <2>2. /\ GhostInv(m) /\ UNCHANGED <<pc, job, at>>
          /\ broken' = broken /\ store' = store
      BY DEF IInv, Release, reads, history
    <2>3. QED
      BY <2>1, <2>2, GhostStill
  <1>10. QED
    BY <1>3, <1>6, <1>7, <1>8, <1>9

LEMMA TickStep ==
    ASSUME IInv, Tick
    PROVE  /\ TypeOK' /\ now' <= MaxTime
           /\ \A r \in Request : RequestInv(r)'
           /\ \A m \in Mac : GhostInv(m)'
  <1>1. TypeOK' /\ now' <= MaxTime
    BY TimesAssumption DEF Tick, daemon, reads, history, IInv, TypeOK
  <1>2. \A r \in Request : RequestInv(r)'
    BY DEF Tick, daemon, reads, IInv, RequestInv, Permanent
  <1>3. \A m \in Mac, a \in Addr : Keeps(m, a)' => Keeps(m, a)
    BY DEF Tick, Keeps
  <1>4. \A m \in Mac : GhostInv(m)'
    BY <1>3, GhostStill DEF Tick, IInv, reads, history
  <1>5. QED
    BY <1>1, <1>2, <1>4

LEMMA DoubledKnown ==
    ASSUME IInv, [Next]_vars
    PROVE  Doubled(store') \subseteq contested'
  <1>1. Doubled(store) \subseteq contested
    BY DEF IInv
  <1>2. CASE store' = store /\ contested \subseteq contested'
    BY <1>1, <1>2 DEF Doubled
  <1>3. ASSUME NEW r \in Request, RunWrite(r)
        PROVE  Doubled(store') \subseteq contested'
    BY <1>2, <1>3 DEF RunWrite, Store, history
  <1>4. ASSUME NEW m \in Host, NEW a \in Addr \cup {NoAddr}, Edit(m, a)
        PROVE  Doubled(store') \subseteq contested'
    BY <1>4 DEF Edit
  <1>5. ASSUME NEW r \in Request, Step(r) PROVE Doubled(store') \subseteq contested'
    BY <1>2, <1>3, <1>5
    DEF Step, Accept, FetchSubnets, FetchStaticHosts, Install, FindLease, RevokeLease,
        LookupAddress, InsertSeed, OverwriteSeed, history
  <1>6. CASE \E m \in Dhcp : Release(m) \/ \E a \in Addr : Grant(m, a)
    BY <1>2, <1>6 DEF Release, Grant, history
  <1>7. QED
    BY <1>2, <1>4, <1>5, <1>6 DEF Next, Stop, Start, Tick, vars, history

LEMMA NextInv ==
    ASSUME IInv, [Next]_vars
    PROVE  IInv'
  <1>1. now \in Nat /\ now <= MaxTime
    BY DEF IInv, TypeOK
  <1>2. (Doubled(store) \subseteq contested)'
    BY DoubledKnown DEF Doubled
  <1>3. ASSUME NEW r \in Request, Step(r) PROVE IInv'
    <2>1. TypeOK' /\ (\A q \in Request : RequestInv(q)') /\ now' = now
      BY <1>3, StepTypes
    <2>2. \A m \in Mac : GhostInv(m)'
      BY <1>3, GhostAccept, GhostRunWrite, GhostRefresh, GhostFindLease,
         GhostRevokeLease, GhostLookupAddress, GhostSeed DEF Step
    <2>3. QED
      BY <1>1, <1>2, <2>1, <2>2 DEF IInv
  <1>4. ASSUME NEW m \in Dhcp, Release(m) PROVE IInv'
    BY <1>1, <1>2, <1>4, ReleaseStep DEF IInv, Release
  <1>5. ASSUME NEW m \in Dhcp, NEW a \in Addr, Grant(m, a) PROVE IInv'
    BY <1>1, <1>2, <1>5, GrantStep DEF IInv, Grant
  <1>6. CASE Stop
    BY <1>1, <1>2, <1>6, StopStep DEF IInv, Stop
  <1>7. CASE Start
    BY <1>1, <1>2, <1>7, StartStep DEF IInv, Start
  <1>8. ASSUME NEW m \in Host, NEW a \in Addr \cup {NoAddr}, Edit(m, a) PROVE IInv'
    BY <1>1, <1>2, <1>8, EditStep DEF IInv, Edit
  <1>9. CASE Tick
    BY <1>2, <1>9, TickStep DEF IInv
  <1>10. CASE UNCHANGED vars
    <2>1. TypeOK'
      BY <1>10 DEF IInv, TypeOK, vars
    <2>2. \A r \in Request : RequestInv(r)'
      BY <1>10 DEF IInv, RequestInv, Permanent, vars
    <2>3. \A m \in Mac : GhostInv(m)'
      BY <1>10, GhostStill DEF IInv, Keeps, vars
    <2>4. QED
      BY <1>1, <1>2, <1>10, <2>1, <2>2, <2>3 DEF IInv, vars
  <1>11. QED
    BY <1>3, <1>4, <1>5, <1>6, <1>7, <1>8, <1>9, <1>10 DEF Next

(***************************************************************************)
(* Requests that do not overlap: FreshInv.                                 *)
(***************************************************************************)
LEMMA FreshInit == Init => FreshInv
  BY DEF Init, FreshInv

LEMMA FreshNext ==
    ASSUME \A q, r \in Request : q = r, PluginFaults = FALSE,
           IInv, FreshInv, [Next]_vars
    PROVE  FreshInv'
  <1>1. CASE UNCHANGED <<store, cache, up, pc, fetched>>
    BY <1>1 DEF FreshInv
  <1>2. ASSUME NEW r \in Request, Step(r) PROVE FreshInv'
    <2>1. /\ LocalTypes /\ store \in Config /\ fetched[r] \in Config
          /\ pc[r] # "idle" => job[r] \in HostJob \cup NetJob
      BY AtWork DEF IInv, TypeOK
    <2>2. SUFFICES ASSUME up'
                   PROVE  /\ pc'[r] \notin Refreshing => cache' = store'
                          /\ pc'[r] = "hosts" => fetched'[r].nets = store'.nets
                          /\ pc'[r] = "install" => fetched'[r] = store'
      BY DEF FreshInv
    <2>3. /\ up
          /\ pc[r] \notin Refreshing => cache = store
          /\ pc[r] = "hosts" => fetched[r].nets = store.nets
          /\ pc[r] = "install" => fetched[r] = store
      BY <1>2, <2>2, StepTypes DEF FreshInv
    <2>4. ASSUME NEW j \in HostJob \cup NetJob, Accept(r, j)
          PROVE  pc'[r] = "write" /\ cache' = store'
      BY <2>1, <2>3, <2>4 DEF Accept, Goto, daemon, LocalTypes, Refreshing
    <2>5. CASE RunWrite(r)
      <3>1. Went(r, "nets") \/ (pc'[r] = "idle" /\ store' = store)
        BY <2>1, <2>5, ContinueMove, DoneMove DEF RunWrite, PC
      <3>2. QED
        BY <2>3, <2>5, <3>1 DEF RunWrite, daemon, Went, Refreshing
    <2>6. CASE FetchSubnets(r)
      BY <2>1, <2>6 DEF FetchSubnets, Goto, LocalTypes, Refreshing, Config
    <2>7. CASE FetchStaticHosts(r)
      <3>1. fetched'[r] = [fetched[r] EXCEPT !.hosts = store.hosts] /\ pc'[r] = "install"
        BY <2>1, <2>7 DEF FetchStaticHosts, Goto, LocalTypes
      <3>2. [fetched[r] EXCEPT !.hosts = store.hosts] = store
        BY <2>1, <2>3, <2>7 DEF FetchStaticHosts, Config
      <3>3. QED
        BY <2>7, <3>1, <3>2 DEF FetchStaticHosts, Refreshing
    <2>8. CASE Install(r)
      <3>1. pc'[r] \notin Refreshing
        BY <2>1, <2>8, AfterRefreshMove DEF Install, Went, Refreshing
      <3>2. QED
        BY <2>3, <2>8, <3>1 DEF Install, Load, Refreshing
    <2>9. CASE FindLease(r) \/ RevokeLease(r)
      <3>1. job[r] \in HostJob /\ job[r].op # "add"
        BY <2>9 DEF IInv, RequestInv, FindLease, RevokeLease
      <3>2. pc'[r] \notin Refreshing
        BY <2>1, <2>9, <3>1, AfterRevokeMove
        DEF FindLease, RevokeLease, Goto, Went, LocalTypes, Refreshing
      <3>3. QED
        BY <2>3, <2>9, <3>2 DEF FindLease, RevokeLease, daemon, Refreshing
    <2>10. CASE LookupAddress(r) \/ InsertSeed(r) \/ OverwriteSeed(r)
      <3>1. pc'[r] \notin Refreshing
        BY <2>1, <2>10, DoneMove
        DEF LookupAddress, InsertSeed, OverwriteSeed, Goto, LocalTypes, Refreshing
      <3>2. QED
        BY <2>3, <2>10, <3>1
        DEF LookupAddress, InsertSeed, OverwriteSeed, daemon, Refreshing
    <2>11. QED
      BY <1>2, <2>4, <2>5, <2>6, <2>7, <2>8, <2>9, <2>10 DEF Step, Refreshing
  <1>3. CASE Start
    <2>1. \A r \in Request : pc[r] = "idle"
      BY <1>3 DEF IInv, RequestInv, Start
    <2>2. QED
      BY <1>3, <2>1 DEF Start, FreshInv
  <1>4. ASSUME NEW m \in Host, NEW a \in Addr \cup {NoAddr}, Edit(m, a) PROVE FreshInv'
    BY <1>4 DEF Edit, daemon, FreshInv
  <1>5. CASE Stop
    BY <1>5 DEF Stop, FreshInv
  <1>6. QED
    BY <1>1, <1>2, <1>3, <1>4, <1>5
    DEF Next, Release, Grant, Tick, daemon, reads, vars

(***************************************************************************)
(* Requests that do not overlap, and no faults: SerialInv.                 *)
(***************************************************************************)
LEMMA SerialInit == Init => SerialInv
  <1> SUFFICES ASSUME Init PROVE SerialInv
    OBVIOUS
  <1>1. \A m \in Mac : store.hosts[m] = NoAddr /\ cache.hosts[m] = NoAddr
    BY DEF Init, EmptyConfig
  <1>2. CopyInv /\ KeptInv
    BY <1>1, NullAssumption DEF CopyInv, KeptInv, Init, EmptyConfig
  <1>3. \A r \in Request : WorkInv(r)
    BY DEF Init, WorkInv, Committed
  <1>4. QED
    BY <1>2, <1>3, FreshInit DEF SerialInv

LEMMA CopyNext ==
    ASSUME \A q, r \in Request : q = r, IInv, SerialInv, [Next]_vars
    PROVE  CopyInv'
  <1>1. CopyInv /\ Doubled(store) \subseteq contested /\ store \in Config
    BY DEF SerialInv, IInv, TypeOK
  <1>2. Doubled(store') \subseteq contested'
    BY DoubledKnown
  <1>3. CASE UNCHANGED <<store, cache, up>> /\ contested \subseteq contested'
    BY <1>1, <1>3 DEF CopyInv
  <1>4. CASE cache' = store'
    BY <1>2, <1>4 DEF CopyInv, Doubled
  <1>5. ASSUME NEW r \in Request, RunWrite(r) PROVE CopyInv'
    <2>1. CASE UNCHANGED <<store, contested>>
      BY <1>3, <1>5, <2>1 DEF RunWrite, daemon
    <2>2. CASE Store(job[r])
      <3>1. job[r] \in HostJob \cup NetJob /\ up
        BY <1>5, AtWork DEF RunWrite
      <3>2. cache = store
        BY <1>5, <3>1 DEF SerialInv, FreshInv, RunWrite, Refreshing
      <3>3. \A m \in Mac : store'.hosts[m] = store.hosts[m]
                           \/ (job[r] \in HostJob /\ m = job[r].key)
        BY <1>1, <2>2, <3>1, StoredConfig DEF Store
      <3>4. cache' = store
        BY <1>5, <3>2 DEF RunWrite, daemon
      <3>5. ASSUME NEW m \in Mac, NEW n \in Mac, NEW a \in Addr,
                   m # n, cache'.hosts[m] = a, store'.hosts[n] = a
            PROVE  a \in contested'
        <4>1. CASE store'.hosts[n] = store.hosts[n]
          BY <1>1, <2>2, <3>4, <3>5, <4>1 DEF Store, Doubled
        <4>2. CASE store'.hosts[n] # store.hosts[n]
          <5>1. store'.hosts[m] = a
            BY <3>3, <3>4, <3>5, <4>2
          <5>2. QED
            BY <1>2, <3>5, <5>1 DEF Doubled
        <4>3. QED
          BY <4>1, <4>2
      <3>6. QED
        BY <3>5 DEF CopyInv
    <2>3. QED
      BY <1>5, <2>1, <2>2 DEF RunWrite, history
  <1>6. ASSUME NEW r \in Request, Install(r) PROVE CopyInv'
    <2>1. fetched[r] = store
      BY <1>6, AtWork DEF SerialInv, FreshInv, Install
    <2>2. QED
      BY <1>4, <1>6, <2>1 DEF Install, Load
  <1>7. CASE Stop \/ \E m \in Host, a \in Addr \cup {NoAddr} : Edit(m, a)
    BY <1>7 DEF Stop, Edit, daemon, CopyInv
  <1>8. CASE Start
    BY <1>4, <1>8 DEF Start
  <1>9. ASSUME NEW r \in Request, Step(r) PROVE CopyInv'
    BY <1>3, <1>5, <1>6, <1>9
    DEF Step, Accept, FetchSubnets, FetchStaticHosts, FindLease, RevokeLease,
        LookupAddress, InsertSeed, OverwriteSeed, daemon, history
  <1>10. CASE \E m \in Dhcp : Release(m) \/ \E a \in Addr : Grant(m, a)
    BY <1>3, <1>10 DEF Release, Grant, daemon, history
  <1>11. QED
    BY <1>3, <1>7, <1>8, <1>9, <1>10 DEF Next, Tick, daemon, history, vars

LEMMA WorkStep ==
    ASSUME \A q, r \in Request : q = r, IInv, SerialInv,
           NEW r \in Request, Step(r)
    PROVE  WorkInv(r)'
  <1>1. /\ LocalTypes /\ TypeOK /\ store \in Config /\ leases \in Table /\ WorkInv(r)
        /\ pc[r] # "idle" => job[r] \in HostJob \cup NetJob
    BY AtWork DEF IInv, TypeOK, SerialInv
  <1>2. ASSUME NEW j \in HostJob \cup NetJob, Accept(r, j) PROVE WorkInv(r)'
    BY <1>2, AcceptStep DEF WorkInv, Committed
  <1>3. CASE pc'[r] = "idle"
    BY <1>3 DEF WorkInv, Committed
  <1>4. CASE RunWrite(r)
    <2>1. pc'[r] = "idle" \/ (Store(job[r]) /\ Went(r, "nets"))
      BY <1>1, <1>4, ContinueMove, DoneMove DEF RunWrite, PC
    <2>2. CASE Store(job[r]) /\ Went(r, "nets")
      <3>1. job[r].kind = "hosts" => store'.hosts[job[r].key] = job[r].val
        BY <1>1, <1>4, <2>2, AtWork, StoredConfig DEF RunWrite, Store
      <3>2. QED
        BY <2>2, <3>1 DEF WorkInv, Went
    <2>3. QED
      BY <1>3, <2>1, <2>2
  <1>5. CASE FetchSubnets(r) \/ FetchStaticHosts(r) \/ Install(r)
    <2>1. \/ pc'[r] = "idle"
          \/ Went(r, "hosts") \/ Went(r, "install") \/ Went(r, "lookup") \/ Went(r, "find")
      BY <1>1, <1>5, AfterRefreshMove
      DEF FetchSubnets, FetchStaticHosts, Install, Goto, LocalTypes, Went
    <2>2. Committed(r) /\ store' = store
      BY <1>5 DEF FetchSubnets, FetchStaticHosts, Install, Committed
    <2>3. QED
      BY <1>3, <1>1, <2>1, <2>2 DEF WorkInv, Went
  <1>6. CASE FindLease(r)
    <2>1. /\ pc[r] = "find" /\ job[r] \in HostJob /\ job[r].op # "add" /\ up
          /\ store' = store /\ contested' = contested
      BY <1>6, AtWork DEF IInv, RequestInv, FindLease
    <2>2. store.hosts[job[r].key] = job[r].val
      BY <1>1, <2>1, HostJobs DEF WorkInv, Committed
    <2>3. CASE AfterRevoke(r)
      BY <1>3, <1>1, <2>1, <2>2, <2>3, AfterRevokeMove DEF WorkInv, Went
    <2>4. CASE ~AfterRevoke(r)
      <3>1. PICK a \in GetLeaseByMAC(leases, job[r].key) :
              pc' = [pc EXCEPT ![r] = "revoke"] /\ at' = [at EXCEPT ![r] = a] /\ job' = job
        BY <1>6, <2>4 DEF FindLease, Goto
      <3>2. pc'[r] = "revoke" /\ at'[r] = a /\ job'[r] = job[r]
        BY <1>1, <3>1 DEF LocalTypes
      <3>3. a \in Addr /\ leases[a].mac = job[r].key
        BY <1>1, FoundLease
      <3>4. ASSUME NEW m \in Mac \ Dhcp, m # job[r].key, store.hosts[m] = a, a \notin contested
            PROVE  FALSE
        <4>1. Keeps(m, a) \/ \E q \in Request : Working(q, m)
          BY <2>1, <3>3, <3>4 DEF SerialInv, KeptInv
        <4>2. QED
          BY <3>3, <3>4, <4>1 DEF Keeps, Working
      <3>5. QED
        BY <2>1, <2>2, <3>2, <3>4 DEF WorkInv
    <2>5. QED
      BY <2>3, <2>4
  <1>7. CASE RevokeLease(r)
    <2>1. /\ pc[r] = "revoke" /\ job[r] \in HostJob /\ job[r].op # "add"
          /\ store' = store
      BY <1>7, AtWork DEF IInv, RequestInv, RevokeLease
    <2>2. pc'[r] = "idle" \/ Went(r, "lookup")
      BY <1>1, <1>7, <2>1, AfterRevokeMove DEF RevokeLease
    <2>3. QED
      BY <1>3, <1>1, <2>1, <2>2 DEF WorkInv, Committed, Went
  <1>8. CASE LookupAddress(r)
    <2>1. \/ pc'[r] = "idle"
          \/ /\ Went(r, IF HasRow(leases, job[r].val) THEN "overwrite" ELSE "insert")
             /\ at'[r] = job[r].val
      BY <1>1, <1>8, DoneMove DEF LookupAddress, Goto, Went, LocalTypes
    <2>2. pc[r] = "lookup" /\ store' = store /\ leases' = leases
      BY <1>8 DEF LookupAddress
    <2>3. QED
      BY <1>3, <1>1, <2>1, <2>2 DEF WorkInv, Committed, Went
  <1>9. CASE InsertSeed(r) \/ OverwriteSeed(r)
    BY <1>3, <1>9, SeedStep
  <1>10. QED
    BY <1>2, <1>4, <1>5, <1>6, <1>7, <1>8, <1>9 DEF Step

LEMMA WorkNext ==
    ASSUME \A q, r \in Request : q = r, IInv, SerialInv, [Next]_vars,
           NEW r \in Request
    PROVE  WorkInv(r)'
  <1>1. WorkInv(r)
    BY DEF SerialInv
  <1>2. ASSUME UNCHANGED <<store, pc, job, at>>,
               \A a \in Addr : HasRow(leases, a) <=> HasRow(leases', a),
               contested \subseteq contested'
        PROVE  WorkInv(r)'
    <2>1. pc[r] \in {"insert", "overwrite"} => at[r] \in Addr
      BY AtWork, HostJobs DEF IInv, RequestInv
    <2>2. QED
      BY <1>1, <1>2, <2>1 DEF WorkInv, Committed
  <1>3. ASSUME NEW q \in Request, Step(q) PROVE WorkInv(r)'
    BY <1>3, WorkStep
  <1>4. ASSUME NEW m \in Dhcp, Release(m) PROVE WorkInv(r)'
    BY <1>2, <1>4, ReleaseStep DEF Release, reads, history
  <1>5. ASSUME NEW m \in Dhcp, NEW a \in Addr, Grant(m, a) PROVE WorkInv(r)'
    <2>1. /\ \A b \in Addr \ {a} : leases'[b] = leases[b]
          /\ \A b \in Addr : HasRow(leases, b) => HasRow(leases', b)
      BY <1>5, GrantStep
    <2>2. /\ UNCHANGED <<store, pc, job, at>> /\ contested \subseteq contested'
          /\ pc[r] = "insert" /\ at[r] = a => a \in contested'
      BY <1>5 DEF Grant, reads
    <2>3. pc[r] \in {"insert", "overwrite"} => at[r] \in Addr
      BY AtWork, HostJobs DEF IInv, RequestInv
    <2>4. QED
      BY <1>1, <2>1, <2>2, <2>3 DEF WorkInv, Committed, HasRow
  <1>6. CASE Stop \/ Start \/ \E m \in Host, a \in Addr \cup {NoAddr} : Edit(m, a)
    <2>1. pc'[r] = "idle"
      BY <1>6 DEF Stop, Start, Edit, IInv, RequestInv
    <2>2. QED
      BY <2>1 DEF WorkInv, Committed
  <1>7. CASE Tick \/ UNCHANGED vars
    BY <1>2, <1>7 DEF Tick, reads, history, vars
  <1>8. QED
    BY <1>3, <1>4, <1>5, <1>6, <1>7 DEF Next

\* No lease of a packet takes the place of a reservation.
LEMMA GrantKeeps ==
    ASSUME IInv, SerialInv, NEW p \in Dhcp, NEW b \in Addr, Grant(p, b),
           NEW m \in Mac \ Dhcp, store.hosts[m] = b, b \notin contested
    PROVE  ~Keeps(m, b)
  <1> SUFFICES ASSUME Keeps(m, b) PROVE FALSE
    OBVIOUS
  <1>1. leases[b] \in Row /\ p \in Mac /\ up
    BY PartiesAssumption DEF IInv, TypeOK, Table, Keeps, Permanent, NoRow, Grant
  <1>2. leases[b].mac # p /\ leases[b].end >= Forever /\ leases[b] # NoRow
    BY DEF Keeps, Permanent, NoRow
  <1>3. now < Forever /\ now \in Nat
    BY TimesAssumption DEF IInv, TypeOK
  <1>4. cache.hosts[p] # b
    BY <1>1 DEF SerialInv, CopyInv
  <1>5. ~RowFree(leases[b], p, now)
    BY <1>1, <1>2, <1>3, TimesAssumption DEF RowFree, Row
  <1>6. b \notin GetLeaseByMAC(leases, p)
    BY <1>2 DEF GetLeaseByMAC, ActiveFor
  <1>7. b \notin Allocatable(p)
    BY <1>4, <1>5, <1>6 DEF Allocatable
  <1>8. QED
    BY <1>7 DEF Grant

LEMMA KeptNext ==
    ASSUME \A q, r \in Request : q = r, PluginFaults = FALSE, DbFaults = FALSE,
           IInv, SerialInv, [Next]_vars
    PROVE  KeptInv'
  <1> SUFFICES ASSUME up', NEW m \in Mac \ Dhcp, NEW a \in Addr \ contested',
                      store'.hosts[m] = a
               PROVE  Keeps(m, a)' \/ \E r \in Request : Working(r, m)'
    BY DEF KeptInv
  <1> DEFINE Served == Keeps(m, a)' \/ \E r \in Request : Working(r, m)'
  <1>1. TypeOK /\ store \in Config /\ leases \in Table
    BY DEF IInv, TypeOK
  <1>2. a \notin Doubled(store) /\ a \notin Doubled(store')
    BY DoubledKnown DEF IInv, Next, Step, Stop, Start, Edit, Tick, Release, Grant, Accept,
       RunWrite, Store, FetchSubnets, FetchStaticHosts, Install, FindLease, RevokeLease,
       LookupAddress, InsertSeed, OverwriteSeed, history, vars
  <1>3. ASSUME up, a \notin contested, store.hosts[m] = a
        PROVE  Keeps(m, a) \/ \E r \in Request : Working(r, m)
    BY <1>3 DEF SerialInv, KeptInv
  <1>4. ASSUME NEW r \in Request, Step(r) PROVE Served
    <2>1. /\ LocalTypes /\ TypeOK' /\ Others(r) /\ up /\ WorkInv(r)
          /\ pc[r] # "idle" => job[r] \in HostJob \cup NetJob
      BY <1>4, StepTypes, AtWork DEF SerialInv
    <2>2. ASSUME store'.hosts[m] = store.hosts[m], contested' = contested, leases' = leases,
                 \/ ~Working(r, m)
                 \/ pc'[r] \notin {"idle", "write"} /\ job'[r] = job[r]
          PROVE  Served
      <3>1. Keeps(m, a) \/ Working(r, m)
        BY <1>3, <2>1, <2>2
      <3>2. Working(r, m) => Working(r, m)'
        BY <2>2 DEF Working, Committed
      <3>3. QED
        BY <2>2, <3>1, <3>2 DEF Keeps
    <2>3. ASSUME NEW j \in HostJob \cup NetJob, Accept(r, j) PROVE Served
      BY <2>2, <2>3 DEF Accept, history, Working, Committed
    <2>4. CASE RunWrite(r)
      <3>1. ~Working(r, m) /\ leases' = leases /\ job[r] \in HostJob \cup NetJob
        BY <2>1, <2>4 DEF RunWrite, Working, Committed
      <3>2. CASE UNCHANGED <<store, history>>
        BY <2>2, <3>1, <3>2 DEF history
      <3>3. CASE Store(job[r]) /\ Continue(r, "nets")
        <4>1. Went(r, "nets")
          BY <2>1, <3>3, ContinueMove DEF PC
        <4>2. CASE job[r] \in HostJob /\ job[r].key = m
          BY <4>1, <4>2, HostJobs DEF Working, Committed, Went
        <4>3. CASE ~(job[r] \in HostJob /\ job[r].key = m)
          <5>1. store'.hosts[m] = store.hosts[m]
            BY <1>1, <3>1, <3>3, <4>3, StoredConfig DEF Store
          <5>2. a \notin contested
            BY <3>3 DEF Store
          <5>3. Keeps(m, a)
            BY <1>3, <2>1, <3>1, <5>1, <5>2
          <5>4. QED
            BY <3>1, <5>3 DEF Keeps
        <4>4. QED
          BY <4>2, <4>3
      <3>4. QED
        BY <2>4, <3>2, <3>3 DEF RunWrite
    <2>5. CASE FetchSubnets(r) \/ FetchStaticHosts(r) \/ Install(r)
      <3>1. /\ store' = store /\ contested' = contested /\ leases' = leases
            /\ job[r] \in HostJob \cup NetJob
        BY <2>1, <2>5 DEF FetchSubnets, FetchStaticHosts, Install, history
      <3>2. \/ job[r] \in NetJob
            \/ Went(r, "hosts") \/ Went(r, "install") \/ Went(r, "lookup") \/ Went(r, "find")
        BY <2>1, <2>5, <3>1, AfterRefreshMove
        DEF FetchSubnets, FetchStaticHosts, Install, Goto, LocalTypes, Went
      <3>3. QED
        BY <2>2, <3>1, <3>2, NetJobs DEF Working, Went
    <2>6. CASE FindLease(r)
      <3>1. /\ store' = store /\ contested' = contested /\ leases' = leases
            /\ job[r] \in HostJob /\ job[r].op # "add" /\ pc[r] = "find"
        BY <2>6 DEF IInv, RequestInv, FindLease
      <3>2. \/ job[r].op = "delete" \/ Went(r, "lookup") \/ Went(r, "revoke")
        BY <2>1, <2>6, <3>1, AfterRevokeMove DEF FindLease, Goto, LocalTypes, Went
      <3>3. job[r].op = "delete" => ~Working(r, m)
        BY <1>1, <2>1, <3>1, HostJobs, NullAssumption DEF WorkInv, Working
      <3>4. QED
        BY <2>2, <3>1, <3>2, <3>3 DEF Went
    <2>7. CASE RevokeLease(r)
      <3>1. /\ store' = store /\ contested' = contested
            /\ job[r] \in HostJob /\ job[r].op # "add" /\ pc[r] = "revoke"
            /\ at[r] \in Addr /\ row[r] \in Row
            /\ leases' = UpdateLease(leases, at[r], row[r]) /\ AfterRevoke(r)
        BY <2>7 DEF IInv, RequestInv, RevokeLease
      <3>2. Working(r, m) <=> job[r].key = m
        BY <3>1, HostJobs DEF Working, Committed
      <3>3. CASE job[r].key = m
        <4>1. job[r].op # "delete"
          BY <2>1, <3>1, <3>2, <3>3, HostJobs, NullAssumption DEF WorkInv, Working
        <4>2. Went(r, "lookup")
          BY <2>1, <3>1, <4>1, AfterRevokeMove
        <4>3. QED
          BY <3>2, <3>3, <4>2 DEF Working, Committed, Went
      <3>4. CASE job[r].key # m
        <4>1. Keeps(m, a)
          BY <1>3, <2>1, <3>1, <3>2, <3>4
        <4>2. at[r] # a
          BY <2>1, <3>1, <3>4 DEF WorkInv
        <4>3. leases'[a] = leases[a]
          BY <1>1, <3>1, <4>2, UpdatedRow
        <4>4. QED
          BY <4>1, <4>3 DEF Keeps
      <3>5. QED
        BY <3>3, <3>4
    <2>8. CASE LookupAddress(r)
      <3>1. \/ Went(r, "insert") \/ Went(r, "overwrite")
        BY <2>1, <2>8 DEF LookupAddress, Goto, LocalTypes, Went
      <3>2. QED
        BY <2>2, <2>8, <3>1 DEF LookupAddress, history, Went
    <2>9. CASE InsertSeed(r) \/ OverwriteSeed(r)
      <3>1. /\ store' = store /\ contested' = contested
            /\ job[r] \in HostJob /\ pc[r] \in {"insert", "overwrite"}
            /\ at[r] = job[r].val /\ at[r] \in Addr /\ row[r] \in Row
            /\ row[r].mac = job[r].key /\ Permanent(row[r])
        BY <2>9, HostJobs DEF IInv, RequestInv, InsertSeed, OverwriteSeed, history
      <3>2. store.hosts[job[r].key] = at[r] /\ job[r].key \in Mac
        BY <2>1, <3>1, HostJobs DEF WorkInv, Committed
      <3>3. CASE job[r].key = m
        <4>1. a = at[r]
          BY <3>1, <3>2, <3>3
        <4>2. CASE InsertSeed(r)
          <5>1. CanAdd(leases, a)
            BY <2>1, <3>1, <4>1, <4>2 DEF WorkInv, CanAdd, InsertSeed
          <5>2. leases' = AddLease(leases, a, row[r])
            BY <4>1, <4>2, <5>1 DEF InsertSeed
          <5>3. leases'[a] = row[r]
            BY <1>1, <3>1, <5>2, AddedRow
          <5>4. QED
            BY <3>1, <3>3, <5>3 DEF Keeps
        <4>3. CASE OverwriteSeed(r)
          <5>1. HasRow(leases, a) /\ leases' = UpdateLease(leases, a, row[r])
            BY <2>1, <4>1, <4>3 DEF WorkInv, OverwriteSeed
          <5>2. /\ leases'[a].mac = row[r].mac /\ leases'[a].end = row[r].end
                /\ leases'[a].state = row[r].state
            BY <1>1, <3>1, <5>1, UpdatedRow
          <5>3. QED
            BY <3>1, <3>3, <5>2 DEF Keeps, Permanent
        <4>4. QED
          BY <2>9, <4>2, <4>3
      <3>4. CASE job[r].key # m
        <4>1. Keeps(m, a)
          BY <1>3, <2>1, <3>1, <3>4 DEF Working
        <4>2. at[r] # a
          BY <1>2, <3>1, <3>2, <3>4 DEF Doubled
        <4>3. leases'[a] = leases[a]
          BY <1>1, <2>9, <3>1, <4>2, UpdatedRow, AddedRow DEF InsertSeed, OverwriteSeed
        <4>4. QED
          BY <4>1, <4>3 DEF Keeps
      <3>5. QED
        BY <3>3, <3>4
    <2>10. QED
      BY <1>4, <2>3, <2>4, <2>5, <2>6, <2>7, <2>8, <2>9 DEF Step
  <1>5. ASSUME UNCHANGED <<store, pc, job, up>>, contested \subseteq contested',
               Keeps(m, a) => Keeps(m, a)'
        PROVE  Served
    BY <1>3, <1>5 DEF Working, Committed
  <1>6. ASSUME NEW p \in Dhcp, Release(p) PROVE Served
    <2>1. leases'[a] = leases[a] \/ leases[a].mac = p
      BY <1>6, ReleaseStep
    <2>2. Keeps(m, a) => Keeps(m, a)'
      BY <2>1 DEF Keeps
    <2>3. QED
      BY <1>5, <1>6, <2>2 DEF Release, daemon, history
  <1>7. ASSUME NEW p \in Dhcp, NEW b \in Addr, Grant(p, b) PROVE Served
    <2>1. /\ UNCHANGED <<store, pc, job, up>> /\ contested \subseteq contested'
      BY <1>7 DEF Grant, daemon
    <2>2. b = a => ~Keeps(m, a)
      BY <1>7, <2>1, GrantKeeps
    <2>3. Keeps(m, a) => Keeps(m, a)'
      BY <1>7, <2>2, GrantStep DEF Keeps
    <2>4. QED
      BY <1>5, <2>1, <2>3
  <1>8. CASE Start
    <2>1. Permanent(leases'[a]) /\ leases'[a].mac \in Mac /\ store.hosts[leases'[a].mac] = a
      BY <1>8, StartStep DEF Start
    <2>2. leases'[a].mac = m
      BY <1>2, <1>8, <2>1 DEF Start, Doubled
    <2>3. QED
      BY <2>1, <2>2 DEF Keeps
  <1>9. CASE Tick \/ UNCHANGED vars
    BY <1>5, <1>9 DEF Tick, Keeps, daemon, history, vars
  <1>10. CASE Stop \/ \E n \in Host, b \in Addr \cup {NoAddr} : Edit(n, b)
    BY <1>10 DEF Stop, Edit, daemon
  <1>11. QED
    BY <1>4, <1>6, <1>7, <1>8, <1>9, <1>10 DEF Next

(***************************************************************************)
(* Theorems.                                                               *)
(***************************************************************************)
\* What requests know of the configuration and the lease table, at each of their
\* steps, stays so whatever other requests, clients, faults and restarts do.
THEOREM Invariance == Spec => []IInv
  <1>1. IInv /\ [Next]_vars => IInv'
    BY NextInv
  <1>2. QED
    BY <1>1, InitInv, PTL DEF Spec

\* The configuration, its copy and the table hold what their columns allow.
THEOREM TypeCorrect == Spec => []TypeOK
  <1>1. IInv => TypeOK
    BY DEF IInv
  <1>2. QED
    BY <1>1, Invariance, PTL

\* RevokeStaticLease finds and revokes the reservation a host had before: one that is
\* no longer configured is left behind only by overlapping, failing or cut requests
\* on the host, or by an edit while the daemon is down.
THEOREM NoGhosts == Spec => []NoGhostReservation
  <1>1. IInv => NoGhostReservation
    BY DEF IInv, GhostInv, NoGhostReservation
  <1>2. QED
    BY <1>1, Invariance, PTL

\* Requests served one after the other leave the copy with what the store says, as long
\* as refreshAllocator reaches the plugin.
THEOREM SerialFresh ==
    ASSUME \A q, r \in Request : q = r, PluginFaults = FALSE
    PROVE  Spec => []CacheFresh
  <1>1. IInv /\ FreshInv /\ [Next]_vars => FreshInv'
    BY FreshNext
  <1>2. FreshInv => CacheFresh
    BY DEF FreshInv, CacheFresh, Quiet, Refreshing
  <1>3. QED
    BY <1>1, <1>2, FreshInit, Invariance, PTL DEF Spec

\* What a request has still to do is done before the next one starts, if nothing fails.
THEOREM SerialInvariance ==
    ASSUME \A q, r \in Request : q = r, PluginFaults = FALSE, DbFaults = FALSE
    PROVE  Spec => []SerialInv
  <1>1. IInv /\ SerialInv /\ [Next]_vars => SerialInv'
    <2> SUFFICES ASSUME IInv, SerialInv, [Next]_vars PROVE SerialInv'
      OBVIOUS
    <2>1. FreshInv'
      BY FreshNext DEF SerialInv
    <2>2. CopyInv'
      BY CopyNext
    <2>3. KeptInv'
      BY KeptNext
    <2>4. \A r \in Request : WorkInv(r)'
      BY WorkNext
    <2>5. QED
      BY <2>1, <2>2, <2>3, <2>4 DEF SerialInv
  <1>2. QED
    BY <1>1, SerialInit, Invariance, PTL DEF Spec

\* SeedStaticLease and seedStaticLeases leave each static host its reservation, and no
\* packet, move or restart takes it away.
THEOREM SerialReserved ==
    ASSUME \A q, r \in Request : q = r, PluginFaults = FALSE, DbFaults = FALSE
    PROVE  Spec => []Reserved
  <1>1. IInv /\ SerialInv => Reserved
    <2> SUFFICES ASSUME SerialInv, Quiet, NEW m \in Mac \ Dhcp,
                        store.hosts[m] # NoAddr, store.hosts[m] \notin contested, IInv
                 PROVE  Keeps(m, store.hosts[m])
      BY DEF Reserved
    <2>1. QED
      BY DEF SerialInv, KeptInv, Quiet, Working, Committed, IInv, TypeOK, Config
  <1>2. QED
    BY <1>1, SerialInvariance, Invariance, PTL
=============================================================================
