---------------------------- MODULE SubnetStore -----------------------------
(***************************************************************************)
(* The subnets in the database of the sqlite3-config plugin                *)
(* (internal/sqlite3store/store.go, cmd/plugins/sqlite3-config/main.go).   *)
(* Every request of the daemon starts a process of its own, which opens    *)
(* the database, brings its schema up to date, runs its statements and     *)
(* ends; several run at a time, and each may be killed at any point (the   *)
(* 15 s of plugin/manager.go, a daemon that ends).                         *)
(*                                                                         *)
(* A subnet is a row of "subnets" and rows of the child tables that carry  *)
(* its id: the dynamic ranges and nine lists of strings.  The columns of   *)
(* the row and the lists together are one definition, a member of Value;   *)
(* Lists[v] is what v has in each child table.                             *)
(*                                                                         *)
(* SQLite is external.  A transaction works on a copy (tx) that COMMIT     *)
(* makes the database.  One process at a time may hold the RESERVED lock,  *)
(* from its first write to COMMIT; a transaction that has read holds a     *)
(* SHARED lock, and COMMIT waits for those of the others.  A process that  *)
(* waits for a lock gives up after the driver's 5 s (Busy); one that holds *)
(* SHARED and asks for RESERVED is refused at once.                        *)
(***************************************************************************)
EXTENDS Integers, Sequences, FiniteSets, FiniteSetsExt, SequencesExt

CONSTANTS Proc,      \* plugin processes that can exist at one time
          NoProc,    \* none of them
          NetOrder,  \* the networks, as ORDER BY network has them
          Value,     \* definitions of a subnet, all but its network
          NoValue,   \* no definition
          Torn,      \* rows that no definition has
          TableOrder,\* the child tables, in the order in which they are read
          Lists,     \* Lists[v][t]: the values v has in child table t
          Columns,   \* the columns migrateSubnetsTable adds, in its order
          MaxId      \* the bound on the ids handed out

Net == ToSet(NetOrder)
Table == ToSet(TableOrder)

\* Where x is in an order.
Index(order, x) == CHOOSE i \in DOMAIN order : order[i] = x

Item == UNION {ToSet(Lists[v][t]) : v \in Value, t \in Table}

ASSUME ProcAssumption == NoProc \notin Proc
ASSUME ValueAssumption ==
    /\ NoValue \notin Value /\ Torn \notin Value \cup {NoValue}
    /\ \A v \in Value, t \in Table : Lists[v][t] \in Seq(Item)
ASSUME OrderAssumption ==
    IsInjective(NetOrder) /\ IsInjective(TableOrder) /\ IsInjective(Columns)
ASSUME BoundAssumption == MaxId \in Nat

VARIABLES
    db,        \* the database file
    tx,        \* tx[p]: the copy p's transaction works on
    reserved,  \* the process that holds the RESERVED lock
    shared,    \* the processes whose transaction holds a SHARED lock
    pc,        \* pc[p]: where process p is
    op,        \* op[p]: the request it was started for
    id,        \* id[p]: the id of the subnet it writes
    alters,    \* alters[p]: the columns it found missing and has still to add
    list,      \* list[p]: the subnets it has read, as GetSubnets returns them
    todo,      \* todo[p]: the child lists it has still to read
    held       \* history: held[p][n] is what n was since p read the rows

vars == <<db, tx, reserved, shared, pc, op, id, alters, list, todo, held>>
locks == <<tx, reserved, shared>>
reading == <<list, todo, held>>

(***************************************************************************)
(* The database.                                                           *)
(***************************************************************************)
NoRow == [id |-> 0, value |-> NoValue]

RowType == [id: 1 .. MaxId, value: Value] \cup {NoRow}

Child == [id: 1 .. MaxId, table: Table, position: Nat, item: Item]

Kids(d, i, t) == {k \in d.kids : k.id = i /\ k.table = t}

\* k is a j-th of these rows by position; rows of one position come in any order.
IsNth(kids, k, j) ==
    /\ Cardinality({x \in kids : x.position < k.position}) < j
    /\ j <= Cardinality({x \in kids : x.position <= k.position})

\* The SELECT of getDynamicRanges and getStringList: ORDER BY position.
ChildList(d, i, t) ==
    LET kids == Kids(d, i, t)
    IN  [j \in 1 .. Cardinality(kids) |-> (CHOOSE k \in kids : IsNth(kids, k, j)).item]

\* Bugs to compare with: without AUTOINCREMENT an id is one more than the
\* greatest there is; an id taken before the INSERT is the one of the last.
ReusedId(d) == Max({d.rows[n].id : n \in Net}) + 1
PreviousId(d) == d.lastId

\* AUTOINCREMENT: no id is ever used again.
NextId(d) == d.lastId + 1

\* A bug to compare with: without foreign keys a row leaves its children behind.
NoCascade(d, i) == d.kids

\* ON DELETE CASCADE, with PRAGMA foreign_keys = ON.
Cascade(d, i) == {k \in d.kids : k.id # i}

WithRow(d, n, i, v) ==
    [d EXCEPT !.rows[n] = [id |-> i, value |-> v], !.lastId = IF i > @ THEN i ELSE @]

WithoutRow(d, n) ==
    [d EXCEPT !.rows[n] = NoRow, !.kids = Cascade(d, d.rows[n].id)]

\* A bug to compare with: the child rows of before are kept.
KeepChildren(d, i) == d

ClearChildren(d, i) == [d EXCEPT !.kids = {k \in @ : k.id # i}]

\* The rows of list t of definition v.
ChildRows(i, v, t) ==
    {[id |-> i, table |-> t, position |-> j - 1, item |-> Lists[v][t][j]] :
        j \in DOMAIN Lists[v][t]}

WriteChildren(d, i, v) ==
    [d EXCEPT !.kids = @ \cup UNION {ChildRows(i, v, t) : t \in Table}]

(***************************************************************************)
(* Processes.                                                              *)
(***************************************************************************)
NoDb == [rows |-> [n \in Net |-> NoRow], kids |-> {}, lastId |-> 0, columns |-> {}]

Op == [kind: {"insert", "update"}, net: Net, value: Value]
        \cup [kind: {"delete"}, net: Net, value: {NoValue}]
        \cup {[kind |-> "list", net |-> NetOrder[1], value |-> NoValue]}

NoOp == [kind |-> "none", net |-> NetOrder[1], value |-> NoValue]

NoList == [n \in Net |-> [value |-> NoValue, lists |-> [t \in Table |-> <<>>]]]

NoneHeld == [n \in Net |-> {}]

\* The first step of each request, once the database is open.
First(kind) ==
    CASE kind = "insert" -> "insert" [] kind = "update" -> "select"
      [] kind = "delete" -> "delete" [] kind = "list" -> "rows"

PC == {"idle", "inspect", "alter", "insert", "select", "update", "clear", "write",
       "commit", "delete", "rows", "lists", "listed"}

\* The places at which a statement names the columns of "subnets".
Querying == PC \ {"idle", "inspect", "alter"}

InTx == {"update", "clear", "write", "commit"}

Database ==
    [rows: [Net -> RowType], kids: SUBSET Child, lastId: 0 .. MaxId,
     columns: SUBSET ToSet(Columns)]

TypeOK ==
    /\ db \in Database
    /\ reserved \in Proc \cup {NoProc}
    /\ shared \in SUBSET Proc
    /\ pc \in [Proc -> PC]
    /\ op \in [Proc -> Op \cup {NoOp}]
    /\ id \in [Proc -> 0 .. MaxId]
    /\ \A p \in Proc : /\ (pc[p] \in InTx) <=> (tx[p] # NoDb)
                       /\ p \in shared => pc[p] \in InTx
                       /\ reserved = p => pc[p] \in InTx \ {"update"}
                       /\ pc[p] \in {"clear", "write", "commit"} => reserved = p

\* A new database, or one from before the BootP columns were added.
Init ==
    /\ \E c \in {{}, ToSet(Columns)} : db = [NoDb EXCEPT !.columns = c]
    /\ tx = [p \in Proc |-> NoDb]
    /\ reserved = NoProc
    /\ shared = {}
    /\ pc = [p \in Proc |-> "idle"]
    /\ op = [p \in Proc |-> NoOp]
    /\ id = [p \in Proc |-> 0]
    /\ alters = [p \in Proc |-> {}]
    /\ list = [p \in Proc |-> NoList]
    /\ todo = [p \in Proc |-> {}]
    /\ held = [p \in Proc |-> NoneHeld]

Goto(p, label) == pc' = [pc EXCEPT ![p] = label]

\* What the stored rows make of network n: its definition, or Torn, if the lists
\* are not those that belong to its row.
Definition(d, n) ==
    LET row == d.rows[n]
    IN  IF row = NoRow THEN NoValue
        ELSE IF \A t \in Table : ChildList(d, row.id, t) = Lists[row.value][t]
             THEN row.value ELSE Torn

\* The database becomes d; history: processes that list see a network change.
Commit(d) ==
    /\ db' = d
    /\ held' = [p \in Proc |->
                   IF pc[p] = "lists"
                   THEN [n \in Net |-> held[p][n] \cup {Definition(d, n)}]
                   ELSE held[p]]

\* The process ends; what its transaction did is rolled back.
End(p) ==
    /\ Goto(p, "idle")
    /\ tx' = [tx EXCEPT ![p] = NoDb]
    /\ reserved' = IF reserved = p THEN NoProc ELSE reserved
    /\ shared' = shared \ {p}
    /\ op' = [op EXCEPT ![p] = NoOp]
    /\ id' = [id EXCEPT ![p] = 0]
    /\ alters' = [alters EXCEPT ![p] = {}]
    /\ list' = [list EXCEPT ![p] = NoList]
    /\ todo' = [todo EXCEPT ![p] = {}]

Fail(p) == End(p) /\ held' = [held EXCEPT ![p] = NoneHeld] /\ UNCHANGED db

Start(p) ==
    /\ pc[p] = "idle"
    /\ \E o \in Op : op' = [op EXCEPT ![p] = o]
    /\ Goto(p, "inspect")
    /\ UNCHANGED <<db, locks, id, alters, reading>>

Kill(p) == pc[p] # "idle" /\ Fail(p)

(***************************************************************************)
(* Locks.                                                                  *)
(***************************************************************************)
\* A statement outside a transaction that has read may write.
MayWrite == reserved = NoProc

\* The database file may be changed: nobody else has a lock on it.
MayCommit(p) == reserved \in {NoProc, p} /\ shared \subseteq {p}

\* The wait for a lock is over after 5 s.
Busy(p) ==
    /\ \/ pc[p] = "insert" /\ ~MayWrite
       \/ pc[p] \in {"alter", "delete", "commit"} /\ ~MayCommit(p)
    /\ Fail(p)

(***************************************************************************)
(* OpenDB: migrateSubnetsTable.                                            *)
(***************************************************************************)
\* A bug to compare with: the table counts as migrated if it has one of the columns.
MissingUnlessAny(d) == IF d.columns = {} THEN ToSet(Columns) ELSE {}

Missing(d) == ToSet(Columns) \ d.columns

Inspect(p) ==
    /\ pc[p] = "inspect"
    /\ alters' = [alters EXCEPT ![p] = Missing(db)]
    /\ Goto(p, IF Missing(db) = {} THEN First(op[p].kind) ELSE "alter")
    /\ UNCHANGED <<db, locks, op, id, reading>>

\* One ALTER TABLE; it fails if another process has added the column meanwhile.
Alter(p) ==
    /\ pc[p] = "alter"
    /\ MayCommit(p)
    /\ \E c \in alters[p] :
          /\ \A b \in alters[p] : Index(Columns, c) <= Index(Columns, b)
          /\ \/ c \in db.columns /\ Fail(p)
             \/ /\ c \notin db.columns
                /\ Commit([db EXCEPT !.columns = @ \cup {c}])
                /\ alters' = [alters EXCEPT ![p] = @ \ {c}]
                /\ Goto(p, IF alters[p] = {c} THEN First(op[p].kind) ELSE "alter")
                /\ UNCHANGED <<locks, op, id, list, todo>>

(***************************************************************************)
(* InsertSubnet, UpdateSubnet, DeleteSubnet.                               *)
(***************************************************************************)
Insert(p) ==
    /\ pc[p] = "insert"
    /\ MayWrite
    /\ LET n == op[p].net
       IN  \/ db.rows[n] # NoRow /\ Fail(p)
           \/ /\ db.rows[n] = NoRow /\ NextId(db) <= MaxId
              /\ reserved' = p
              /\ id' = [id EXCEPT ![p] = NextId(db)]
              /\ tx' = [tx EXCEPT ![p] = WithRow(db, n, NextId(db), op[p].value)]
              /\ Goto(p, "write")
              /\ UNCHANGED <<db, shared, op, alters, reading>>

Select(p) ==
    /\ pc[p] = "select"
    /\ LET row == db.rows[op[p].net]
       IN  \/ row = NoRow /\ Fail(p)
           \/ /\ row # NoRow
              /\ shared' = shared \cup {p}
              /\ id' = [id EXCEPT ![p] = row.id]
              /\ tx' = [tx EXCEPT ![p] = db]
              /\ Goto(p, "update")
              /\ UNCHANGED <<db, reserved, op, alters, reading>>

Update(p) ==
    /\ pc[p] = "update"
    /\ \/ ~MayWrite /\ Fail(p)
       \/ /\ MayWrite
          /\ reserved' = p
          /\ tx' = [tx EXCEPT ![p] = WithRow(@, op[p].net, id[p], op[p].value)]
          /\ Goto(p, "clear")
          /\ UNCHANGED <<db, shared, op, id, alters, reading>>

Clear(p) ==
    /\ pc[p] = "clear"
    /\ tx' = [tx EXCEPT ![p] = ClearChildren(@, id[p])]
    /\ Goto(p, "write")
    /\ UNCHANGED <<db, reserved, shared, op, id, alters, reading>>

Write(p) ==
    /\ pc[p] = "write"
    /\ tx' = [tx EXCEPT ![p] = WriteChildren(@, id[p], op[p].value)]
    /\ Goto(p, "commit")
    /\ UNCHANGED <<db, reserved, shared, op, id, alters, reading>>

CommitTx(p) ==
    /\ pc[p] = "commit"
    /\ MayCommit(p)
    /\ Commit(tx[p])
    /\ End(p)

Delete(p) ==
    /\ pc[p] = "delete"
    /\ MayCommit(p)
    /\ LET n == op[p].net
       IN  \/ db.rows[n] = NoRow /\ Fail(p)
           \/ db.rows[n] # NoRow /\ Commit(WithoutRow(db, n)) /\ End(p)

(***************************************************************************)
(* GetSubnets: one query for the rows, then one for each list of each row, *)
(* and no transaction around them.                                         *)
(***************************************************************************)
ReadRows(p) ==
    /\ pc[p] = "rows"
    /\ LET found == {n \in Net : db.rows[n] # NoRow}
       IN  /\ list' = [list EXCEPT ![p] =
                          [n \in Net |-> [NoList[n] EXCEPT !.value = db.rows[n].value]]]
           /\ todo' = [todo EXCEPT ![p] =
                          {[net |-> n, id |-> db.rows[n].id, table |-> t] :
                              n \in found, t \in Table}]
           /\ Goto(p, IF todo'[p] = {} THEN "listed" ELSE "lists")
    /\ held' = [held EXCEPT ![p] = [n \in Net |-> {Definition(db, n)}]]
    /\ UNCHANGED <<db, locks, op, id, alters>>

\* The loops: query q comes before query r.
Before(q, r) ==
    \/ Index(NetOrder, q.net) < Index(NetOrder, r.net)
    \/ q.net = r.net /\ Index(TableOrder, q.table) < Index(TableOrder, r.table)

ReadList(p) ==
    /\ pc[p] = "lists"
    /\ \E q \in todo[p] :
          /\ \A r \in todo[p] : ~Before(r, q)
          /\ list' = [list EXCEPT ![p][q.net].lists[q.table] = ChildList(db, q.id, q.table)]
          /\ todo' = [todo EXCEPT ![p] = @ \ {q}]
          /\ Goto(p, IF todo[p] = {q} THEN "listed" ELSE "lists")
    /\ UNCHANGED <<db, locks, op, id, alters, held>>

Answer(p) == pc[p] = "listed" /\ Fail(p)

Step(p) ==
    \/ Start(p) \/ Kill(p) \/ Busy(p) \/ Inspect(p) \/ Alter(p)
    \/ Insert(p) \/ Select(p) \/ Update(p) \/ Clear(p) \/ Write(p) \/ CommitTx(p)
    \/ Delete(p) \/ ReadRows(p) \/ ReadList(p) \/ Answer(p)

Next == \E p \in Proc : Step(p)

Spec == Init /\ [][Next]_vars

(***************************************************************************)
(* Properties.                                                             *)
(***************************************************************************)
\* Whatever is killed, refused or run side by side, a subnet is added, replaced or
\* removed as a whole: its row and its ten child tables never tell of different
\* writes (the transactions of InsertSubnet and UpdateSubnet, the cascade of
\* DeleteSubnet).
Map == INSTANCE SubnetMap WITH subnets <- [n \in Net |-> Definition(db, n)]

ImplementsMap == Map!Spec

\* GetSubnets takes no transaction, so a listing may tell the row of one definition
\* and the ranges of the next.  But each part of what it tells of a network is what
\* that network had at some time while it was read, and never another network's:
\* without a write at that time the listing is exact.
ListingWithinWindow ==
    \A p \in Proc : pc[p] = "listed" =>
        \A n \in Net :
            /\ list[p][n].value \in held[p][n]
            /\ \A t \in Table :
                  \/ \E v \in held[p][n] \ {NoValue} : list[p][n].lists[t] = Lists[v][t]
                  \/ NoValue \in held[p][n] /\ list[p][n].lists[t] = <<>>

\* DeleteSubnet leaves no child row behind, nor does a transaction that is undone.
ChildrenHaveParents == \A k \in db.kids : \E n \in Net : db.rows[n].id = k.id

\* migrateSubnetsTable "must run before any such query": no statement names a column
\* the table lacks, though two processes may migrate at once and one may be killed
\* between two of its ALTERs.
QueriesFindTheirColumns ==
    \A p \in Proc : pc[p] \in Querying => ToSet(Columns) \subseteq db.columns
=============================================================================
