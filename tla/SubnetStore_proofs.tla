------------------------- MODULE SubnetStore_proofs -------------------------
(***************************************************************************)
(* Proofs about SubnetStore, for any number of processes, networks,        *)
(* definitions, child tables and columns: the file is whole at all times,  *)
(* so it implements SubnetMap; a listing mixes nothing up; no statement    *)
(* meets a column that is not there.                                       *)
(***************************************************************************)
EXTENDS SubnetStoreInv, FiniteSetTheorems, TLAPS

(***************************************************************************)
(* The rows of a list, read back in the order of their positions, are the  *)
(* list.                                                                   *)
(***************************************************************************)
ChildRow(i, v, t, j) == [id |-> i, table |-> t, position |-> j - 1, item |-> Lists[v][t][j]]

\* The first n of them.
FirstRows(i, v, t, n) == {ChildRow(i, v, t, j) : j \in 1 .. n}

LEMMA CountFirstRows ==
    ASSUME NEW i, NEW v \in Value, NEW t \in Table, NEW n \in 0 .. Len(Lists[v][t])
    PROVE  Cardinality(FirstRows(i, v, t, n)) = n
  <1> DEFINE f == [j \in 1 .. n |-> ChildRow(i, v, t, j)]
  <1>1. Lists[v][t] \in Seq(Item)
    BY ValueAssumption
  <1>2. n \in Nat
    BY <1>1
  <1>3. IsFiniteSet(1 .. n) /\ Cardinality(1 .. n) = n
    BY <1>2, FS_Interval
  <1>4. f \in Bijection(1 .. n, FirstRows(i, v, t, n))
    <2>1. f \in [1 .. n -> FirstRows(i, v, t, n)]
      BY DEF FirstRows
    <2>2. \A j, k \in 1 .. n : f[j] = f[k] => j = k
      BY <1>2 DEF ChildRow
    <2>3. \A r \in FirstRows(i, v, t, n) : \E j \in 1 .. n : f[j] = r
      BY DEF FirstRows
    <2>4. QED
      BY <2>1, <2>2, <2>3 DEF Bijection, Injection, Surjection, IsInjective
  <1>5. QED
    BY <1>3, <1>4, FS_Bijection DEF ExistsBijection

LEMMA ListReadBack ==
    ASSUME NEW d, NEW i, NEW v \in Value, NEW t \in Table,
           Kids(d, i, t) = ChildRows(i, v, t)
    PROVE  ChildList(d, i, t) = Lists[v][t]
  <1> DEFINE L == Lists[v][t]
             N == Len(L)
             row(j) == ChildRow(i, v, t, j)
             kids == FirstRows(i, v, t, N)
  <1>1. L \in Seq(Item) /\ N \in Nat /\ DOMAIN L = 1 .. N
    BY ValueAssumption
  <1>2. Kids(d, i, t) = kids
    BY <1>1 DEF ChildRows, ChildRow, FirstRows
  <1>3. Cardinality(kids) = N
    BY <1>1, CountFirstRows
  <1>4. ASSUME NEW j \in 1 .. N, NEW k \in 1 .. N
        PROVE  IsNth(kids, row(k), j) <=> k = j
    <2>1. {x \in kids : x.position < row(k).position} = FirstRows(i, v, t, k - 1)
      BY <1>1 DEF ChildRow, FirstRows
    <2>2. {x \in kids : x.position <= row(k).position} = FirstRows(i, v, t, k)
      BY <1>1 DEF ChildRow, FirstRows
    <2>3. k - 1 \in 0 .. N /\ k \in 0 .. N
      BY <1>1
    <2>4. Cardinality(FirstRows(i, v, t, k - 1)) = k - 1
      BY <2>3, CountFirstRows
    <2>5. Cardinality(FirstRows(i, v, t, k)) = k
      BY <2>3, CountFirstRows
    <2>6. IsNth(kids, row(k), j) <=> k - 1 < j /\ j <= k
      BY <2>1, <2>2, <2>4, <2>5, Zenon DEF IsNth
    <2>7. QED
      BY <1>1, <2>6
  <1>5. ASSUME NEW j \in 1 .. N
        PROVE  (CHOOSE x \in kids : IsNth(kids, x, j)).item = L[j]
    <2> DEFINE c == CHOOSE x \in kids : IsNth(kids, x, j)
    <2>1. row(j) \in kids /\ IsNth(kids, row(j), j)
      BY <1>4 DEF FirstRows
    <2>2. c \in kids /\ IsNth(kids, c, j)
      BY <2>1, Zenon
    <2>3. PICK k \in 1 .. N : c = row(k)
      BY <2>2 DEF FirstRows
    <2>4. k = j
      BY <1>4, <2>2, <2>3, Zenon
    <2>5. c = ChildRow(i, v, t, j)
      BY <2>3, <2>4
    <2> HIDE DEF c
    <2>6. c.item = L[j]
      BY <2>5 DEF ChildRow
    <2>7. QED
      BY <2>6 DEF c
  <1>6. ChildList(d, i, t) = [j \in 1 .. N |-> L[j]]
    BY <1>2, <1>3, <1>5, Zenon DEF ChildList
  <1>7. QED
    BY <1>1, <1>6

LEMMA NothingReadBack ==
    ASSUME NEW d, NEW i, NEW t, Kids(d, i, t) = {}
    PROVE  ChildList(d, i, t) = <<>>
  <1>1. Cardinality({}) = 0
    BY FS_EmptySet
  <1>2. 1 .. 0 = {}
    OBVIOUS
  <1>3. QED
    BY <1>1, <1>2 DEF ChildList

(***************************************************************************)
(* What the commits of the three requests make of a database that is       *)
(* whole.                                                                  *)
(***************************************************************************)
LEMMA RowFields ==
    ASSUME NEW r \in RowType
    PROVE  /\ r # NoRow => r.id \in 1 .. MaxId /\ r.value \in Value
           /\ r = NoRow => r.id = 0 /\ r.value = NoValue
           /\ r.id \in 0 .. MaxId /\ (r.id = 0 <=> r = NoRow)
  BY BoundAssumption DEF RowType, NoRow

LEMMA ChildFields ==
    ASSUME NEW i \in 1 .. MaxId, NEW v \in Value, NEW t \in Table,
           NEW k \in ChildRows(i, v, t)
    PROVE  k \in Child /\ k.id = i /\ k.table = t
  <1>1. Lists[v][t] \in Seq(Item)
    BY ValueAssumption
  <1>2. PICK j \in DOMAIN Lists[v][t] :
          k = [id |-> i, table |-> t, position |-> j - 1, item |-> Lists[v][t][j]]
    BY DEF ChildRows
  <1>3. j \in Nat \ {0} /\ Lists[v][t][j] \in Item
    BY <1>1
  <1>4. QED
    BY <1>2, <1>3 DEF Child

\* Child rows belong to rows, so an id that no row has is free.
LEMMA NoKids ==
    ASSUME NEW d, Whole(d), NEW i, \A n \in Net : d.rows[n].id # i
    PROVE  \A k \in d.kids : k.id # i
  BY DEF Whole

LEMMA WholeDefinition ==
    ASSUME NEW d, Whole(d), NEW n \in Net
    PROVE  Definition(d, n) = d.rows[n].value
  <1>1. d.rows[n] \in RowType
    BY DEF Whole, Database
  <1>2. CASE d.rows[n] = NoRow
    BY <1>2 DEF Definition, NoRow
  <1>3. CASE d.rows[n] # NoRow
    <2>1. d.rows[n].value \in Value
      BY <1>1, <1>3, RowFields
    <2>2. \A t \in Table : Kids(d, d.rows[n].id, t) = ChildRows(d.rows[n].id, d.rows[n].value, t)
      BY <1>3 DEF Whole
    <2>3. \A t \in Table : ChildList(d, d.rows[n].id, t) = Lists[d.rows[n].value][t]
      BY <2>1, <2>2, ListReadBack
    <2>4. QED
      BY <1>3, <2>3 DEF Definition
  <1>4. QED
    BY <1>2, <1>3

\* e is d with definition v for network n, under id i.
Stored(d, e, n, i, v) ==
    /\ e.rows = [d.rows EXCEPT ![n] = [id |-> i, value |-> v]]
    /\ e.kids = {k \in d.kids : k.id # i} \cup UNION {ChildRows(i, v, t) : t \in Table}
    /\ e.lastId = IF i > d.lastId THEN i ELSE d.lastId
    /\ e.columns = d.columns
    /\ e = [rows |-> e.rows, kids |-> e.kids, lastId |-> e.lastId, columns |-> e.columns]

LEMMA StoredWhole ==
    ASSUME NEW d, Whole(d), NEW e, NEW n \in Net, NEW i \in 1 .. MaxId, NEW v \in Value,
           Stored(d, e, n, i, v),
           \A m \in Net \ {n} : d.rows[m].id # i,
           d.rows[n] # NoRow => d.rows[n].id = i
    PROVE  Whole(e)
  <1> DEFINE row == [id |-> i, value |-> v]
  <1>1. /\ d.rows \in [Net -> RowType] /\ d.kids \in SUBSET Child
        /\ d.lastId \in 0 .. MaxId /\ d.columns \in SUBSET ToSet(Columns)
    BY DEF Whole, Database
  <1>2. row \in RowType /\ row # NoRow /\ row.id = i /\ row.value = v
    BY BoundAssumption DEF RowType, NoRow
  <1> HIDE DEF row
  <1>3. e.rows[n] = row /\ \A m \in Net \ {n} : e.rows[m] = d.rows[m]
    BY <1>1 DEF Stored, row
  <1>4. e.rows \in [Net -> RowType]
    BY <1>1, <1>2 DEF Stored, row
  <1>5. \A k \in e.kids : \/ k \in d.kids /\ k.id # i
                          \/ \E t \in Table : k \in ChildRows(i, v, t)
    BY DEF Stored
  <1>6. e.kids \in SUBSET Child
    BY <1>1, <1>5, ChildFields
  <1>7. e.lastId \in 0 .. MaxId /\ d.lastId <= e.lastId /\ i <= e.lastId
    BY <1>1, BoundAssumption DEF Stored
  <1>8. e \in Database
    BY <1>1, <1>4, <1>6, <1>7 DEF Stored, Database
  <1>9. \A m \in Net : e.rows[m].id <= e.lastId
    <2>1. \A m \in Net : d.rows[m].id \in 0 .. MaxId /\ d.rows[m].id <= d.lastId
      BY <1>1, RowFields DEF Whole
    <2>2. QED
      BY <1>1, <1>2, <1>3, <1>7, <2>1, BoundAssumption
  <1>10. ASSUME NEW l \in Net, NEW m \in Net, e.rows[l] # NoRow, e.rows[l].id = e.rows[m].id
         PROVE  l = m
    <2>1. CASE l = n
      BY <1>2, <1>3, <1>10, <2>1
    <2>2. CASE m = n
      BY <1>2, <1>3, <1>10, <2>2
    <2>3. CASE l # n /\ m # n
      BY <1>3, <1>10, <2>3 DEF Whole
    <2>4. QED
      BY <2>1, <2>2, <2>3
  <1>11. ASSUME NEW k \in e.kids
         PROVE  \E m \in Net : e.rows[m].id = k.id
    <2>1. CASE k \in d.kids /\ k.id # i
      <3>1. PICK m \in Net : d.rows[m].id = k.id
        BY <2>1 DEF Whole
      <3>2. CASE m # n
        BY <1>3, <3>1, <3>2
      <3>3. CASE m = n
        <4>1. d.rows[n] = NoRow
          BY <2>1, <3>1, <3>3
        <4>2. k.id = 0
          BY <3>1, <3>3, <4>1 DEF NoRow
        <4>3. QED
          BY <1>1, <2>1, <4>2 DEF Child
      <3>4. QED
        BY <3>2, <3>3
    <2>2. CASE \E t \in Table : k \in ChildRows(i, v, t)
      BY <1>2, <1>3, <2>2, ChildFields
    <2>3. QED
      BY <1>5, <2>1, <2>2
  <1>12. ASSUME NEW m \in Net, NEW t \in Table, e.rows[m] # NoRow
         PROVE  Kids(e, e.rows[m].id, t) = ChildRows(e.rows[m].id, e.rows[m].value, t)
    <2>1. CASE m = n
      <3>1. \A k \in e.kids : k.id = i /\ k.table = t <=> k \in ChildRows(i, v, t)
        BY <1>5, ChildFields
      <3>2. \A k \in ChildRows(i, v, t) : k \in e.kids
        BY DEF Stored
      <3>3. Kids(e, i, t) = ChildRows(i, v, t)
        BY <3>1, <3>2 DEF Kids
      <3>4. QED
        BY <1>2, <1>3, <2>1, <3>3
    <2>2. CASE m # n
      <3> DEFINE j == d.rows[m].id
      <3>1. e.rows[m] = d.rows[m] /\ j # i
        BY <1>3, <2>2
      <3>2. \A k : k \in e.kids /\ k.id = j <=> k \in d.kids /\ k.id = j
        <4>1. \A k \in d.kids : k.id # i => k \in e.kids
          BY DEF Stored
        <4>2. QED
          BY <1>5, <3>1, <4>1, ChildFields
      <3>3. Kids(e, j, t) = Kids(d, j, t)
        BY <3>2 DEF Kids
      <3>4. QED
        BY <1>12, <3>1, <3>3 DEF Whole
    <2>3. QED
      BY <2>1, <2>2
  <1>13. QED
    BY <1>8, <1>9, <1>10, <1>11, <1>12 DEF Whole

LEMMA DeletedWhole ==
    ASSUME NEW d, Whole(d), NEW n \in Net, d.rows[n] # NoRow
    PROVE  /\ Whole(WithoutRow(d, n))
           /\ WithoutRow(d, n).rows = [d.rows EXCEPT ![n] = NoRow]
           /\ WithoutRow(d, n).lastId = d.lastId
           /\ WithoutRow(d, n).columns = d.columns
  <1> DEFINE i == d.rows[n].id
             e == WithoutRow(d, n)
  <1>1. /\ d.rows \in [Net -> RowType] /\ d.kids \in SUBSET Child
        /\ d.lastId \in 0 .. MaxId /\ d.columns \in SUBSET ToSet(Columns)
    BY DEF Whole, Database
  <1>2. /\ e.rows = [d.rows EXCEPT ![n] = NoRow]
        /\ e.kids = {k \in d.kids : k.id # i}
        /\ e.lastId = d.lastId /\ e.columns = d.columns
        /\ e = [rows |-> e.rows, kids |-> e.kids, lastId |-> e.lastId, columns |-> e.columns]
    <2>1. d \in Database
      BY DEF Whole
    <2>2. e = [d EXCEPT !.rows = [d.rows EXCEPT ![n] = NoRow], !.kids = Cascade(d, i)]
      BY <1>1, <2>1 DEF Database, WithoutRow
    <2>3. e = [rows |-> [d.rows EXCEPT ![n] = NoRow], kids |-> Cascade(d, i),
               lastId |-> d.lastId, columns |-> d.columns]
      BY <2>1, <2>2 DEF Database
    <2> HIDE DEF e, i
    <2>4. QED
      BY <2>3 DEF Cascade
  <1> HIDE DEF e
  <1>3. e.rows[n] = NoRow /\ \A m \in Net \ {n} : e.rows[m] = d.rows[m]
    BY <1>1, <1>2
  <1>4. NoRow \in RowType /\ NoRow.id = 0
    BY DEF RowType, NoRow
  <1>5. \A m \in Net \ {n} : d.rows[m].id # i
    BY DEF Whole
  <1>6. e.rows \in [Net -> RowType]
    BY <1>1, <1>2, <1>4
  <1>7. e \in Database
    BY <1>1, <1>2, <1>6 DEF Database
  <1>8. \A m \in Net : e.rows[m].id <= e.lastId
    BY <1>1, <1>2, <1>3, <1>4 DEF Whole
  <1>9. \A l, m \in Net : e.rows[l] # NoRow /\ e.rows[l].id = e.rows[m].id => l = m
    <2>1. \A l \in Net : e.rows[l] # NoRow => e.rows[l].id # 0
      BY <1>6, RowFields
    <2>2. QED
      BY <1>3, <1>4, <2>1 DEF Whole
  <1>10. \A k \in e.kids : \E m \in Net : e.rows[m].id = k.id
    BY <1>2, <1>3 DEF Whole
  <1>11. ASSUME NEW m \in Net, NEW t \in Table, e.rows[m] # NoRow
         PROVE  Kids(e, e.rows[m].id, t) = ChildRows(e.rows[m].id, e.rows[m].value, t)
    <2>1. m # n /\ e.rows[m] = d.rows[m] /\ d.rows[m].id # i
      BY <1>3, <1>5, <1>11
    <2>2. Kids(e, d.rows[m].id, t) = Kids(d, d.rows[m].id, t)
      BY <1>2, <2>1 DEF Kids
    <2>3. QED
      BY <1>11, <2>1, <2>2 DEF Whole
  <1>12. Whole(e)
    BY <1>7, <1>8, <1>9, <1>10, <1>11 DEF Whole
  <1>13. QED
    BY <1>2, <1>12 DEF e

LEMMA ColumnWhole ==
    ASSUME NEW d, Whole(d), NEW c \in ToSet(Columns)
    PROVE  LET e == [d EXCEPT !.columns = @ \cup {c}]
           IN  /\ Whole(e) /\ e.rows = d.rows /\ e.lastId = d.lastId
               /\ e.columns = d.columns \cup {c}
  <1> DEFINE e == [d EXCEPT !.columns = @ \cup {c}]
  <1>1. d \in Database
    BY DEF Whole
  <1>2. /\ e \in Database /\ e.rows = d.rows /\ e.lastId = d.lastId /\ e.kids = d.kids
        /\ e.columns = d.columns \cup {c}
    BY <1>1 DEF Database
  <1> HIDE DEF e
  <1>3. Whole(e)
    BY <1>2 DEF Whole, Kids
  <1>4. QED
    BY <1>2, <1>3 DEF e

(***************************************************************************)
(* The statements of a transaction.                                        *)
(***************************************************************************)
LEMMA WithRowFields ==
    ASSUME NEW d \in Database, NEW n \in Net, NEW i, NEW v
    PROVE  WithRow(d, n, i, v) =
             [rows |-> [d.rows EXCEPT ![n] = [id |-> i, value |-> v]], kids |-> d.kids,
              lastId |-> IF i > d.lastId THEN i ELSE d.lastId, columns |-> d.columns]
  <1> DEFINE row == [id |-> i, value |-> v]
             last == IF i > d.lastId THEN i ELSE d.lastId
  <1>1. WithRow(d, n, i, v) = [d EXCEPT !.rows = [d.rows EXCEPT ![n] = row], !.lastId = last]
    BY DEF WithRow, Database
  <1> HIDE DEF row, last
  <1>2. WithRow(d, n, i, v) = [rows |-> [d.rows EXCEPT ![n] = row], kids |-> d.kids,
                               lastId |-> last, columns |-> d.columns]
    BY <1>1 DEF Database
  <1>3. QED
    BY <1>2 DEF row, last

LEMMA StatementTypes ==
    ASSUME NEW d \in Database, NEW n \in Net, NEW i \in 1 .. MaxId, NEW v \in Value
    PROVE  /\ WithRow(d, n, i, v) \in Database /\ WithRow(d, n, i, v).rows[n] # NoRow
           /\ ClearChildren(d, i) \in Database /\ ClearChildren(d, i).rows = d.rows
           /\ WriteChildren(d, i, v) \in Database /\ WriteChildren(d, i, v).rows = d.rows
  <1>1. [id |-> i, value |-> v] \in RowType \ {NoRow}
    BY BoundAssumption DEF RowType, NoRow
  <1>2. WithRow(d, n, i, v) \in Database /\ WithRow(d, n, i, v).rows[n] # NoRow
    <2> DEFINE row == [id |-> i, value |-> v]
               last == IF i > d.lastId THEN i ELSE d.lastId
    <2>1. WithRow(d, n, i, v) = [rows |-> [d.rows EXCEPT ![n] = row], kids |-> d.kids,
                                 lastId |-> last, columns |-> d.columns]
      BY WithRowFields
    <2>2. [d.rows EXCEPT ![n] = row] \in [Net -> RowType] /\ d.rows \in [Net -> RowType]
      BY <1>1 DEF Database
    <2>3. last \in 0 .. MaxId
      BY BoundAssumption DEF Database
    <2> HIDE DEF row, last
    <2>4. QED
      BY <1>1, <2>1, <2>2, <2>3 DEF Database, row
  <1>3. ClearChildren(d, i) \in Database /\ ClearChildren(d, i).rows = d.rows
    BY DEF ClearChildren, Database
  <1>4. UNION {ChildRows(i, v, t) : t \in Table} \in SUBSET Child
    BY ChildFields
  <1>5. WriteChildren(d, i, v) \in Database /\ WriteChildren(d, i, v).rows = d.rows
    BY <1>4 DEF WriteChildren, Database
  <1>6. QED
    BY <1>2, <1>3, <1>5

LEMMA NotEmpty ==
    ASSUME NEW d, NEW n \in Net, d.rows[n] # NoRow
    PROVE  d # NoDb
  BY DEF NoDb

LEMMA OpFields ==
    ASSUME NEW o \in Op
    PROVE  /\ o.kind \in {"insert", "update", "delete", "list"}
           /\ o.kind \in {"insert", "update"} => o.net \in Net /\ o.value \in Value
           /\ o.kind = "delete" => o.net \in Net
  BY DEF Op

(***************************************************************************)
(* The invariant, by process.                                              *)
(***************************************************************************)
Types ==
    /\ reserved \in Proc \cup {NoProc}
    /\ shared \in SUBSET Proc
    /\ pc \in [Proc -> PC]
    /\ op \in [Proc -> Op \cup {NoOp}]
    /\ id \in [Proc -> 0 .. MaxId]
    /\ LocalTypes

Own(p) ==
    /\ (pc[p] \in InTx) <=> (tx[p] # NoDb)
    /\ OpInv(p) /\ TxInv(p) /\ MigrateInv(p) /\ ListInv(p)
    /\ \A q \in todo[p] : q.id <= db.lastId

LEMMA Parts == IInv <=> Types /\ Whole(db) /\ \A p \in Proc : Own(p)
  <1>1. ASSUME IInv PROVE Types /\ Whole(db) /\ \A p \in Proc : Own(p)
    BY <1>1 DEF IInv, TypeOK, Types, Own
  <1>2. ASSUME Types, Whole(db), \A p \in Proc : Own(p) PROVE IInv
    <2>1. db \in Database
      BY <1>2 DEF Whole
    <2>2. ASSUME NEW p \in Proc
          PROVE  /\ p \in shared => pc[p] \in InTx
                 /\ reserved = p => pc[p] \in InTx \ {"update"}
                 /\ pc[p] \in {"clear", "write", "commit"} => reserved = p
      BY <1>2 DEF Own, TxInv, InTx
    <2>3. QED
      BY <1>2, <2>1, <2>2 DEF IInv, TypeOK, Types, Own
  <1>3. QED
    BY <1>1, <1>2

LEMMA PartsAfter ==
    ASSUME Types', Whole(db)', \A p \in Proc : Own(p)'
    PROVE  IInv'
  <1>1. db' \in Database
    BY DEF Whole
  <1>2. ASSUME NEW p \in Proc
        PROVE  /\ p \in shared' => pc'[p] \in InTx
               /\ reserved' = p => pc'[p] \in InTx \ {"update"}
               /\ pc'[p] \in {"clear", "write", "commit"} => reserved' = p
    BY DEF Own, TxInv, InTx
  <1>3. QED
    BY <1>1, <1>2 DEF IInv, TypeOK, Types, Own

\* A step of another process than q.
Others(q) ==
    /\ pc'[q] = pc[q] /\ op'[q] = op[q] /\ id'[q] = id[q] /\ tx'[q] = tx[q]
    /\ alters'[q] = alters[q] /\ list'[q] = list[q] /\ todo'[q] = todo[q]
    /\ (q \in shared') <=> (q \in shared)
    /\ (reserved' = q) <=> (reserved = q)

LEMMA QuietStep ==
    ASSUME NEW q \in Proc, Own(q), Others(q), UNCHANGED db, held'[q] = held[q]
    PROVE  Own(q)'
  <1>1. OpInv(q)'
    BY DEF Own, OpInv, Others
  <1>2. TxInv(q)' /\ ((pc'[q] \in InTx) <=> (tx'[q] # NoDb))
    BY DEF Own, TxInv, Others, Rewritten, Emptied
  <1>3. MigrateInv(q)'
    BY DEF Own, MigrateInv, Others
  <1>4. ListInv(q)' /\ \A r \in todo'[q] : r.id <= db'.lastId
    BY DEF Own, ListInv, ListFound, Others
  <1>5. QED
    BY <1>1, <1>2, <1>3, <1>4 DEF Own

\* Whoever may change the file is the only one in a transaction.
LEMMA Alone ==
    ASSUME NEW p \in Proc, NEW q \in Proc, q # p, MayCommit(p), Own(q)
    PROVE  pc[q] \notin InTx
  <1> SUFFICES ASSUME pc[q] \in InTx PROVE FALSE
    OBVIOUS
  <1>1. reserved # q /\ q \notin shared
    BY ProcAssumption DEF MayCommit
  <1>2. pc[q] = "update" /\ op[q].kind = "update"
    BY <1>1 DEF Own, TxInv, OpInv
  <1>3. QED
    BY <1>1, <1>2 DEF Own, TxInv

\* The ids of a database that is whole after a commit: a row keeps its id, is gone,
\* or is new and has an id nobody had.
IdsKept(d, e) ==
    /\ d.lastId <= e.lastId
    /\ \A n \in Net : \/ e.rows[n].id = d.rows[n].id
                      \/ e.rows[n] = NoRow
                      \/ d.rows[n] = NoRow /\ e.rows[n].id > d.lastId

LEMMA ListingGoesOn ==
    ASSUME Types, Whole(db), Whole(db'), IdsKept(db, db'), NEW q \in Proc, Own(q), Others(q),
           pc[q] = "lists",
           held'[q] = [n \in Net |-> held[q][n] \cup {Definition(db', n)}]
    PROVE  ListInv(q)' /\ \A r \in todo'[q] : r.id <= db'.lastId
  <1>1. \A n \in Net : held[q][n] \subseteq held'[q][n] /\ Definition(db', n) \in held'[q][n]
    OBVIOUS
  <1>2. db.lastId \in Nat /\ db'.lastId \in Nat
    BY BoundAssumption DEF Whole, Database
  <1>3. \A n \in Net : db.rows[n] \in RowType /\ db'.rows[n] \in RowType
    BY DEF Whole, Database
  <1>4. \A r \in todo[q] : r.id \in 1 .. MaxId /\ r.id <= db.lastId /\ r.net \in Net
    BY DEF Types, LocalTypes, Own, Query
  <1>5. \A r \in todo[q] : r.id <= db'.lastId
    BY <1>2, <1>4, BoundAssumption DEF IdsKept
  <1>6. ASSUME NEW n \in Net, NEW t \in Table, ListFound(q, n, t)
        PROVE  ListFound(q, n, t)'
    BY <1>1, <1>6 DEF ListFound, Others
  <1>7. ASSUME NEW n \in Net
        PROVE  /\ list'[q][n].value \in held'[q][n]
               /\ \A t \in Table : (\E r \in todo'[q] : r.net = n /\ r.table = t)
                                      \/ ListFound(q, n, t)'
    BY <1>1, <1>6 DEF Own, ListInv, Others
  <1>8. ASSUME NEW r \in todo[q]
        PROVE  \/ db'.rows[r.net].id = r.id
               \/ /\ NoValue \in held'[q][r.net]
                  /\ \A n \in Net : db'.rows[n].id # r.id
    <2>1. \A n \in Net : db.rows[n].id # r.id => db'.rows[n].id # r.id
      <3>1. ASSUME NEW n \in Net, db.rows[n].id # r.id PROVE db'.rows[n].id # r.id
        <4>1. db'.rows[n] = NoRow => db'.rows[n].id = 0
          BY DEF NoRow
        <4>2. db'.rows[n].id \in Nat
          BY <1>3, RowFields, BoundAssumption
        <4>3. QED
          BY <1>2, <1>4, <3>1, <4>1, <4>2, BoundAssumption DEF IdsKept
      <3>2. QED
        BY <3>1
    <2>2. CASE db.rows[r.net].id = r.id
      <3>1. \A n \in Net \ {r.net} : db.rows[n].id # r.id
        <4>1. db.rows[r.net] # NoRow
          BY <1>3, <1>4, <2>2, RowFields, BoundAssumption
        <4>2. QED
          BY <1>4, <2>2, <4>1 DEF Whole
      <3>2. CASE db'.rows[r.net].id = r.id
        BY <3>2
      <3>3. CASE db'.rows[r.net].id # r.id
        <4>1. db'.rows[r.net] = NoRow
          <5>1. db.rows[r.net] # NoRow
            BY <1>3, <1>4, <2>2, RowFields, BoundAssumption
          <5>2. QED
            BY <1>4, <2>2, <3>3, <5>1 DEF IdsKept
        <4>2. Definition(db', r.net) = NoValue
          BY <4>1 DEF Definition
        <4>3. \A n \in Net : db'.rows[n].id # r.id
          BY <2>1, <3>1, <3>3
        <4>4. QED
          BY <1>1, <1>4, <4>2, <4>3
      <3>4. QED
        BY <3>2, <3>3
    <2>3. CASE /\ NoValue \in held[q][r.net]
               /\ \A n \in Net : db.rows[n].id # r.id
      BY <1>1, <1>4, <2>1, <2>3
    <2>4. QED
      BY <2>2, <2>3 DEF Own, ListInv
  <1>9. ListInv(q)'
    BY <1>1, <1>7, <1>8 DEF ListInv, Others
  <1>10. QED
    BY <1>5, <1>9 DEF Others

LEMMA CommitStep ==
    ASSUME Types, Whole(db), NEW p \in Proc, MayCommit(p), NEW d, Commit(d), Whole(d),
           IdsKept(db, d), db.columns \subseteq d.columns,
           NEW q \in Proc, q # p, Own(q), Others(q)
    PROVE  Own(q)'
  <1>1. pc[q] \notin InTx /\ db' = d
    BY Alone DEF Commit
  <1>2. OpInv(q)'
    BY DEF Own, OpInv, Others
  <1>3. TxInv(q)' /\ ((pc'[q] \in InTx) <=> (tx'[q] # NoDb))
    BY <1>1 DEF Own, TxInv, Others, InTx
  <1>4. MigrateInv(q)'
    BY <1>1 DEF Own, MigrateInv, Others
  <1>5. \A r \in todo'[q] : r.id <= db'.lastId
    <2>1. db.lastId \in Nat /\ d.lastId \in Nat
      BY BoundAssumption DEF Whole, Database
    <2>2. \A r \in todo[q] : r.id \in 1 .. MaxId /\ r.id <= db.lastId
      BY DEF Types, LocalTypes, Own, Query
    <2>3. QED
      BY <1>1, <2>1, <2>2, BoundAssumption DEF IdsKept, Others
  <1>6. ListInv(q)'
    <2>1. CASE pc[q] = "lists"
      <3>1. held'[q] = [n \in Net |-> held[q][n] \cup {Definition(db', n)}]
        BY <2>1 DEF Commit
      <3>2. QED
        BY <1>1, <2>1, <3>1, ListingGoesOn
    <2>2. CASE pc[q] # "lists"
      <3>1. held'[q] = held[q]
        BY <2>2 DEF Commit
      <3>2. QED
        BY <2>2, <3>1 DEF Own, ListInv, ListFound, Others
    <2>3. QED
      BY <2>1, <2>2
  <1>7. QED
    BY <1>2, <1>3, <1>4, <1>5, <1>6 DEF Own

(***************************************************************************)
(* The invariant holds at first, and every step keeps it.                  *)
(***************************************************************************)
HeldType == [Proc -> [Net -> SUBSET (Value \cup {NoValue})]]

LEMMA FixedTypes == NoDb \in Database /\ NoList \in Listing /\ NoneHeld \in [Net -> SUBSET (Value \cup {NoValue})]
  <1>1. NoDb \in Database
    BY BoundAssumption DEF NoDb, Database, RowType
  <1>2. <<>> \in Seq(Item)
    OBVIOUS
  <1>3. NoList \in Listing
    BY <1>2 DEF NoList, Listing
  <1>4. QED
    BY <1>1, <1>3 DEF NoneHeld

LEMMA InitInv == Init => IInv
  <1> SUFFICES ASSUME Init PROVE IInv
    OBVIOUS
  <1>1. PICK c \in {{}, ToSet(Columns)} : db = [NoDb EXCEPT !.columns = c]
    BY DEF Init
  <1>2. /\ db.rows = [n \in Net |-> NoRow] /\ db.kids = {} /\ db.lastId = 0
        /\ db.columns = c /\ db \in Database
    BY <1>1, FixedTypes DEF NoDb, Database
  <1>3. Whole(db)
    BY <1>2, BoundAssumption DEF Whole, NoRow
  <1>4. Types
    BY FixedTypes, BoundAssumption DEF Init, Types, LocalTypes, PC
  <1>5. ASSUME NEW p \in Proc PROVE Own(p)
    <2>1. pc[p] = "idle" /\ tx[p] = NoDb /\ shared = {} /\ reserved # p /\ todo[p] = {} /\ alters[p] = {}
      BY ProcAssumption DEF Init
    <2>2. QED
      BY <2>1 DEF Own, OpInv, TxInv, MigrateInv, ListInv, InTx, Querying
  <1>6. QED
    BY <1>3, <1>4, <1>5, Parts

LEMMA EndStep ==
    ASSUME Types, NEW p \in Proc, End(p), held' \in HeldType
    PROVE  Types' /\ Own(p)' /\ \A q \in Proc \ {p} : Others(q)
  <1>1. Types'
    <2>1. /\ reserved' \in Proc \cup {NoProc} /\ shared' \in SUBSET Proc
          /\ op' \in [Proc -> Op \cup {NoOp}]
      BY DEF Types, End
    <2>2. pc' \in [Proc -> PC] /\ id' \in [Proc -> 0 .. MaxId]
      BY BoundAssumption DEF Types, End, Goto, PC
    <2>3. tx' \in [Proc -> Database] /\ list' \in [Proc -> Listing]
      BY FixedTypes DEF Types, LocalTypes, End
    <2>4. alters' \in [Proc -> SUBSET ToSet(Columns)] /\ todo' \in [Proc -> SUBSET Query]
      BY DEF Types, LocalTypes, End
    <2>5. QED
      BY <2>1, <2>2, <2>3, <2>4 DEF Types, LocalTypes, HeldType
  <1>2. /\ pc'[p] = "idle" /\ tx'[p] = NoDb /\ p \notin shared' /\ reserved' # p
        /\ todo'[p] = {} /\ alters'[p] = {}
    BY ProcAssumption DEF Types, LocalTypes, End, Goto
  <1>3. Own(p)'
    BY <1>2 DEF Own, OpInv, TxInv, MigrateInv, ListInv, InTx, Querying
  <1>4. \A q \in Proc \ {p} : Others(q)
    BY ProcAssumption DEF Types, LocalTypes, End, Goto, Others
  <1>5. QED
    BY <1>1, <1>3, <1>4

LEMMA FailInv ==
    ASSUME IInv, NEW p \in Proc, Fail(p)
    PROVE  IInv'
  <1>1. Types /\ Whole(db) /\ \A q \in Proc : Own(q)
    BY Parts
  <1>2. held' \in HeldType /\ \A q \in Proc \ {p} : held'[q] = held[q]
    BY <1>1, FixedTypes DEF Types, LocalTypes, HeldType, Fail
  <1>3. Types' /\ Own(p)' /\ \A q \in Proc \ {p} : Others(q)
    BY <1>1, <1>2, EndStep DEF Fail
  <1>4. \A q \in Proc \ {p} : Own(q)'
    BY <1>1, <1>2, <1>3, QuietStep DEF Fail
  <1>5. Whole(db)'
    BY <1>1 DEF Fail
  <1>6. QED
    BY <1>3, <1>4, <1>5, PartsAfter

\* A step that neither ends p nor changes the file, once its effect on p is known.
LEMMA QuietInv ==
    ASSUME IInv, NEW p \in Proc, UNCHANGED db, Types', Own(p)',
           \A q \in Proc \ {p} : Others(q) /\ held'[q] = held[q]
    PROVE  IInv'
  <1>1. Types /\ Whole(db) /\ \A q \in Proc : Own(q)
    BY Parts
  <1>2. \A q \in Proc \ {p} : Own(q)'
    BY <1>1, QuietStep
  <1>3. Whole(db)'
    BY <1>1
  <1>4. QED
    BY <1>2, <1>3, PartsAfter

LEMMA StartInv ==
    ASSUME IInv, NEW p \in Proc, Start(p)
    PROVE  IInv'
  <1>1. Types /\ Own(p)
    BY Parts
  <1>2. Types'
    BY <1>1 DEF Types, LocalTypes, Start, Goto, locks, reading, PC
  <1>3. pc'[p] = "inspect" /\ op'[p] \in Op
    BY <1>1 DEF Types, Start, Goto
  <1>4. Own(p)'
    BY <1>1, <1>3 DEF Own, OpInv, TxInv, MigrateInv, ListInv, InTx, Querying, Start, locks, reading
  <1>5. \A q \in Proc \ {p} : Others(q) /\ held'[q] = held[q]
    BY <1>1 DEF Types, Start, Goto, Others, locks, reading
  <1>6. QED
    BY <1>2, <1>4, <1>5, QuietInv DEF Start

LEMMA FirstPlace ==
    ASSUME NEW o \in Op
    PROVE  /\ First(o.kind) \in {"insert", "select", "delete", "rows"}
           /\ First(o.kind) = "insert" => o.kind = "insert"
           /\ First(o.kind) = "select" => o.kind = "update"
           /\ First(o.kind) = "delete" => o.kind = "delete"
           /\ First(o.kind) = "rows" => o.kind = "list"
  BY OpFields DEF First

LEMMA InspectInv ==
    ASSUME IInv, NEW p \in Proc, Inspect(p)
    PROVE  IInv'
  <1>1. Types /\ Own(p)
    BY Parts
  <1>2. op[p] \in Op
    BY <1>1 DEF Own, OpInv, Inspect
  <1>3. First(op[p].kind) \in PC
    BY <1>2, FirstPlace DEF PC
  <1>4. Types'
    BY <1>1, <1>3 DEF Types, LocalTypes, Inspect, Goto, Missing, locks, reading, PC
  <1>5. pc'[p] = IF Missing(db) = {} THEN First(op[p].kind) ELSE "alter"
    BY <1>1 DEF Types, Inspect, Goto
  <1>6. alters'[p] = Missing(db)
    BY <1>1 DEF Types, LocalTypes, Inspect
  <1>7. MigrateInv(p)'
    BY <1>2, <1>5, <1>6, FirstPlace DEF MigrateInv, Missing, Inspect, Querying, PC
  <1>8. OpInv(p)' /\ TxInv(p)' /\ ListInv(p)' /\ ((pc'[p] \in InTx) <=> (tx'[p] # NoDb))
    BY <1>1, <1>2, <1>5, FirstPlace
    DEF Own, OpInv, TxInv, ListInv, InTx, Inspect, locks, reading
  <1>9. Own(p)'
    BY <1>1, <1>7, <1>8 DEF Own, Inspect, reading
  <1>10. \A q \in Proc \ {p} : Others(q) /\ held'[q] = held[q]
    BY <1>1 DEF Types, LocalTypes, Inspect, Goto, Others, locks, reading
  <1>11. QED
    BY <1>4, <1>9, <1>10, QuietInv DEF Inspect

LEMMA InsertInv ==
    ASSUME IInv, NEW p \in Proc, Insert(p)
    PROVE  IInv'
  <1>1. CASE Fail(p)
    BY <1>1, FailInv
  <1>2. CASE ~Fail(p)
    <2> DEFINE n == op[p].net
               v == op[p].value
               i == NextId(db)
    <2>1. Types /\ Own(p) /\ Whole(db)
      BY Parts
    <2>2. /\ MayWrite /\ db.rows[n] = NoRow /\ i <= MaxId /\ reserved' = p
          /\ id' = [id EXCEPT ![p] = i] /\ tx' = [tx EXCEPT ![p] = WithRow(db, n, i, v)]
          /\ pc' = [pc EXCEPT ![p] = "write"] /\ pc[p] = "insert"
          /\ UNCHANGED <<db, shared, op, alters, reading>>
      BY <1>2 DEF Insert, Goto
    <2>3. op[p] \in Op /\ op[p].kind = "insert" /\ n \in Net /\ v \in Value
      <3>1. op[p] \in Op /\ op[p].kind = "insert"
        BY <2>1, <2>2 DEF Own, OpInv
      <3>2. QED
        BY <3>1, OpFields
    <2>4. i \in 1 .. MaxId
      BY <2>1, <2>2, BoundAssumption DEF Whole, Database, NextId
    <2>5. WithRow(db, n, i, v) \in Database /\ WithRow(db, n, i, v) # NoDb
      <3>1. WithRow(db, n, i, v) \in Database /\ WithRow(db, n, i, v).rows[n] # NoRow
        BY <2>1, <2>3, <2>4, StatementTypes DEF Whole
      <3>2. QED
        BY <2>3, <3>1, NotEmpty
    <2>6. Types'
      BY <2>1, <2>2, <2>4, <2>5, BoundAssumption DEF Types, LocalTypes, PC, reading
    <2>7. /\ pc'[p] = "write" /\ id'[p] = i /\ tx'[p] = WithRow(db, n, i, v) /\ p \notin shared'
      BY <2>1, <2>2 DEF Types, LocalTypes, Own, TxInv, InTx
    <2>8. TxInv(p)' /\ ((pc'[p] \in InTx) <=> (tx'[p] # NoDb))
      BY <2>2, <2>3, <2>5, <2>7 DEF TxInv, Emptied, Rewritten, InTx
    <2>9. OpInv(p)' /\ MigrateInv(p)' /\ ListInv(p)' /\ \A q \in todo'[p] : q.id <= db'.lastId
      BY <2>1, <2>2, <2>3, <2>7 DEF Own, OpInv, MigrateInv, ListInv, Querying, PC, reading
    <2>10. Own(p)'
      BY <2>8, <2>9 DEF Own
    <2>11. \A q \in Proc \ {p} : Others(q) /\ held'[q] = held[q]
      BY <2>1, <2>2, ProcAssumption DEF Types, LocalTypes, Others, MayWrite, reading
    <2>12. QED
      BY <2>2, <2>6, <2>10, <2>11, QuietInv
  <1>3. QED
    BY <1>1, <1>2

LEMMA SelectInv ==
    ASSUME IInv, NEW p \in Proc, Select(p)
    PROVE  IInv'
  <1>1. CASE Fail(p)
    BY <1>1, FailInv
  <1>2. CASE ~Fail(p)
    <2> DEFINE row == db.rows[op[p].net]
    <2>1. Types /\ Own(p) /\ Whole(db)
      BY Parts
    <2>2. /\ row # NoRow /\ shared' = shared \cup {p} /\ id' = [id EXCEPT ![p] = row.id]
          /\ tx' = [tx EXCEPT ![p] = db] /\ pc' = [pc EXCEPT ![p] = "update"] /\ pc[p] = "select"
          /\ UNCHANGED <<db, reserved, op, alters, reading>>
      BY <1>2 DEF Select, Goto
    <2>3. op[p] \in Op /\ op[p].kind = "update" /\ op[p].net \in Net
      <3>1. op[p] \in Op /\ op[p].kind = "update"
        BY <2>1, <2>2 DEF Own, OpInv
      <3>2. QED
        BY <3>1, OpFields
    <2>4. db \in Database /\ row.id \in 0 .. MaxId /\ db # NoDb
      <3>1. db \in Database /\ row \in RowType
        BY <2>1, <2>3 DEF Whole, Database
      <3>2. QED
        BY <2>2, <2>3, <3>1, RowFields, NotEmpty
    <2>5. Types'
      BY <2>1, <2>2, <2>4 DEF Types, LocalTypes, PC, reading
    <2>6. /\ pc'[p] = "update" /\ id'[p] = row.id /\ tx'[p] = db /\ p \in shared' /\ reserved' # p
      BY <2>1, <2>2 DEF Types, LocalTypes, Own, TxInv, InTx
    <2>7. TxInv(p)' /\ ((pc'[p] \in InTx) <=> (tx'[p] # NoDb))
      BY <2>2, <2>3, <2>4, <2>6 DEF TxInv, InTx
    <2>8. OpInv(p)' /\ MigrateInv(p)' /\ ListInv(p)' /\ \A q \in todo'[p] : q.id <= db'.lastId
      BY <2>1, <2>2, <2>3, <2>6 DEF Own, OpInv, MigrateInv, ListInv, Querying, PC, reading
    <2>9. Own(p)'
      BY <2>7, <2>8 DEF Own
    <2>10. \A q \in Proc \ {p} : Others(q) /\ held'[q] = held[q]
      BY <2>1, <2>2 DEF Types, LocalTypes, Others, reading
    <2>11. QED
      BY <2>2, <2>5, <2>9, <2>10, QuietInv
  <1>3. QED
    BY <1>1, <1>2

\* A statement of a transaction that holds RESERVED when it is done.
LEMMA StatementInv ==
    ASSUME IInv, NEW p \in Proc, pc[p] \in InTx, NEW d \in Database, d # NoDb,
           tx' = [tx EXCEPT ![p] = d], reserved' = p, reserved \in {NoProc, p},
           NEW label \in InTx \ {"update"}, pc' = [pc EXCEPT ![p] = label],
           op[p].kind = "insert" => label # "clear",
           UNCHANGED <<db, shared, op, id, alters, reading>>,
           label = "clear" => d = Rewritten(p),
           label = "write" => d = Emptied(p),
           label = "commit" => d = WriteChildren(Emptied(p), id[p], op[p].value)
    PROVE  IInv'
  <1>1. Types /\ Own(p)
    BY Parts
  <1>2. Types'
    BY <1>1 DEF Types, LocalTypes, PC, InTx, reading
  <1>3. pc'[p] = label /\ tx'[p] = d
    BY <1>1 DEF Types, LocalTypes
  <1>4. op[p] \in Op /\ op[p].kind \in {"insert", "update"}
    BY <1>1 DEF Own, OpInv, InTx
  <1>5. TxInv(p)' /\ ((pc'[p] \in InTx) <=> (tx'[p] # NoDb))
    <2>1. UNCHANGED <<Rewritten(p), Emptied(p)>>
      BY DEF Rewritten, Emptied
    <2>2. QED
      BY <1>1, <1>3, <1>4, <2>1 DEF Own, TxInv, InTx
  <1>6. OpInv(p)' /\ MigrateInv(p)' /\ ListInv(p)' /\ \A q \in todo'[p] : q.id <= db'.lastId
    BY <1>1, <1>3, <1>4 DEF Own, OpInv, MigrateInv, ListInv, Querying, PC, InTx, reading
  <1>7. Own(p)'
    BY <1>5, <1>6 DEF Own
  <1>8. \A q \in Proc \ {p} : Others(q) /\ held'[q] = held[q]
    BY <1>1, ProcAssumption DEF Types, LocalTypes, Others, reading
  <1>9. QED
    BY <1>2, <1>7, <1>8, QuietInv

\* What a transaction writes, and for which id.
LEMMA TxFacts ==
    ASSUME IInv, NEW p \in Proc, pc[p] \in InTx
    PROVE  /\ op[p] \in Op /\ op[p].kind \in {"insert", "update"}
           /\ op[p].net \in Net /\ op[p].value \in Value
           /\ id[p] \in 0 .. MaxId /\ id[p] >= 1
           /\ tx[p] \in Database
           /\ pc[p] # "update" => reserved = p
  <1>1. Types /\ Own(p) /\ Whole(db)
    BY Parts
  <1>2. op[p] \in Op /\ op[p].kind \in {"insert", "update"}
    BY <1>1 DEF Own, OpInv, InTx
  <1>3. op[p].net \in Net /\ op[p].value \in Value
    BY <1>2, OpFields
  <1>4. id[p] \in 0 .. MaxId /\ tx[p] \in Database
    BY <1>1 DEF Types, LocalTypes
  <1>5. id[p] >= 1
    <2>1. CASE op[p].kind = "insert"
      BY <1>1, <2>1, BoundAssumption DEF Own, TxInv, NextId, Whole, Database
    <2>2. CASE op[p].kind = "update"
      <3>1. db.rows[op[p].net] # NoRow /\ id[p] = db.rows[op[p].net].id
        BY <1>1, <2>2 DEF Own, TxInv
      <3>2. db.rows[op[p].net] \in RowType
        BY <1>1, <1>3 DEF Whole, Database
      <3>3. QED
        BY <3>1, <3>2, RowFields, BoundAssumption
    <2>3. QED
      BY <1>2, <2>1, <2>2
  <1>6. pc[p] # "update" => reserved = p
    BY <1>1 DEF Own, TxInv
  <1>7. QED
    BY <1>2, <1>3, <1>4, <1>5, <1>6

LEMMA UpdateInv ==
    ASSUME IInv, NEW p \in Proc, Update(p)
    PROVE  IInv'
  <1>1. CASE Fail(p)
    BY <1>1, FailInv
  <1>2. CASE ~Fail(p)
    <2> DEFINE d == Rewritten(p)
    <2>1. Own(p) /\ Whole(db)
      BY Parts
    <2>2. pc[p] = "update" /\ pc[p] \in InTx /\ MayWrite
      BY <1>2 DEF Update, InTx
    <2>3. op[p].kind = "update" /\ tx[p] = db
      BY <2>1, <2>2 DEF Own, OpInv, TxInv
    <2>4. /\ tx' = [tx EXCEPT ![p] = WithRow(tx[p], op[p].net, id[p], op[p].value)]
          /\ reserved' = p /\ pc' = [pc EXCEPT ![p] = "clear"]
          /\ UNCHANGED <<db, shared, op, id, alters, reading>>
      BY <1>2 DEF Update, Goto
    <2>5. tx' = [tx EXCEPT ![p] = d]
      BY <2>3, <2>4 DEF Rewritten
    <2>6. /\ op[p].net \in Net /\ op[p].value \in Value /\ id[p] \in 1 .. MaxId
      BY <2>2, TxFacts, BoundAssumption
    <2>7. d \in Database /\ d.rows[op[p].net] # NoRow
      BY <2>1, <2>6, StatementTypes DEF Whole, Rewritten
    <2>8. d # NoDb
      BY <2>6, <2>7, NotEmpty
    <2> HIDE DEF d
    <2>9. QED
      BY <2>2, <2>3, <2>4, <2>5, <2>7, <2>8, StatementInv DEF MayWrite, InTx, d
  <1>3. QED
    BY <1>1, <1>2

LEMMA ClearInv ==
    ASSUME IInv, NEW p \in Proc, Clear(p)
    PROVE  IInv'
  <1> DEFINE d == Emptied(p)
  <1>1. Own(p) /\ Whole(db)
    BY Parts
  <1>2. pc[p] = "clear" /\ pc[p] \in InTx
    BY DEF Clear, InTx
  <1>3. op[p].kind = "update" /\ tx[p] = Rewritten(p)
    BY <1>1, <1>2 DEF Own, OpInv, TxInv
  <1>4. /\ op[p].net \in Net /\ op[p].value \in Value /\ id[p] \in 1 .. MaxId /\ reserved = p
    BY <1>2, TxFacts, BoundAssumption
  <1>5. /\ tx' = [tx EXCEPT ![p] = ClearChildren(tx[p], id[p])]
        /\ reserved' = p /\ pc' = [pc EXCEPT ![p] = "write"]
        /\ UNCHANGED <<db, shared, op, id, alters, reading>>
    BY <1>4 DEF Clear, Goto
  <1>6. d = ClearChildren(Rewritten(p), id[p])
    BY <1>3 DEF Emptied
  <1>7. Rewritten(p) \in Database /\ Rewritten(p).rows[op[p].net] # NoRow
    BY <1>1, <1>4, StatementTypes DEF Whole, Rewritten
  <1>8. d \in Database /\ d.rows[op[p].net] # NoRow
    BY <1>4, <1>6, <1>7, StatementTypes
  <1>9. d # NoDb
    BY <1>4, <1>8, NotEmpty
  <1>10. tx' = [tx EXCEPT ![p] = d]
    BY <1>3, <1>5, <1>6
  <1> HIDE DEF d
  <1>11. QED
    BY <1>2, <1>3, <1>4, <1>5, <1>8, <1>9, <1>10, StatementInv DEF InTx, d

LEMMA EmptiedFields ==
    ASSUME IInv, NEW p \in Proc, pc[p] \in {"write", "commit"}
    PROVE  Emptied(p) \in Database /\ Emptied(p).rows[op[p].net] # NoRow
  <1>1. op[p].net \in Net /\ op[p].value \in Value /\ id[p] \in 1 .. MaxId
    BY TxFacts, BoundAssumption DEF InTx
  <1>2. Rewritten(p) \in Database /\ Rewritten(p).rows[op[p].net] # NoRow
    BY <1>1, Parts, StatementTypes DEF Whole, Rewritten
  <1>3. QED
    BY <1>1, <1>2, StatementTypes DEF Emptied

LEMMA WriteInv ==
    ASSUME IInv, NEW p \in Proc, Write(p)
    PROVE  IInv'
  <1> DEFINE d == WriteChildren(Emptied(p), id[p], op[p].value)
  <1>1. pc[p] = "write" /\ pc[p] \in InTx
    BY DEF Write, InTx
  <1>2. tx[p] = Emptied(p)
    BY <1>1, Parts DEF Own, TxInv
  <1>3. /\ op[p].net \in Net /\ op[p].value \in Value /\ id[p] \in 1 .. MaxId /\ reserved = p
    BY <1>1, TxFacts, BoundAssumption
  <1>4. /\ tx' = [tx EXCEPT ![p] = d]
        /\ reserved' = p /\ pc' = [pc EXCEPT ![p] = "commit"]
        /\ UNCHANGED <<db, shared, op, id, alters, reading>>
    BY <1>2, <1>3 DEF Write, Goto
  <1>5. d \in Database /\ d.rows[op[p].net] # NoRow
    BY <1>1, <1>3, EmptiedFields, StatementTypes
  <1>6. d # NoDb
    BY <1>3, <1>5, NotEmpty
  <1> HIDE DEF d
  <1>7. QED
    BY <1>1, <1>3, <1>4, <1>5, <1>6, StatementInv DEF InTx, d

\* What COMMIT makes the database: the file with one definition stored.
LEMMA CommitStored ==
    ASSUME IInv, NEW p \in Proc, pc[p] = "commit"
    PROVE  /\ Stored(db, tx[p], op[p].net, id[p], op[p].value)
           /\ IF op[p].kind = "insert"
                THEN db.rows[op[p].net] = NoRow /\ id[p] = db.lastId + 1
                ELSE db.rows[op[p].net] # NoRow /\ id[p] = db.rows[op[p].net].id
           /\ Whole(tx[p])
           /\ IdsKept(db, tx[p])
  <1> DEFINE n == op[p].net
             v == op[p].value
             i == id[p]
             new == UNION {ChildRows(i, v, t) : t \in Table}
             r == Rewritten(p)
             last == IF i > db.lastId THEN i ELSE db.lastId
             rows == [db.rows EXCEPT ![n] = [id |-> i, value |-> v]]
             kept == {k \in db.kids : k.id # i}
  <1>1. Own(p) /\ Whole(db) /\ db \in Database
    BY Parts DEF Whole
  <1>2. /\ op[p].kind \in {"insert", "update"} /\ n \in Net /\ v \in Value
        /\ i \in 1 .. MaxId
    BY TxFacts, BoundAssumption DEF InTx
  <1>3. /\ op[p].kind = "insert" => db.rows[n] = NoRow /\ i = db.lastId + 1
        /\ op[p].kind = "update" => db.rows[n] # NoRow /\ i = db.rows[n].id
        /\ tx[p] = WriteChildren(Emptied(p), i, v)
    BY <1>1 DEF Own, TxInv, InTx, NextId
  <1>4. r = [rows |-> rows, kids |-> db.kids, lastId |-> last, columns |-> db.columns]
    BY <1>1, <1>2, WithRowFields DEF Rewritten
  <1>5. /\ \A m \in Net \ {n} : db.rows[m].id # i
        /\ db.rows[n] # NoRow => db.rows[n].id = i
    <2>1. \A m \in Net : db.rows[m].id \in Nat /\ db.rows[m].id <= db.lastId
      BY <1>1, RowFields, BoundAssumption DEF Whole, Database
    <2>2. CASE op[p].kind = "insert"
      BY <1>1, <1>2, <1>3, <2>1, <2>2, BoundAssumption DEF Database
    <2>3. CASE op[p].kind = "update"
      BY <1>1, <1>2, <1>3, <2>3 DEF Whole
    <2>4. QED
      BY <1>2, <2>2, <2>3
  <1>6. Emptied(p) = [r EXCEPT !.kids = kept]
    <2>1. CASE op[p].kind = "insert"
      <3>1. \A m \in Net : db.rows[m].id # i
        <4>1. db.rows[n].id = 0
          BY <1>3, <2>1 DEF NoRow
        <4>2. QED
          BY <1>2, <1>5, <4>1
      <3>2. {k \in db.kids : k.id # i} = db.kids
        BY <1>1, <3>1, NoKids
      <3>3. Emptied(p) = r
        BY <2>1 DEF Emptied
      <3> HIDE DEF r
      <3>4. r = [r EXCEPT !.kids = db.kids]
        BY <1>4
      <3>5. QED
        BY <3>2, <3>3, <3>4
    <2>2. CASE op[p].kind = "update"
      <3>1. Emptied(p) = ClearChildren(r, i)
        BY <2>2 DEF Emptied
      <3> HIDE DEF r
      <3>2. QED
        BY <1>4, <3>1 DEF ClearChildren
    <2>3. QED
      BY <1>2, <2>1, <2>2
  <1>7. Stored(db, tx[p], n, i, v)
    <2>1. tx[p] = [Emptied(p) EXCEPT !.kids = @ \cup new]
      BY <1>3 DEF WriteChildren
    <2> HIDE DEF r, rows, kept, new, last
    <2>2. Emptied(p) = [rows |-> rows, kids |-> kept, lastId |-> last, columns |-> db.columns]
      BY <1>4, <1>6
    <2>3. tx[p] = [rows |-> rows, kids |-> kept \cup new, lastId |-> last, columns |-> db.columns]
      BY <2>1, <2>2
    <2>4. QED
      BY <2>3 DEF Stored, rows, kept, new, last
  <1>8. Whole(tx[p])
    BY <1>1, <1>2, <1>5, <1>7, StoredWhole
  <1>9. IdsKept(db, tx[p])
    <2>1. db.lastId \in Nat /\ db.lastId <= tx[p].lastId
      BY <1>1, <1>2, <1>7, BoundAssumption DEF Stored, Database
    <2>2. tx[p].rows[n].id = i /\ \A m \in Net \ {n} : tx[p].rows[m] = db.rows[m]
      BY <1>1, <1>2, <1>7 DEF Stored, Database
    <2>3. i = db.rows[n].id \/ (db.rows[n] = NoRow /\ i > db.lastId)
      <3>1. CASE op[p].kind = "insert"
        BY <1>3, <2>1, <3>1
      <3>2. CASE op[p].kind = "update"
        BY <1>3, <3>2
      <3>3. QED
        BY <1>2, <3>1, <3>2
    <2>4. QED
      BY <1>2, <2>1, <2>2, <2>3 DEF IdsKept
  <1>10. QED
    BY <1>2, <1>3, <1>7, <1>8, <1>9

LEMMA CommitHeld ==
    ASSUME Types, NEW d, Whole(d), Commit(d)
    PROVE  held' \in HeldType
  <1>1. \A n \in Net : Definition(d, n) \in Value \cup {NoValue}
    BY WholeDefinition, RowFields DEF Whole, Database
  <1>2. held \in HeldType
    BY DEF Types, LocalTypes, HeldType
  <1>3. \A q \in Proc : [n \in Net |-> held[q][n] \cup {Definition(d, n)}]
                           \in [Net -> SUBSET (Value \cup {NoValue})]
    BY <1>1, <1>2 DEF HeldType
  <1>4. QED
    BY <1>2, <1>3 DEF Commit, HeldType

\* A process that changes the file and ends.
LEMMA LastStep ==
    ASSUME IInv, NEW p \in Proc, MayCommit(p), NEW d, Whole(d), IdsKept(db, d),
           db.columns \subseteq d.columns, Commit(d), End(p)
    PROVE  IInv'
  <1>1. Types /\ Whole(db) /\ \A q \in Proc : Own(q)
    BY Parts
  <1>2. held' \in HeldType
    BY <1>1, CommitHeld
  <1>3. Types' /\ Own(p)' /\ \A q \in Proc \ {p} : Others(q)
    BY <1>1, <1>2, EndStep
  <1>4. \A q \in Proc \ {p} : Own(q)'
    BY <1>1, <1>3, CommitStep
  <1>5. Whole(db)'
    BY DEF Commit
  <1>6. QED
    BY <1>3, <1>4, <1>5, PartsAfter

LEMMA CommitTxInv ==
    ASSUME IInv, NEW p \in Proc, CommitTx(p)
    PROVE  IInv'
  <1>1. pc[p] = "commit" /\ MayCommit(p) /\ Commit(tx[p]) /\ End(p)
    BY DEF CommitTx
  <1>2. Whole(tx[p]) /\ IdsKept(db, tx[p]) /\ tx[p].columns = db.columns
    BY <1>1, CommitStored DEF Stored
  <1>3. QED
    BY <1>1, <1>2, LastStep

LEMMA DeleteInv ==
    ASSUME IInv, NEW p \in Proc, Delete(p)
    PROVE  IInv'
  <1> DEFINE n == op[p].net
             d == WithoutRow(db, n)
  <1>1. CASE Fail(p)
    BY <1>1, FailInv
  <1>2. CASE ~Fail(p)
    <2>1. /\ pc[p] = "delete" /\ MayCommit(p) /\ db.rows[n] # NoRow /\ Commit(d) /\ End(p)
      BY <1>2 DEF Delete
    <2>2. Own(p) /\ Whole(db)
      BY Parts
    <2>3. n \in Net
      <3>1. op[p] \in Op /\ op[p].kind = "delete"
        BY <2>1, <2>2 DEF Own, OpInv
      <3>2. QED
        BY <3>1, OpFields
    <2>4. /\ Whole(d) /\ d.rows = [db.rows EXCEPT ![n] = NoRow]
          /\ d.lastId = db.lastId /\ d.columns = db.columns
      BY <2>1, <2>2, <2>3, DeletedWhole
    <2> HIDE DEF d
    <2>5. IdsKept(db, d)
      <3>1. db.rows \in [Net -> RowType] /\ db.lastId \in Nat
        BY <2>2, BoundAssumption DEF Whole, Database
      <3>2. QED
        BY <2>4, <3>1 DEF IdsKept
    <2>6. QED
      BY <2>1, <2>4, <2>5, LastStep
  <1>3. QED
    BY <1>1, <1>2

LEMMA AlterInv ==
    ASSUME IInv, NEW p \in Proc, Alter(p)
    PROVE  IInv'
  <1>1. CASE Fail(p)
    BY <1>1, FailInv
  <1>2. CASE ~Fail(p)
    <2>1. PICK c \in alters[p] :
            /\ Commit([db EXCEPT !.columns = @ \cup {c}])
            /\ alters' = [alters EXCEPT ![p] = @ \ {c}]
            /\ Goto(p, IF alters[p] = {c} THEN First(op[p].kind) ELSE "alter")
            /\ UNCHANGED <<locks, op, id, list, todo>>
      BY <1>2 DEF Alter
    <2> DEFINE d == [db EXCEPT !.columns = @ \cup {c}]
    <2>2. pc[p] = "alter" /\ MayCommit(p) /\ Commit(d)
      BY <2>1 DEF Alter
    <2>3. Types /\ Whole(db) /\ \A q \in Proc : Own(q)
      BY Parts
    <2>4. c \in ToSet(Columns)
      BY <2>3 DEF Types, LocalTypes
    <2>5. Whole(d) /\ d.rows = db.rows /\ d.lastId = db.lastId /\ d.columns = db.columns \cup {c}
      BY <2>3, <2>4, ColumnWhole
    <2> HIDE DEF d
    <2>6. IdsKept(db, d)
      BY <2>3, <2>5, BoundAssumption DEF IdsKept, Whole, Database
    <2>7. op[p] \in Op
      BY <2>2, <2>3 DEF Own, OpInv
    <2>8. First(op[p].kind) \in PC
      BY <2>7, FirstPlace DEF PC
    <2>9. \A q \in Proc \ {p} : Others(q)
      BY <2>1, <2>3 DEF Types, LocalTypes, Goto, Others, locks
    <2>10. \A q \in Proc \ {p} : Own(q)'
      BY <2>2, <2>3, <2>5, <2>6, <2>9, CommitStep
    <2>11. held'[p] = held[p]
      BY <2>2 DEF Commit
    <2>12. held' \in HeldType
      BY <2>2, <2>3, <2>5, CommitHeld
    <2>13. Types'
      BY <2>1, <2>3, <2>8, <2>12 DEF Types, LocalTypes, HeldType, Goto, PC, locks
    <2>14. /\ pc'[p] = IF alters[p] = {c} THEN First(op[p].kind) ELSE "alter"
           /\ alters'[p] = alters[p] \ {c}
      BY <2>1, <2>3 DEF Types, LocalTypes, Goto
    <2>15. db' = d
      BY <2>2 DEF Commit
    <2>16. MigrateInv(p)'
      <3>1. ToSet(Columns) \subseteq db.columns \cup alters[p] /\ alters[p] \subseteq ToSet(Columns)
        BY <2>2, <2>3 DEF Own, MigrateInv
      <3>2. alters[p] = {c} => ToSet(Columns) \subseteq d.columns
        BY <2>5, <3>1
      <3>3. ToSet(Columns) \subseteq d.columns \cup alters'[p]
        BY <2>5, <2>14, <3>1
      <3>4. QED
        BY <2>14, <2>15, <3>1, <3>2, <3>3 DEF MigrateInv, Querying
    <2>17. OpInv(p)' /\ TxInv(p)' /\ ListInv(p)' /\ ((pc'[p] \in InTx) <=> (tx'[p] # NoDb))
      BY <2>1, <2>2, <2>3, <2>7, <2>14, FirstPlace DEF Own, OpInv, TxInv, ListInv, InTx, locks
    <2>18. \A q \in todo'[p] : q.id <= db'.lastId
      BY <2>1, <2>3, <2>5, <2>15 DEF Own
    <2>19. Own(p)'
      BY <2>16, <2>17, <2>18 DEF Own
    <2>20. Whole(db)'
      BY <2>5, <2>15
    <2>21. QED
      BY <2>10, <2>13, <2>19, <2>20, PartsAfter
  <1>3. QED
    BY <1>1, <1>2

LEMMA ReadRowsInv ==
    ASSUME IInv, NEW p \in Proc, ReadRows(p)
    PROVE  IInv'
  <1> DEFINE found == {n \in Net : db.rows[n] # NoRow}
             rows == [n \in Net |-> [NoList[n] EXCEPT !.value = db.rows[n].value]]
             queries == {[net |-> n, id |-> db.rows[n].id, table |-> t] : n \in found, t \in Table}
             now == [n \in Net |-> {Definition(db, n)}]
  <1>1. Types /\ Own(p) /\ Whole(db)
    BY Parts
  <1>2. /\ pc[p] = "rows" /\ list' = [list EXCEPT ![p] = rows]
        /\ todo' = [todo EXCEPT ![p] = queries] /\ held' = [held EXCEPT ![p] = now]
        /\ Goto(p, IF todo'[p] = {} THEN "listed" ELSE "lists")
        /\ UNCHANGED <<db, locks, op, id, alters>>
    BY DEF ReadRows
  <1>3. ASSUME NEW n \in Net
        PROVE  /\ db.rows[n] \in RowType /\ db.rows[n].value \in Value \cup {NoValue}
               /\ db.rows[n].id <= db.lastId
               /\ db.rows[n] # NoRow => db.rows[n].id \in 1 .. MaxId
               /\ db.rows[n] = NoRow => db.rows[n].value = NoValue
               /\ Definition(db, n) = db.rows[n].value
    BY <1>1, RowFields, WholeDefinition DEF Whole, Database
  <1>4. /\ rows \in Listing
        /\ \A n \in Net : /\ rows[n].value = db.rows[n].value
                         /\ \A t \in Table : rows[n].lists[t] = <<>>
    <2>1. \A n \in Net : NoList[n] = [value |-> NoValue, lists |-> [t \in Table |-> <<>>]]
      BY DEF NoList
    <2>2. <<>> \in Seq(Item)
      OBVIOUS
    <2>3. rows = [n \in Net |-> [value |-> db.rows[n].value, lists |-> [t \in Table |-> <<>>]]]
      BY <2>1
    <2> HIDE DEF rows
    <2>4. rows \in Listing
      BY <1>3, <2>2, <2>3 DEF Listing
    <2>5. QED
      BY <2>3, <2>4
  <1>5. \A q \in queries : /\ q \in Query /\ q.id <= db.lastId
                            /\ db.rows[q.net].id = q.id
    BY <1>3 DEF Query
  <1>6. now \in [Net -> SUBSET (Value \cup {NoValue})]
    BY <1>3
  <1>7. \A n \in Net, t \in Table : db.rows[n] # NoRow
          => \E q \in queries : q.net = n /\ q.table = t
    <2>1. ASSUME NEW n \in Net, NEW t \in Table, db.rows[n] # NoRow
          PROVE  \E q \in queries : q.net = n /\ q.table = t
      <3>1. [net |-> n, id |-> db.rows[n].id, table |-> t] \in queries
        BY <2>1
      <3> HIDE DEF queries
      <3>2. QED
        BY <3>1
    <2>2. QED
      BY <2>1
  <1>8. \A n \in Net : now[n] = {Definition(db, n)}
    OBVIOUS
  <1> HIDE DEF rows, queries, now
  <1>9. Types'
    BY <1>1, <1>2, <1>4, <1>5, <1>6 DEF Types, LocalTypes, Goto, PC, locks
  <1>10. /\ list'[p] = rows /\ todo'[p] = queries /\ held'[p] = now
         /\ pc'[p] = IF queries = {} THEN "listed" ELSE "lists"
    BY <1>1, <1>2 DEF Types, LocalTypes, Goto
  <1>11. ASSUME NEW n \in Net
         PROVE  /\ list'[p][n].value \in held'[p][n]
                /\ \A t \in Table : (\E q \in todo'[p] : q.net = n /\ q.table = t)
                                       \/ ListFound(p, n, t)'
    <2>1. list'[p][n].value \in held'[p][n]
      BY <1>3, <1>4, <1>8, <1>10
    <2>2. CASE db.rows[n] # NoRow
      BY <1>7, <1>10, <2>1, <2>2
    <2>3. CASE db.rows[n] = NoRow
      <3>1. NoValue \in held'[p][n] /\ \A t \in Table : list'[p][n].lists[t] = <<>>
        BY <1>3, <1>4, <1>8, <1>10, <2>3
      <3>2. QED
        BY <2>1, <3>1 DEF ListFound
    <2>4. QED
      BY <2>2, <2>3
  <1>12. ListInv(p)'
    <2>1. \A n \in Net : Definition(db', n) \in held'[p][n]
      BY <1>2, <1>8, <1>10
    <2>2. \A q \in todo'[p] : db'.rows[q.net].id = q.id
      BY <1>2, <1>5, <1>10
    <2>3. pc'[p] = "listed" => todo'[p] = {}
      BY <1>10
    <2>4. QED
      BY <1>11, <2>1, <2>2, <2>3 DEF ListInv
  <1>13. OpInv(p)' /\ TxInv(p)' /\ MigrateInv(p)' /\ ((pc'[p] \in InTx) <=> (tx'[p] # NoDb))
    BY <1>1, <1>2, <1>10 DEF Own, OpInv, TxInv, MigrateInv, Querying, PC, InTx, locks
  <1>14. \A q \in todo'[p] : q.id <= db'.lastId
    BY <1>2, <1>5, <1>10
  <1>15. Own(p)'
    BY <1>12, <1>13, <1>14 DEF Own
  <1>16. \A q \in Proc \ {p} : Others(q) /\ held'[q] = held[q]
    BY <1>1, <1>2 DEF Types, LocalTypes, Goto, Others, locks
  <1>17. QED
    BY <1>2, <1>9, <1>15, <1>16, QuietInv

LEMMA ChildListType ==
    ASSUME NEW d, Whole(d), NEW i, NEW t \in Table
    PROVE  \/ \E n \in Net : /\ d.rows[n].id = i /\ d.rows[n] # NoRow
                            /\ ChildList(d, i, t) = Lists[d.rows[n].value][t]
           \/ (\A n \in Net : d.rows[n].id # i \/ d.rows[n] = NoRow) /\ ChildList(d, i, t) = <<>>
  <1>1. CASE \E n \in Net : d.rows[n].id = i /\ d.rows[n] # NoRow
    <2>1. PICK n \in Net : d.rows[n].id = i /\ d.rows[n] # NoRow
      BY <1>1
    <2>2. d.rows[n].value \in Value
      BY <2>1, RowFields DEF Whole, Database
    <2>3. Kids(d, i, t) = ChildRows(i, d.rows[n].value, t)
      BY <2>1 DEF Whole
    <2>4. QED
      BY <2>1, <2>2, <2>3, ListReadBack
  <1>2. CASE \A n \in Net : d.rows[n].id # i \/ d.rows[n] = NoRow
    <2>1. ASSUME NEW k \in d.kids, k.id = i PROVE FALSE
      <3>1. PICK n \in Net : d.rows[n].id = k.id
        BY DEF Whole
      <3>2. d.rows[n].id = 0
        BY <1>2, <2>1, <3>1 DEF NoRow
      <3>3. QED
        BY <2>1, <3>1, <3>2 DEF Whole, Database, Child
    <2>2. Kids(d, i, t) = {}
      BY <2>1 DEF Kids
    <2>3. QED
      BY <1>2, <2>2, NothingReadBack
  <1>3. QED
    BY <1>1, <1>2

LEMMA ReadListInv ==
    ASSUME IInv, NEW p \in Proc, ReadList(p)
    PROVE  IInv'
  <1>1. Types /\ Own(p) /\ Whole(db)
    BY Parts
  <1>2. PICK q \in todo[p] :
          /\ list' = [list EXCEPT ![p][q.net].lists[q.table] = ChildList(db, q.id, q.table)]
          /\ todo' = [todo EXCEPT ![p] = @ \ {q}]
          /\ Goto(p, IF todo[p] = {q} THEN "listed" ELSE "lists")
    BY DEF ReadList
  <1>3. pc[p] = "lists" /\ UNCHANGED <<db, locks, op, id, alters, held>>
    BY DEF ReadList
  <1> DEFINE read == ChildList(db, q.id, q.table)
             entry == list[p][q.net]
  <1>4. q.net \in Net /\ q.id \in 1 .. MaxId /\ q.table \in Table
    BY <1>1 DEF Types, LocalTypes, Query
  <1>5. read \in Seq(Item) /\ (\/ \E v \in held[p][q.net] \ {NoValue} : read = Lists[v][q.table]
                               \/ NoValue \in held[p][q.net] /\ read = <<>>)
    <2>1. ASSUME NEW n \in Net, db.rows[n] # NoRow, db.rows[n].id = q.id
          PROVE  /\ n = q.net
                 /\ db.rows[n].value \in Value /\ db.rows[n].value \in held[p][n]
      <3>1. n = q.net
        BY <1>1, <1>3, <1>4, <2>1 DEF Own, ListInv, Whole
      <3>2. db.rows[n].value \in Value
        BY <1>1, <2>1, RowFields DEF Whole, Database
      <3>3. Definition(db, n) \in held[p][n]
        BY <1>1, <1>3 DEF Own, ListInv
      <3>4. QED
        BY <1>1, <3>1, <3>2, <3>3, WholeDefinition
    <2>2. CASE \E n \in Net : /\ db.rows[n].id = q.id /\ db.rows[n] # NoRow
                            /\ read = Lists[db.rows[n].value][q.table]
      <3>1. PICK n \in Net : /\ db.rows[n].id = q.id /\ db.rows[n] # NoRow
                             /\ read = Lists[db.rows[n].value][q.table]
        BY <2>2
      <3>2. n = q.net /\ db.rows[n].value \in Value /\ db.rows[n].value \in held[p][n]
        BY <2>1, <3>1
      <3>3. db.rows[n].value # NoValue /\ Lists[db.rows[n].value][q.table] \in Seq(Item)
        BY <1>4, <3>2, ValueAssumption
      <3>4. QED
        BY <3>1, <3>2, <3>3
    <2>3. CASE (\A n \in Net : db.rows[n].id # q.id \/ db.rows[n] = NoRow) /\ read = <<>>
      <3>1. NoValue \in held[p][q.net]
        <4>1. CASE db.rows[q.net].id = q.id
          <5>1. Definition(db, q.net) = NoValue
            BY <1>4, <2>3, <4>1 DEF Definition
          <5>2. QED
            BY <1>1, <1>3, <1>4, <5>1 DEF Own, ListInv
        <4>2. CASE db.rows[q.net].id # q.id
          BY <1>1, <1>3, <4>2 DEF Own, ListInv
        <4>3. QED
          BY <4>1, <4>2
      <3>2. read \in Seq(Item)
        <4>1. <<>> \in Seq(Item)
          OBVIOUS
        <4>2. QED
          BY <2>3, <4>1
      <3>3. QED
        BY <2>3, <3>1, <3>2
    <2>4. QED
      BY <1>1, <1>4, <2>2, <2>3, ChildListType
  <1> HIDE DEF read
  <1>6. list[p] \in Listing
    BY <1>1 DEF Types, LocalTypes
  <1>7. list' = [list EXCEPT ![p] = [list[p] EXCEPT ![q.net] =
                   [entry EXCEPT !.lists = [entry.lists EXCEPT ![q.table] = read]]]]
    BY <1>2 DEF read
  <1>8. entry \in [value: Value \cup {NoValue}, lists: [Table -> Seq(Item)]]
    BY <1>4, <1>6 DEF Listing
  <1> DEFINE lists == [entry.lists EXCEPT ![q.table] = read]
             after == [entry EXCEPT !.lists = lists]
  <1>9. /\ after \in [value: Value \cup {NoValue}, lists: [Table -> Seq(Item)]]
        /\ after.value = entry.value /\ after.lists[q.table] = read
        /\ \A t \in Table \ {q.table} : after.lists[t] = entry.lists[t]
    <2> HIDE DEF entry, lists
    <2>1. after = [value |-> entry.value, lists |-> lists]
      BY <1>8
    <2>2. /\ lists \in [Table -> Seq(Item)] /\ lists[q.table] = read
          /\ \A t \in Table \ {q.table} : lists[t] = entry.lists[t]
      BY <1>4, <1>5, <1>8 DEF lists
    <2>3. entry.value \in Value \cup {NoValue}
      BY <1>8
    <2>4. QED
      BY <2>1, <2>2, <2>3
  <1> HIDE DEF entry, lists, after
  <1>10. /\ list'[p] = [list[p] EXCEPT ![q.net] = after]
         /\ todo'[p] = todo[p] \ {q} /\ held'[p] = held[p] /\ db' = db
         /\ pc'[p] = IF todo[p] = {q} THEN "listed" ELSE "lists"
    BY <1>1, <1>2, <1>3, <1>7 DEF Types, LocalTypes, Goto, after, lists
  <1>11. list'[p] \in Listing
    BY <1>6, <1>9, <1>10 DEF Listing
  <1>12. Types'
    <2>1. list' \in [Proc -> Listing]
      BY <1>1, <1>7, <1>10, <1>11 DEF Types, LocalTypes
    <2>2. QED
      BY <1>1, <1>2, <1>3, <2>1 DEF Types, LocalTypes, Goto, PC, locks
  <1>13. \A n \in Net \ {q.net} : list'[p][n] = list[p][n]
    BY <1>6, <1>10 DEF Listing
  <1>14. list'[p][q.net] = after /\ list[p][q.net] = entry
    BY <1>4, <1>6, <1>10 DEF Listing, entry
  <1>15. ASSUME NEW n \in Net
         PROVE  /\ list'[p][n].value \in held'[p][n]
                /\ \A t \in Table : (\E r \in todo'[p] : r.net = n /\ r.table = t)
                                       \/ ListFound(p, n, t)'
    <2>1. /\ list[p][n].value \in held[p][n]
          /\ \A t \in Table : (\E r \in todo[p] : r.net = n /\ r.table = t) \/ ListFound(p, n, t)
      BY <1>1, <1>3 DEF Own, ListInv
    <2>2. list'[p][n].value \in held'[p][n]
      BY <1>9, <1>10, <1>13, <1>14, <2>1
    <2>3. ASSUME NEW t \in Table
          PROVE  (\E r \in todo'[p] : r.net = n /\ r.table = t) \/ ListFound(p, n, t)'
      <3>1. CASE n = q.net /\ t = q.table
        <4>1. list'[p][n].lists[t] = read
          BY <1>9, <1>14, <3>1
        <4>2. QED
          BY <1>5, <1>10, <3>1, <4>1 DEF ListFound
      <3>2. CASE ~(n = q.net /\ t = q.table)
        <4>1. list'[p][n].lists[t] = list[p][n].lists[t]
          BY <1>9, <1>13, <1>14, <3>2
        <4>2. CASE ListFound(p, n, t)
          BY <1>10, <4>1, <4>2 DEF ListFound
        <4>3. CASE \E r \in todo[p] : r.net = n /\ r.table = t
          BY <1>10, <3>2, <4>3
        <4>4. QED
          BY <2>1, <4>2, <4>3
      <3>3. QED
        BY <3>1, <3>2
    <2>4. QED
      BY <2>2, <2>3
  <1>16. ListInv(p)'
    <2>1. /\ \A n \in Net : Definition(db', n) \in held'[p][n]
          /\ \A r \in todo'[p] : \/ db'.rows[r.net].id = r.id
                                  \/ /\ NoValue \in held'[p][r.net]
                                     /\ \A n \in Net : db'.rows[n].id # r.id
      BY <1>1, <1>3, <1>10 DEF Own, ListInv
    <2>2. pc'[p] = "listed" => todo'[p] = {}
      BY <1>10
    <2>3. QED
      BY <1>15, <2>1, <2>2 DEF ListInv
  <1>17. OpInv(p)' /\ TxInv(p)' /\ MigrateInv(p)' /\ ((pc'[p] \in InTx) <=> (tx'[p] # NoDb))
    BY <1>1, <1>3, <1>10 DEF Own, OpInv, TxInv, MigrateInv, Querying, PC, InTx, locks
  <1>18. Own(p)'
    BY <1>1, <1>10, <1>16, <1>17 DEF Own
  <1>19. \A r \in Proc \ {p} : Others(r) /\ held'[r] = held[r]
    BY <1>1, <1>2, <1>3, <1>7 DEF Types, LocalTypes, Goto, Others, locks
  <1>20. QED
    BY <1>3, <1>12, <1>18, <1>19, QuietInv

LEMMA StepKeepsInv == IInv /\ [Next]_vars => IInv'
  <1> SUFFICES ASSUME IInv, [Next]_vars PROVE IInv'
    OBVIOUS
  <1>1. CASE UNCHANGED vars
    <2>1. Types /\ Whole(db) /\ \A p \in Proc : Own(p)
      BY Parts
    <2>2. \A p \in Proc : Others(p) /\ held'[p] = held[p]
      BY <1>1 DEF vars, Others
    <2>3. \A p \in Proc : Own(p)'
      BY <1>1, <2>1, <2>2, QuietStep DEF vars
    <2>4. Types' /\ Whole(db)'
      BY <1>1, <2>1 DEF vars, Types, LocalTypes
    <2>5. QED
      BY <2>3, <2>4, PartsAfter
  <1>2. ASSUME NEW p \in Proc, Step(p) PROVE IInv'
    <2>1. CASE Start(p)
      BY <2>1, StartInv
    <2>2. CASE Kill(p) \/ Busy(p) \/ Answer(p)
      BY <2>2, FailInv DEF Kill, Busy, Answer
    <2>3. CASE Inspect(p)
      BY <2>3, InspectInv
    <2>4. CASE Alter(p)
      BY <2>4, AlterInv
    <2>5. CASE Insert(p)
      BY <2>5, InsertInv
    <2>6. CASE Select(p)
      BY <2>6, SelectInv
    <2>7. CASE Update(p)
      BY <2>7, UpdateInv
    <2>8. CASE Clear(p)
      BY <2>8, ClearInv
    <2>9. CASE Write(p)
      BY <2>9, WriteInv
    <2>10. CASE CommitTx(p)
      BY <2>10, CommitTxInv
    <2>11. CASE Delete(p)
      BY <2>11, DeleteInv
    <2>12. CASE ReadRows(p)
      BY <2>12, ReadRowsInv
    <2>13. CASE ReadList(p)
      BY <2>13, ReadListInv
    <2>14. QED
      BY <1>2, <2>1, <2>2, <2>3, <2>4, <2>5, <2>6, <2>7, <2>8, <2>9, <2>10, <2>11, <2>12,
         <2>13 DEF Step
  <1>3. QED
    BY <1>1, <1>2 DEF Next

\* The file is whole at all times, and the transactions, migrations and listings
\* under way fit it (the locks of SQLite, the statements of store.go).
THEOREM Invariance == Spec => []IInv
  BY InitInv, StepKeepsInv, PTL DEF Spec

\* A transaction is open just where store.go has one, and its locks with it.
THEOREM TypeCorrect == Spec => []TypeOK
  <1>1. IInv => TypeOK
    BY DEF IInv
  <1>2. QED
    BY <1>1, Invariance, PTL

\* DeleteSubnet and every transaction undone leave no child row without its subnet.
THEOREM NoOrphans == Spec => []ChildrenHaveParents
  <1>1. IInv => ChildrenHaveParents
    BY DEF IInv, Whole, ChildrenHaveParents
  <1>2. QED
    BY <1>1, Invariance, PTL

\* No statement of store.go names a column the table lacks, whoever migrates and
\* whoever is killed meanwhile.
THEOREM Migrated == Spec => []QueriesFindTheirColumns
  <1>1. IInv => QueriesFindTheirColumns
    BY DEF IInv, MigrateInv, QueriesFindTheirColumns
  <1>2. QED
    BY <1>1, Invariance, PTL

\* What GetSubnets tells of a network is, part by part, what the network had while it
\* was read.
THEOREM ListingExact == Spec => []ListingWithinWindow
  <1>1. IInv => ListingWithinWindow
    <2> SUFFICES ASSUME IInv, NEW p \in Proc, pc[p] = "listed", NEW n \in Net
                 PROVE  /\ list[p][n].value \in held[p][n]
                        /\ \A t \in Table : ListFound(p, n, t)
      BY DEF ListingWithinWindow, ListFound
    <2>1. ListInv(p)
      BY DEF IInv
    <2>2. QED
      BY <2>1 DEF ListInv
  <1>2. QED
    BY <1>1, Invariance, PTL

(***************************************************************************)
(* The refinement.  Only COMMIT and DELETE change what the file has of the *)
(* networks; a column added changes nothing of it.                         *)
(***************************************************************************)
Subnets == [n \in Net |-> Definition(db, n)]

\* What is seen of a whole database is what its rows have.
LEMMA SeenRows ==
    ASSUME NEW d, Whole(d)
    PROVE  [n \in Net |-> Definition(d, n)] = [n \in Net |-> d.rows[n].value]
  BY WholeDefinition

LEMMA MapInit == Init => Map!Init
  <1> SUFFICES ASSUME Init PROVE Map!Init
    OBVIOUS
  <1>1. db.rows = [n \in Net |-> NoRow]
    BY DEF Init, NoDb
  <1>2. \A n \in Net : Definition(db, n) = NoValue
    BY <1>1 DEF Definition
  <1>3. QED
    BY <1>2 DEF Map!Init

\* A step of the map, as a step of what the rows have.
LEMMA MapStep ==
    ASSUME Whole(db), Whole(db'), NEW n \in Net, NEW v \in Value \cup {NoValue},
           \A m \in Net \ {n} : db'.rows[m] = db.rows[m],
           db'.rows[n].value = v,
           db.rows[n] # NoRow \/ v # NoValue
    PROVE  Map!Next
  <1>1. \A m \in Net : /\ Subnets[m] = db.rows[m].value /\ Subnets'[m] = db'.rows[m].value
    BY WholeDefinition DEF Subnets
  <1>2. Subnets' = [Subnets EXCEPT ![n] = v]
    BY <1>1, ZenonT(30) DEF Subnets
  <1>3. (Subnets[n] = NoValue) <=> (db.rows[n] = NoRow)
    BY <1>1, RowFields, ValueAssumption DEF Whole, Database
  <1>4. CASE v = NoValue
    <2>1. Map!Remove(n)
      BY <1>2, <1>3, <1>4 DEF Map!Remove, Subnets
    <2>2. QED
      BY <2>1 DEF Map!Next
  <1>5. CASE v \in Value
    <2>1. Map!Add(n, v) \/ Map!Replace(n, v)
      BY <1>2, <1>3 DEF Map!Add, Map!Replace, Subnets
    <2>2. QED
      BY <1>5, <2>1 DEF Map!Next
  <1>6. QED
    BY <1>4, <1>5

LEMMA StepImplementsMap ==
    ASSUME IInv, [Next]_vars
    PROVE  Map!Next \/ UNCHANGED [n \in Net |-> Definition(db, n)]
  <1>1. Whole(db)
    BY DEF IInv
  <1>2. Whole(db')
    BY StepKeepsInv DEF IInv
  <1>3. CASE db' = db
    BY <1>3
  <1>4. ASSUME NEW p \in Proc, Step(p), db' # db
        PROVE  Map!Next \/ UNCHANGED [n \in Net |-> Definition(db, n)]
    <2>1. ~Fail(p)
      BY <1>4 DEF Fail
    <2>2. CASE CommitTx(p)
      <3>1. pc[p] = "commit" /\ db' = tx[p]
        BY <2>2 DEF CommitTx, Commit
      <3>2. op[p].net \in Net /\ op[p].value \in Value
        BY <3>1, TxFacts DEF InTx
      <3>3. Stored(db, db', op[p].net, id[p], op[p].value)
        BY <3>1, CommitStored
      <3>4. /\ \A m \in Net \ {op[p].net} : db'.rows[m] = db.rows[m]
            /\ db'.rows[op[p].net].value = op[p].value
        BY <1>1, <3>2, <3>3 DEF Stored, Whole, Database
      <3>5. op[p].value # NoValue
        BY <3>2, ValueAssumption
      <3>6. QED
        BY <1>1, <1>2, <3>2, <3>4, <3>5, MapStep
    <2>3. CASE Delete(p)
      <3> DEFINE n == op[p].net
      <3>1. pc[p] = "delete" /\ db.rows[n] # NoRow /\ db' = WithoutRow(db, n)
        BY <2>1, <2>3 DEF Delete, Commit
      <3>2. n \in Net
        <4>1. OpInv(p)
          BY DEF IInv
        <4>2. QED
          BY <3>1, <4>1, OpFields DEF OpInv
      <3>3. db'.rows = [db.rows EXCEPT ![n] = NoRow]
        BY <1>1, <3>1, <3>2, DeletedWhole
      <3>4. (\A m \in Net \ {n} : db'.rows[m] = db.rows[m]) /\ db'.rows[n].value = NoValue
        BY <1>1, <3>2, <3>3 DEF Whole, Database, NoRow
      <3>5. QED
        BY <1>1, <1>2, <3>1, <3>2, <3>4, MapStep
    <2>4. CASE Alter(p)
      <3>1. PICK c \in alters[p] : db' = [db EXCEPT !.columns = @ \cup {c}]
        BY <2>1, <2>4 DEF Alter, Commit
      <3>2. c \in ToSet(Columns)
        BY DEF IInv, LocalTypes
      <3>3. db'.rows = db.rows
        BY <1>1, <3>1, <3>2, ColumnWhole
      <3>4. [n \in Net |-> Definition(db', n)] = [n \in Net |-> Definition(db, n)]
        BY <1>1, <1>2, <3>3, SeenRows
      <3>5. QED
        BY <3>4
    <2>5. QED
      BY <1>4, <2>1, <2>2, <2>3, <2>4
      DEF Step, Start, Kill, Busy, Inspect, Insert, Select, Update, Clear, Write, ReadRows,
          ReadList, Answer
  <1>5. QED
    BY <1>3, <1>4 DEF Next, vars

\* Whatever is killed, refused or run side by side, a subnet is added, replaced or
\* removed as a whole.
THEOREM StoreImplementsMap == Spec => ImplementsMap
  <1>1. Init => Map!Init
    BY MapInit
  <1>2. IInv /\ [Next]_vars => [Map!Next]_([n \in Net |-> Definition(db, n)])
    BY StepImplementsMap
  <1>3. QED
    BY <1>1, <1>2, Invariance, PTL DEF Spec, ImplementsMap, Map!Spec
=============================================================================
