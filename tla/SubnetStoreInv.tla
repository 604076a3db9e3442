--------------------------- MODULE SubnetStoreInv ---------------------------
(***************************************************************************)
(* The inductive invariant behind the properties of SubnetStore, apart     *)
(* from its proof (SubnetStore_proofs) so that TLC can check it too.       *)
(*                                                                         *)
(* The database file is whole at all times (Whole).  What a transaction    *)
(* works on is what its statements so far make of the file as it is now,   *)
(* because its locks keep others from changing the file (TxInv).  A        *)
(* process that migrates knows of every column that is missing             *)
(* (MigrateInv).  A listing has, of each network, only what was there      *)
(* while it was read, and the queries left are for ids that no other       *)
(* network will ever have (ListInv).                                       *)
(***************************************************************************)
EXTENDS SubnetStore

\* Rows have ids of their own, child rows have a parent, and each row has the
\* child rows of its definition.
Whole(d) ==
    /\ d \in Database
    /\ \A n \in Net : d.rows[n].id <= d.lastId
    /\ \A m, n \in Net : d.rows[m] # NoRow /\ d.rows[m].id = d.rows[n].id => m = n
    /\ \A k \in d.kids : \E n \in Net : d.rows[n].id = k.id
    /\ \A n \in Net, t \in Table :
          d.rows[n] # NoRow
            => Kids(d, d.rows[n].id, t) = ChildRows(d.rows[n].id, d.rows[n].value, t)

\* The request of a process, by where it is.
OpInv(p) ==
    /\ pc[p] # "idle" => op[p] \in Op
    /\ pc[p] = "insert" => op[p].kind = "insert"
    /\ pc[p] \in {"select", "update", "clear"} => op[p].kind = "update"
    /\ pc[p] \in {"write", "commit"} => op[p].kind \in {"insert", "update"}
    /\ pc[p] = "delete" => op[p].kind = "delete"
    /\ pc[p] \in {"rows", "lists", "listed"} => op[p].kind = "list"

\* What the statements of a transaction have made of the file.
Rewritten(p) == WithRow(db, op[p].net, id[p], op[p].value)

Emptied(p) ==
    IF op[p].kind = "insert" THEN Rewritten(p) ELSE ClearChildren(Rewritten(p), id[p])

TxInv(p) ==
    /\ pc[p] \notin InTx => tx[p] = NoDb /\ p \notin shared /\ reserved # p
    /\ pc[p] \in InTx \ {"update"} => reserved = p
    /\ pc[p] = "update" => reserved # p
    /\ pc[p] \in InTx /\ op[p].kind = "insert"
         => db.rows[op[p].net] = NoRow /\ id[p] = NextId(db) /\ p \notin shared
    /\ pc[p] \in InTx /\ op[p].kind = "update"
         => db.rows[op[p].net] # NoRow /\ id[p] = db.rows[op[p].net].id /\ p \in shared
    /\ pc[p] = "update" => tx[p] = db
    /\ pc[p] = "clear" => tx[p] = Rewritten(p)
    /\ pc[p] = "write" => tx[p] = Emptied(p)
    /\ pc[p] = "commit" => tx[p] = WriteChildren(Emptied(p), id[p], op[p].value)

MigrateInv(p) ==
    /\ alters[p] \subseteq ToSet(Columns)
    /\ pc[p] = "alter" => ToSet(Columns) \subseteq db.columns \cup alters[p]
    /\ pc[p] \in Querying => ToSet(Columns) \subseteq db.columns

\* List t of network n, as p has read it, belongs to a definition n had meanwhile.
ListFound(p, n, t) ==
    \/ \E v \in held[p][n] \ {NoValue} : list[p][n].lists[t] = Lists[v][t]
    \/ NoValue \in held[p][n] /\ list[p][n].lists[t] = <<>>

ListInv(p) ==
    /\ pc[p] \in {"lists", "listed"} =>
         \A n \in Net :
            /\ list[p][n].value \in held[p][n]
            /\ \A t \in Table : (\E q \in todo[p] : q.net = n /\ q.table = t)
                                   \/ ListFound(p, n, t)
    /\ pc[p] = "lists" =>
         /\ \A n \in Net : Definition(db, n) \in held[p][n]
         /\ \A q \in todo[p] :
               \/ db.rows[q.net].id = q.id
               \/ /\ NoValue \in held[p][q.net]
                  /\ \A n \in Net : db.rows[n].id # q.id
    /\ pc[p] = "listed" => todo[p] = {}

Query == [net: Net, id: 1 .. MaxId, table: Table]

Listing == [Net -> [value: Value \cup {NoValue}, lists: [Table -> Seq(Item)]]]

LocalTypes ==
    /\ tx \in [Proc -> Database]
    /\ alters \in [Proc -> SUBSET ToSet(Columns)]
    /\ list \in [Proc -> Listing]
    /\ todo \in [Proc -> SUBSET Query]
    /\ held \in [Proc -> [Net -> SUBSET (Value \cup {NoValue})]]

IInv ==
    /\ TypeOK /\ LocalTypes
    /\ Whole(db)
    /\ \A p \in Proc : OpInv(p) /\ TxInv(p) /\ MigrateInv(p) /\ ListInv(p)
    /\ \A p \in Proc : \A q \in todo[p] : q.id <= db.lastId
=============================================================================
