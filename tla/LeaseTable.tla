----------------------------- MODULE LeaseTable -----------------------------
(***************************************************************************)
(* The two SQLite tables of internal/db/db.go as values, and each query    *)
(* the daemon runs on them as an operator.  "leases" is a function from    *)
(* addresses to rows, because ip_address is declared UNIQUE; "NoRow" says  *)
(* that the table has no row for the address.  "deny_addresses" is the set *)
(* of its addresses.  SQLite runs one statement at a time, so a query is   *)
(* atomic here; two queries of one handler are two steps of its module.    *)
(*                                                                         *)
(* A row keeps what the code decides on: the client, the end of the lease, *)
(* the state and the is_static column.  Ids, host names, the start of the  *)
(* lease and the bookkeeping columns are left out.                         *)
(***************************************************************************)
EXTENDS Naturals, FiniteSets

CONSTANTS Mac,      \* clients, named by their normalised hardware address
          Addr,     \* IPv4 addresses
          NoMac,    \* no client
          NoAddr    \* no address (nil, or 0.0.0.0)

ASSUME NullAssumption == NoMac \notin Mac /\ NoAddr \notin Addr

Row == [mac: Mac, end: Nat, state: {"active", "expired"}, static: BOOLEAN]

NoRow == [mac |-> NoMac, end |-> 0, state |-> "none", static |-> FALSE]

Table == [Addr -> Row \cup {NoRow}]

(***************************************************************************)
(* Queries.                                                                *)
(***************************************************************************)
HasRow(t, a) == t[a] # NoRow

GetLeaseByIP(t, a) == t[a]

ActiveFor(t, m) == {a \in Addr : t[a].state = "active" /\ t[a].mac = m}

\* A bug to compare with: ORDER BY lease_end without DESC.
OldestFirst(t, m) ==
    {a \in ActiveFor(t, m) : \A b \in ActiveFor(t, m) : t[a].end <= t[b].end}

\* ORDER BY lease_end DESC LIMIT 1: the addresses the one row returned may
\* have.  Rows that end together may come in any order.
GetLeaseByMAC(t, m) ==
    {a \in ActiveFor(t, m) : \A b \in ActiveFor(t, m) : t[b].end <= t[a].end}

\* A bug to compare with: the lease of another client is not looked at.
RowFreeUnchecked(row, m, t) == TRUE

\* What isIPAvailable makes of the row it read, at time t: the address may go
\* to client m.  The state of the row is not looked at.
RowFree(row, m, t) == row = NoRow \/ row.mac = m \/ t > row.end

(***************************************************************************)
(* Statements that change a table.  AddLease fails, and changes nothing,   *)
(* when the address has a row (the UNIQUE constraint): its users guard it  *)
(* with CanAdd.  UpdateLease names every column but is_static, and changes *)
(* nothing when no row matches.                                            *)
(***************************************************************************)
CanAdd(t, a) == ~HasRow(t, a)

AddLease(t, a, row) == [t EXCEPT ![a] = row]

UpdateLease(t, a, row) ==
    IF HasRow(t, a)
    THEN [t EXCEPT ![a] = [row EXCEPT !.static = t[a].static]]
    ELSE t

AddDenyAddress(deny, a) == deny \cup {a}

IsDenyAddress(deny, a) == a \in deny
=============================================================================
