----------------------------- MODULE LeaseBook ------------------------------
(***************************************************************************)
(* What the server promises of its lease table, without handlers: a book   *)
(* in which every lease is taken, extended or given up in one step, and    *)
(* only when it may be.  LeaseServer with one handler implements it: its   *)
(* queries and writes, steps apart, then have the effect of such steps.    *)
(***************************************************************************)
EXTENDS LeaseTable

CONSTANTS Static,     \* the static address of each client, or NoAddr
          LeaseTime

VARIABLES leases, now

vars == <<leases, now>>

\* The row does not keep its address from client m.
FreeFor(row, m) == row.state # "active" \/ row.mac = m \/ now > row.end

Init == leases \in Table /\ now = 0

\* Client m takes address a, or stays on it: of the addresses nobody else has,
\* or its static one.  A lease is never made longer than LeaseTime from now, and
\* staying on a dynamic address never makes it shorter.
Take(m, a) ==
    /\ FreeFor(leases[a], m) \/ Static[m] = a
    /\ \E e \in 0 .. (now + LeaseTime), s \in BOOLEAN :
         /\ leases[a].state = "active" /\ leases[a].mac = m /\ Static[m] # a
              => e >= leases[a].end
         /\ leases' = [leases EXCEPT ![a] =
                          [mac |-> m, end |-> e, state |-> "active", static |-> s]]
    /\ UNCHANGED now

\* Client m gives up address a, which is its own.
GiveUp(m, a) ==
    /\ leases[a].state = "active" /\ leases[a].mac = m
    /\ \E e \in 0 .. now :
         leases' = [leases EXCEPT ![a] = [leases[a] EXCEPT !.state = "expired", !.end = e]]
    /\ UNCHANGED now

Tick == now' = now + 1 /\ UNCHANGED leases

Next == Tick \/ \E m \in Mac, a \in Addr : Take(m, a) \/ GiveUp(m, a)

Spec == Init /\ [][Next]_vars
=============================================================================
