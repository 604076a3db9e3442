---------------------------- MODULE StaticLeases ----------------------------
(***************************************************************************)
(* seedStaticLeases of cmd/dhcpd/main.go as a value: what the leases table *)
(* is after the daemon has stored a lease for every static host.  hosts[m] *)
(* is the address of client m, or NoAddr; row[m] the lease stored for m.   *)
(***************************************************************************)
EXTENDS LeaseTable

\* For each address the host that is seeded last; two hosts may name one address,
\* and the provider lists them in an order of its own.
Owners(hosts) ==
    {f \in [Addr -> Mac \cup {NoMac}] :
        \A a \in Addr : LET named == {m \in Mac : hosts[m] = a}
                        IN  IF named = {} THEN f[a] = NoMac ELSE f[a] \in named}

\* SeedStaticLease for each: GetLeaseByIP, then UpdateLease or AddLease.
SeedAll(t, owner, row) ==
    [a \in Addr |->
        IF owner[a] = NoMac THEN t[a]
        ELSE IF HasRow(t, a) THEN UpdateLease(t, a, row[owner[a]])[a]
        ELSE AddLease(t, a, row[owner[a]])[a]]
=============================================================================
