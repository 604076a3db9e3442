-------------------------- MODULE LeaseServerLive ---------------------------
(***************************************************************************)
(* LeaseServer with clients that want a lease and do what RFC 2131 has     *)
(* them do about it: a client without one sends a DISCOVER, one that was   *)
(* offered an address a REQUEST for it, one that has a lease renews it.    *)
(* Nobody releases.  What such a client may expect is that it is served.   *)
(***************************************************************************)
EXTENDS LeaseServer

HasLease(m) == Holds(m, client[m].ip)

\* A client that waits sends nothing else, unless its reply was lost.
Ask(m) ==
    \E h \in Handler :
        \/ client[m].st = "init" /\ ReceiveDiscover(h, m, NoAddr)
        \/ client[m].st = "offered" /\ ReceiveRequest(h, m, client[m].ip)
        \/ client[m].st = "bound" /\ HasLease(m) /\ ReceiveRequest(h, m, client[m].ip)
        \/ client[m].st = "bound" /\ ~HasLease(m) /\ ReceiveDiscover(h, m, client[m].ip)

PatientNext ==
    \/ Tick
    \/ \E m \in Mac : Ask(m)
    \/ \E h \in Handler : Step(h)

\* A reply for client m gets through.
Delivered(m, st) ==
    \E h \in Handler : /\ pkt[h].mac = m /\ Step(h)
                       /\ client'[m].st = st /\ client'[m] # client[m]

(***************************************************************************)
(* Fairness.  The Go scheduler runs every goroutine (weak fairness of a    *)
(* handler's steps).  A client repeats its packet until it is answered,    *)
(* and of packets sent again and again some get through: the handlers are  *)
(* busy now and then, so that takes strong fairness, and so do replies.    *)
(***************************************************************************)
Fairness ==
    /\ \A h \in Handler : WF_vars(Step(h))
    /\ \A m \in Mac : /\ SF_vars(Ask(m))
                      /\ SF_vars(Delivered(m, "offered"))
                      /\ SF_vars(Delivered(m, "bound"))

LiveSpec == Init /\ [][PatientNext]_vars /\ Fairness

\* Every client is served, for as long as there are addresses for all: a client
\* without a lease gets one in the end, through offers it must share (an OFFER
\* reserves nothing), DHCPNAKs, lost replies, squatted addresses the scan has to
\* pass over and leases that run out with nothing but their end to say so.
EveryClientServed == \A m \in Mac : ~HasLease(m) ~> HasLease(m)
=============================================================================
