---------------------------- MODULE ListenerInv -----------------------------
(***************************************************************************)
(* The inductive invariant behind the properties of Listener, apart from   *)
(* its proof (Listener_proofs) so that TLC can check it too.               *)
(*                                                                         *)
(* FrameInv(h) says that the places of h's packet are within the bytes     *)
(* that came, and that these are still what h reads, unless overwritten;   *)
(* StageInv(h) what h has made of them at each of its steps; ReplyInv(h)   *)
(* that what it is about to write can be written.  CountInv(c) says that   *)
(* nobody is about to store more than was to be counted: a counter may go  *)
(* down, when an old value is stored.                                      *)
(***************************************************************************)
EXTENDS Listener

\* What TypeOK leaves out, of the locals of handlers.
LocalTypes ==
    /\ source \in [Handler -> Socket] /\ own \in [Handler -> Seq(Byte)]
    /\ want \in [Handler -> [at: Nat, len: Nat]]
    /\ register \in [Handler -> Nat]
    /\ DOMAIN packet = Handler /\ DOMAIN answer = Handler /\ DOMAIN reply = Handler
    /\ DOMAIN dest = Handler /\ DOMAIN granted = Handler
    /\ overwritten \in [Handler -> BOOLEAN]

\* One byte of the data.
Within(place, data) == place = Place(place.at, 1) /\ place.at \in 1 .. Len(data)

\* Handler h reads what its client wrote.
Intact(h) == source[h] = "raw" \/ ~overwritten[h]

FrameInv(h) ==
    /\ Parseable(own[h]) /\ packet[h] = ParsePacket(own[h])
    /\ want[h] = Nowhere \/ Within(want[h], own[h])
    /\ source[h] = "udp" /\ ~overwritten[h]
         => /\ Len(own[h]) <= Len(buffer["udp"])
            /\ \A i \in 1 .. Len(own[h]) : own[h][i] = buffer["udp"][i]

Early == {"idle", "kind", "count", "store", "mac"}

StageInv(h) ==
    /\ pc[h] \notin {"idle", "kind"} => kind[h] \in Counted
    /\ pc[h] \in {"args", "verify", "lease"} => kind[h] = DHCPRequest
    /\ pc[h] = "allocate" => kind[h] \in {DHCPDiscover, DHCPRequest}
    /\ kind[h] = DHCPRequest /\ pc[h] \in {"allocate", "verify", "subnet", "lease"}
         => want[h] # Nowhere
    /\ kind[h] = DHCPRequest /\ pc[h] \in {"subnet", "lease"} => given[h] = AtWant
    /\ pc[h] = "reply" => answer[h] # 0
    /\ pc[h] \in {"send", "sent"} => reply[h] # NoReply
    /\ pc[h] \notin Early /\ Intact(h) => mac[h] = Wrote(h, packet[h].chaddr)
    /\ granted[h] # NoGrant
         => /\ pc[h] \in {"reply", "send", "sent"}
            /\ kind[h] = DHCPRequest /\ answer[h] = DHCPAck
            /\ given[h] = AtWant /\ want[h] # Nowhere

HandlerInv(h) ==
    /\ pc[h] = "idle" => ~overwritten[h] /\ want[h] = Nowhere
    /\ pc[h] # "idle" => FrameInv(h)
    /\ StageInv(h)
    /\ Intact(h) => ServedAsSent(h)

\* addSubnetOptions does not look at the number of routers; the length of the option
\* is one byte.
RoutersFit == Len(Routers) < 256

\* A handler that goes to a reply with an address has that address, and the reply is
\* one that ToBytes can write.
ReplyInv(h) ==
    /\ pc[h] \in {"subnet", "lease"} \/ (pc[h] = "reply" /\ answer[h] # DHCPNak)
         => given[h] # AtWant \/ want[h] # Nowhere
    /\ pc[h] = "reply" => answer[h] \in {DHCPOffer, DHCPAck, DHCPNak}
    /\ pc[h] = "send" /\ RoutersFit => Writable(reply[h])

\* v, and what is still to be counted, is no more than was to be counted.
AtMost(v, c) == v + Due(c) <= seen[c]

Storing(h, c) == pc[h] = "store" /\ kind[h] = c

StoringLoop(s, c) == loop[s].at = "store" /\ c = Received

CountInv(c) ==
    /\ AtMost(stats[c], c)
    /\ \A h \in Handler : Storing(h, c) => AtMost(register[h], c)
    /\ \A s \in Socket : StoringLoop(s, c) => AtMost(loop[s].register, c)
    /\ c \notin overlapped =>
          /\ stats[c] + Due(c) = seen[c]
          /\ \A h \in Handler : Storing(h, c) => register[h] = stats[c]
          /\ \A s \in Socket : StoringLoop(s, c) => loop[s].register = stats[c]
          /\ \A g, h \in Handler : Storing(g, c) /\ Storing(h, c) => g = h
          /\ \A r, s \in Socket : StoringLoop(r, c) /\ StoringLoop(s, c) => r = s

IInv ==
    /\ TypeOK /\ LocalTypes
    /\ \A s \in Socket : loop[s].n <= Len(buffer[s])
    /\ \A h \in Handler : HandlerInv(h) /\ ReplyInv(h)
    /\ \A c \in Counter : CountInv(c)
=============================================================================
