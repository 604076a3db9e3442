-------------------------- MODULE Listener_proofs --------------------------
(***************************************************************************)
(* Proofs about Listener, for any packets, any number of handlers and any  *)
(* subnet: its types, which handlers are served what was sent, and when    *)
(* the counters are exact.                                                 *)
(*                                                                         *)
(* A step of handler h leaves the other handlers as they are (Others), so  *)
(* HandlerInv is about h alone.  Only ReadPacket changes what another      *)
(* handler reads, and it says so in overwritten.                           *)
(***************************************************************************)
EXTENDS ListenerInv, PacketCodec_proofs

(***************************************************************************)
(* Places.                                                                 *)
(***************************************************************************)
LEMMA HeaderPlaces ==
    ASSUME NEW data, Parseable(data)
    PROVE  /\ Within(ParsePacket(data).ciaddr, data)
           /\ Within(ParsePacket(data).giaddr, data)
           /\ Within(ParsePacket(data).chaddr, data)
  BY DEF Parseable, ParsePacket, Within, Place, HeaderLen

LEMMA FoundPlace ==
    ASSUME NEW data \in Seq(Byte), NEW code
    PROVE  \/ GetPlace(ParsePacket(data), code) = Nowhere
           \/ Within(GetPlace(ParsePacket(data), code), data)
  <1> DEFINE options == ParsePacket(data).options
  <1>1. CASE code \in DOMAIN options /\ options[code].len = 1
    <2>1. options = Options(data) \/ options = <<>>
      BY DEF ParsePacket
    <2>2. code \in DOMAIN Options(data) /\ options[code] = Options(data)[code]
      BY <1>1, <2>1
    <2>3. PICK i \in DOMAIN data : options[code] = Place(i + 2, data[i + 1]) /\ Fits(data, i)
      BY <2>2, OptionPlaces
    <2>4. i \in 1 .. Len(data) /\ data[i + 1] = 1
      BY <1>1, <2>3 DEF Place
    <2>5. Within(options[code], data)
      BY <2>3, <2>4 DEF Within, Place, Fits
    <2>6. QED
      BY <1>1, <2>5 DEF GetPlace, HasOption
  <1>2. CASE ~(code \in DOMAIN options /\ options[code].len = 1)
    BY <1>2 DEF GetPlace, HasOption, Nowhere
  <1>3. QED
    BY <1>1, <1>2

\* A byte that is within the data is where the data are the same.
LEMMA SameByte ==
    ASSUME NEW data, NEW bytes, NEW place, Within(place, data),
           Len(data) \in Nat, Len(bytes) \in Nat, Len(data) <= Len(bytes),
           \A i \in 1 .. Len(data) : data[i] = bytes[i]
    PROVE  At(bytes, place)[1] = At(data, place)[1]
  BY DEF Within, At, Place

LEMMA ByteRead ==
    ASSUME NEW bytes \in Seq(Byte), NEW place, NEW data, Within(place, data),
           Len(data) \in Nat
    PROVE  At(bytes, place)[1] \in Byte
  <1>1. /\ At(bytes, place)[1] = IF place.at <= Len(bytes) THEN bytes[place.at] ELSE 0
        /\ place.at \in Nat /\ place.at >= 1
    BY DEF Within, At, Place
  <1>2. Len(bytes) \in Nat /\ \A i \in 1 .. Len(bytes) : bytes[i] \in Byte
    BY ElementOfSeq
  <1>3. 0 \in Byte
    BY DEF Byte
  <1>4. place.at <= Len(bytes) => bytes[place.at] \in Byte
    BY <1>1, <1>2
  <1>5. QED
    BY <1>1, <1>3, <1>4

(***************************************************************************)
(* What a step of one handler leaves alone.                                *)
(***************************************************************************)
HandlerTypes ==
    /\ pc \in [Handler -> PC]
    /\ kind \in [Handler -> Byte] /\ mac \in [Handler -> Byte]
    /\ given \in [Handler -> Byte \cup {AtWant}]
    /\ LocalTypes

SharedTypes ==
    /\ \A s \in Socket : queue[s] \in Seq(Seq(Byte))
    /\ sent \in 0 .. MaxPackets
    /\ loop \in [Socket -> [at: {"read", "count", "store", "start"}, n: Nat, register: Nat]]
    /\ buffer \in [Socket -> Seq(Byte)]
    /\ \A r \in leases : r.ip \in Byte /\ r.mac \in Byte
    /\ \A q, r \in leases : q.ip = r.ip => q = r
    /\ stats \in [Counter -> Nat] /\ seen \in [Counter -> Nat]

\* What is asked of the read loops' buffers.
BufferInv == \A s \in Socket : loop[s].n <= Len(buffer[s])

Others(h) ==
    \A g \in Handler \ {h} :
        /\ pc'[g] = pc[g] /\ source'[g] = source[g] /\ own'[g] = own[g]
        /\ packet'[g] = packet[g] /\ kind'[g] = kind[g] /\ register'[g] = register[g]
        /\ mac'[g] = mac[g] /\ want'[g] = want[g] /\ given'[g] = given[g]
        /\ answer'[g] = answer[g] /\ reply'[g] = reply[g] /\ dest'[g] = dest[g]
        /\ granted'[g] = granted[g] /\ overwritten'[g] = overwritten[g]

\* The packet of h stays where and as it is.
SameFrame(h) ==
    /\ source'[h] = source[h] /\ own'[h] = own[h] /\ packet'[h] = packet[h]
    /\ overwritten'[h] = overwritten[h] /\ buffer' = buffer

LEMMA TypesSplit ==
    /\ TypeOK /\ LocalTypes => HandlerTypes /\ SharedTypes
    /\ HandlerTypes /\ SharedTypes /\ (\A h \in Handler : HandlerInv(h))
         => TypeOK
  <1>1. TypeOK /\ LocalTypes => HandlerTypes /\ SharedTypes
    BY DEF TypeOK, HandlerTypes, SharedTypes
  <1>2. ASSUME HandlerTypes, NEW h \in Handler, HandlerInv(h)
        PROVE  /\ pc[h] \in {"verify", "lease"} => kind[h] = DHCPRequest /\ want[h].len = 1
               /\ pc[h] \in {"send", "sent"} => reply[h] # NoReply
               /\ pc[h] = "reply" => answer[h] # 0
    BY <1>2 DEF HandlerInv, StageInv, FrameInv, Within, Place
  <1>3. HandlerTypes /\ SharedTypes /\ (\A h \in Handler : HandlerInv(h)) => TypeOK
    BY <1>2 DEF TypeOK, HandlerTypes, SharedTypes
  <1>4. QED
    BY <1>1, <1>3

LEMMA KeptHandler ==
    ASSUME NEW h \in Handler, Others(h), buffer' = buffer,
           NEW g \in Handler \ {h}, HandlerInv(g)
    PROVE  HandlerInv(g)'
  <1>1. /\ pc'[g] = pc[g] /\ source'[g] = source[g] /\ own'[g] = own[g]
        /\ packet'[g] = packet[g] /\ kind'[g] = kind[g] /\ register'[g] = register[g]
        /\ mac'[g] = mac[g] /\ want'[g] = want[g] /\ given'[g] = given[g]
        /\ answer'[g] = answer[g] /\ reply'[g] = reply[g] /\ dest'[g] = dest[g]
        /\ granted'[g] = granted[g] /\ overwritten'[g] = overwritten[g]
    BY DEF Others
  <1>2. Intact(g)' <=> Intact(g)
    BY <1>1 DEF Intact
  <1>3. ServedAsSent(g)' <=> ServedAsSent(g)
    BY <1>1 DEF ServedAsSent, LeaseAsAsked, Wrote
  <1>4. FrameInv(g)' <=> FrameInv(g)
    BY <1>1 DEF FrameInv
  <1>5. StageInv(g)' <=> StageInv(g)
    BY <1>1, <1>2 DEF StageInv, Wrote
  <1>6. QED
    BY <1>1, <1>2, <1>3, <1>4, <1>5 DEF HandlerInv

LEMMA KeptFrame ==
    ASSUME NEW h \in Handler, HandlerInv(h), pc[h] # "idle", SameFrame(h),
           want'[h] = want[h] \/ Within(want'[h], own[h])
    PROVE  /\ FrameInv(h)' /\ (Intact(h)' <=> Intact(h))
  BY DEF HandlerInv, FrameInv, SameFrame, Intact

\* What an intact handler reads is what its client wrote.
LEMMA ReadIntact ==
    ASSUME HandlerTypes, SharedTypes,
           NEW h \in Handler, FrameInv(h), Intact(h), NEW p, Within(p, own[h])
    PROVE  Read(h, p) = Wrote(h, p)
  <1>1. own[h] \in Seq(Byte) /\ buffer["udp"] \in Seq(Byte) /\ source[h] \in Socket
    BY DEF HandlerTypes, LocalTypes, SharedTypes, Socket
  <1>2. CASE source[h] = "raw"
    BY <1>2 DEF Read, Wrote, Memory
  <1>3. CASE source[h] # "raw"
    <2>1. source[h] = "udp" /\ ~overwritten[h]
      BY <1>1, <1>3 DEF Intact, Socket
    <2>2. /\ Len(own[h]) <= Len(buffer["udp"])
          /\ \A i \in 1 .. Len(own[h]) : own[h][i] = buffer["udp"][i]
      BY <2>1 DEF FrameInv
    <2>3. Len(own[h]) \in Nat /\ Len(buffer["udp"]) \in Nat
      BY <1>1
    <2>4. At(buffer["udp"], p)[1] = At(own[h], p)[1]
      BY <2>2, <2>3, SameByte
    <2>5. QED
      BY <1>3, <2>4 DEF Read, Wrote, Memory
  <1>4. QED
    BY <1>2, <1>3

LEMMA ReadByte ==
    ASSUME HandlerTypes, SharedTypes, NEW h \in Handler, NEW p, Within(p, own[h])
    PROVE  Read(h, p) \in Byte
  <1>1. own[h] \in Seq(Byte) /\ Memory(h) \in Seq(Byte)
    BY DEF HandlerTypes, LocalTypes, SharedTypes, Socket, Memory
  <1>2. Len(own[h]) \in Nat
    BY <1>1
  <1>3. QED
    BY <1>1, <1>2, ByteRead DEF Read

LEMMA FramePlaces ==
    ASSUME HandlerTypes, NEW h \in Handler, FrameInv(h)
    PROVE  /\ Within(packet[h].ciaddr, own[h])
           /\ Within(packet[h].giaddr, own[h])
           /\ Within(packet[h].chaddr, own[h])
           /\ \A code : \/ GetPlace(packet[h], code) = Nowhere
                        \/ Within(GetPlace(packet[h], code), own[h])
  <1>1. own[h] \in Seq(Byte) /\ Parseable(own[h]) /\ packet[h] = ParsePacket(own[h])
    BY DEF HandlerTypes, LocalTypes, FrameInv
  <1>2. QED
    BY <1>1, HeaderPlaces, FoundPlace

LEMMA PlacesTyped ==
    ASSUME NEW data \in Seq(Byte), NEW p, p = Nowhere \/ Within(p, data)
    PROVE  /\ p \in [at: Nat, len: Nat]
           /\ Within(p, data) => p # Nowhere
  BY DEF Nowhere, Within, Place

(***************************************************************************)
(* The steps of a handler.                                                 *)
(***************************************************************************)
Fine(h) == HandlerTypes' /\ Others(h) /\ HandlerInv(h)'

LEMMA EndMove ==
    ASSUME HandlerTypes, NEW h \in Handler, End(h)
    PROVE  Fine(h) /\ pc'[h] = "idle"
  <1>1. HandlerTypes'
    <2>1. <<>> \in Seq(Byte) /\ Nowhere \in [at: Nat, len: Nat] /\ 0 \in Byte
      BY EmptySeq DEF Nowhere, Place, Byte
    <2>2. QED
      BY <2>1 DEF HandlerTypes, LocalTypes, End, Goto, PC, Socket
  <1>2. Others(h)
    BY DEF Others, End, Goto
  <1>3. /\ pc'[h] = "idle" /\ ~overwritten'[h] /\ granted'[h] = NoGrant /\ kind'[h] = 0
        /\ reply'[h] = NoReply /\ want'[h] = Nowhere
    BY DEF HandlerTypes, LocalTypes, End, Goto
  <1>4. ServedAsSent(h)'
    BY <1>3 DEF ServedAsSent, LeaseAsAsked
  <1>5. StageInv(h)'
    BY <1>3 DEF StageInv, Early, DHCPRequest
  <1>6. QED
    BY <1>1, <1>2, <1>3, <1>4, <1>5 DEF Fine, HandlerInv

LEMMA RefuseMove ==
    ASSUME HandlerTypes, NEW h \in Handler, HandlerInv(h), Refuse(h),
           pc[h] \in {"args", "allocate", "verify", "subnet"}, buffer' = buffer
    PROVE  Fine(h)
  <1>1. CASE End(h)
    BY <1>1, EndMove
  <1>2. CASE /\ ReplyWith(h, DHCPNak)
             /\ UNCHANGED <<frame, args, register, reply, dest, granted, overwritten>>
    <2>1. /\ HandlerTypes' /\ Others(h)
      BY <1>2 DEF HandlerTypes, LocalTypes, Others, ReplyWith, Goto, frame, args, PC
    <2>2. /\ pc'[h] = "reply" /\ answer'[h] = DHCPNak /\ granted[h] = NoGrant
          /\ SameFrame(h)
      BY <1>2 DEF HandlerTypes, LocalTypes, ReplyWith, Goto, frame, SameFrame,
                  HandlerInv, StageInv
    <2>3. FrameInv(h)' /\ (Intact(h)' <=> Intact(h))
      BY <1>2, <2>2, KeptFrame DEF args
    <2>4. StageInv(h)'
      BY <1>2, <2>2, <2>3
      DEF HandlerInv, StageInv, Early, args, frame, Wrote, DHCPNak
    <2>5. ServedAsSent(h)'
      BY <1>2, <2>2 DEF ServedAsSent, LeaseAsAsked
    <2>6. QED
      BY <2>1, <2>2, <2>3, <2>4, <2>5 DEF Fine, HandlerInv
  <1>3. QED
    BY <1>1, <1>2 DEF Refuse

LEMMA ReadKindStep ==
    ASSUME HandlerTypes, SharedTypes, NEW h \in Handler, HandlerInv(h), ReadKind(h)
    PROVE  Fine(h)
  <1>1. CASE End(h)
    BY <1>1, EndMove
  <1>2. CASE ~End(h)
    <2>1. PICK type \in Counted :
            /\ kind' = [kind EXCEPT ![h] = type]
            /\ Goto(h, "count")
            /\ UNCHANGED <<frame, mac, want, given, register, out, granted, overwritten>>
      BY <1>2 DEF ReadKind
    <2>2. type \in Byte
      BY DEF Counted, Byte, DHCPDiscover, DHCPRequest, DHCPDecline, DHCPRelease, DHCPInform
    <2>3. /\ HandlerTypes' /\ Others(h)
      BY <2>1, <2>2 DEF HandlerTypes, LocalTypes, Others, Goto, frame, out, PC
    <2>4. /\ pc[h] = "kind" /\ pc'[h] = "count" /\ kind'[h] = type /\ granted[h] = NoGrant
          /\ SameFrame(h)
      BY <2>1 DEF HandlerTypes, LocalTypes, ReadKind, Goto, frame, SameFrame,
                  HandlerInv, StageInv
    <2>5. FrameInv(h)' /\ (Intact(h)' <=> Intact(h))
      BY <2>1, <2>4, KeptFrame
    <2>6. StageInv(h)'
      BY <2>1, <2>4 DEF StageInv, Early
    <2>7. ServedAsSent(h)'
      BY <2>1, <2>4 DEF ServedAsSent, LeaseAsAsked
    <2>8. QED
      BY <2>3, <2>4, <2>5, <2>6, <2>7 DEF Fine, HandlerInv
  <1>3. QED
    BY <1>1, <1>2

LEMMA CountStep ==
    ASSUME HandlerTypes, SharedTypes, NEW h \in Handler, HandlerInv(h),
           LoadCount(h) \/ StoreCount(h)
    PROVE  Fine(h)
  <1>1. /\ pc[h] \in {"count", "store"} /\ pc'[h] \in {"store", "mac"}
        /\ pc' = [pc EXCEPT ![h] = pc'[h]]
        /\ UNCHANGED <<buffer, frame, args, out, granted, overwritten>>
        /\ \E v : register' = [register EXCEPT ![h] = v]
    BY DEF HandlerTypes, LoadCount, StoreCount, Goto
  <1>2. kind[h] \in Counter
    BY <1>1 DEF HandlerInv, StageInv, Counter
  <1>3. register'[h] \in Nat
    BY <1>2 DEF HandlerTypes, LocalTypes, SharedTypes, LoadCount, StoreCount
  <1>4. HandlerTypes' /\ Others(h)
    BY <1>1, <1>3, ZenonT(30) DEF HandlerTypes, LocalTypes, Others, frame, args, out, PC
  <1>5. granted[h] = NoGrant /\ SameFrame(h)
    BY <1>1 DEF frame, SameFrame, HandlerInv, StageInv
  <1>6. FrameInv(h)' /\ (Intact(h)' <=> Intact(h))
    BY <1>1, <1>5, KeptFrame DEF args
  <1>7. StageInv(h)'
    BY <1>1, <1>5 DEF HandlerInv, StageInv, Early, args
  <1>8. ServedAsSent(h)'
    BY <1>1, <1>5 DEF ServedAsSent, LeaseAsAsked
  <1>9. QED
    BY <1>1, <1>4, <1>6, <1>7, <1>8 DEF Fine, HandlerInv

LEMMA ReadMACStep ==
    ASSUME HandlerTypes, SharedTypes, NEW h \in Handler, HandlerInv(h), ReadMAC(h)
    PROVE  Fine(h)
  <1>1. /\ FrameInv(h) /\ pc[h] = "mac" /\ granted[h] = NoGrant
        /\ Within(packet[h].ciaddr, own[h])
        /\ Within(packet[h].chaddr, own[h])
        /\ LET p == GetPlace(packet[h], OptionRequestedIPAddress)
           IN  p = Nowhere \/ Within(p, own[h])
    BY FramePlaces DEF ReadMAC, HandlerInv, StageInv
  <1>2. /\ mac' = [mac EXCEPT ![h] = Read(h, packet[h].chaddr)]
        /\ UNCHANGED <<buffer, frame, kind, given, register, out, granted, overwritten>>
        /\ pc'[h] \in PC \ Early /\ pc' = [pc EXCEPT ![h] = pc'[h]]
    BY DEF ReadMAC, Goto, HandlerTypes, PC, Early
  <1>3. /\ want' = [want EXCEPT ![h] = want'[h]]
        /\ want'[h] = want[h] \/ want'[h] = Nowhere \/ Within(want'[h], own[h])
    BY <1>1 DEF ReadMAC, HandlerTypes, LocalTypes
  <1>4. want'[h] \in [at: Nat, len: Nat] /\ mac'[h] \in Byte
    BY <1>1, <1>2, <1>3, PlacesTyped, ReadByte DEF HandlerTypes, LocalTypes
  <1>5. HandlerTypes' /\ Others(h)
    BY <1>2, <1>3, <1>4 DEF HandlerTypes, LocalTypes, Others, frame, out
  <1>6. SameFrame(h)
    BY <1>2 DEF frame, SameFrame
  <1>7. FrameInv(h)' /\ (Intact(h)' <=> Intact(h))
    BY <1>1, <1>3, <1>6 DEF FrameInv, SameFrame, Intact
  <1>8. Intact(h)' => mac'[h] = Wrote(h, packet[h].chaddr)'
    BY <1>1, <1>2, <1>6, <1>7, ReadIntact DEF HandlerTypes, SameFrame, Wrote
  <1>9. /\ kind[h] = DHCPRequest => pc'[h] = "args"
        /\ pc'[h] = "allocate" => kind[h] = DHCPDiscover
        /\ pc'[h] = "args" => kind[h] = DHCPRequest
        /\ pc'[h] \in {"allocate", "args", "release", "subnet"}
    BY DEF ReadMAC, Goto, HandlerTypes, DHCPDiscover, DHCPRequest, DHCPRelease, DHCPInform
  <1>10. StageInv(h)'
    BY <1>1, <1>2, <1>8, <1>9 DEF HandlerInv, StageInv, DHCPRequest
  <1>11. ServedAsSent(h)'
    BY <1>1, <1>2, <1>9 DEF ServedAsSent, LeaseAsAsked
  <1>12. QED
    BY <1>2, <1>5, <1>7, <1>9, <1>10, <1>11 DEF Fine, HandlerInv

\* A step that moves h on, to another of the steps before its lease or to its reply.
LEMMA Onward ==
    ASSUME HandlerTypes, NEW h \in Handler, HandlerInv(h),
           pc[h] \in {"args", "allocate", "verify", "subnet"},
           pc'[h] \notin {"idle", "send", "sent"},
           SameFrame(h), mac'[h] = mac[h], granted'[h] = granted[h],
           want'[h] = want[h] \/ Within(want'[h], own[h])
    PROVE  /\ StageInv(h)' => HandlerInv(h)'
           /\ Intact(h)' => mac'[h] = Wrote(h, packet[h].chaddr)'
           /\ granted'[h] = NoGrant
  <1>1. granted'[h] = NoGrant /\ pc[h] # "idle"
    BY DEF HandlerInv, StageInv
  <1>2. FrameInv(h)' /\ (Intact(h)' <=> Intact(h))
    BY <1>1, KeptFrame
  <1>3. Intact(h)' => mac'[h] = Wrote(h, packet[h].chaddr)'
    BY <1>2 DEF HandlerInv, StageInv, Wrote, SameFrame, Early
  <1>4. ServedAsSent(h)'
    BY <1>1 DEF ServedAsSent, LeaseAsAsked
  <1>5. StageInv(h)' => HandlerInv(h)'
    BY <1>2, <1>4 DEF HandlerInv
  <1>6. QED
    BY <1>1, <1>3, <1>5

LEMMA ReadArgsStep ==
    ASSUME HandlerTypes, SharedTypes, NEW h \in Handler, HandlerInv(h), ReadArgs(h)
    PROVE  Fine(h)
  <1>1. FrameInv(h) /\ pc[h] = "args" /\ kind[h] = DHCPRequest /\ own[h] \in Seq(Byte)
    BY DEF ReadArgs, HandlerInv, StageInv, HandlerTypes, LocalTypes
  <1>2. CASE End(h) \/ Refuse(h)
    BY <1>1, <1>2, EndMove, RefuseMove DEF ReadArgs
  <1>3. CASE ~(End(h) \/ Refuse(h))
    <2>1. PICK p : /\ p \in {GetPlace(packet[h], OptionRequestedIPAddress), packet[h].ciaddr}
                   /\ p # Nowhere
                   /\ want' = [want EXCEPT ![h] = p]
                   /\ Goto(h, "allocate")
                   /\ UNCHANGED <<frame, kind, mac, given, register, out, granted, overwritten>>
      BY <1>3 DEF ReadArgs
    <2>2. Within(p, own[h])
      BY <1>1, <2>1, FramePlaces
    <2>3. p \in [at: Nat, len: Nat]
      BY <1>1, <2>2, PlacesTyped
    <2>4. HandlerTypes' /\ Others(h)
      BY <2>1, <2>3 DEF HandlerTypes, LocalTypes, Others, Goto, frame, out, PC
    <2>5. /\ pc'[h] = "allocate" /\ want'[h] = p /\ SameFrame(h)
          /\ mac'[h] = mac[h] /\ granted'[h] = granted[h] /\ kind'[h] = kind[h]
      BY <2>1 DEF ReadArgs, Goto, HandlerTypes, LocalTypes, frame, SameFrame
    <2>6. /\ StageInv(h)' => HandlerInv(h)'
          /\ Intact(h)' => mac'[h] = Wrote(h, packet[h].chaddr)'
          /\ granted'[h] = NoGrant
      BY <1>1, <2>2, <2>5, Onward
    <2>7. StageInv(h)'
      BY <1>1, <2>1, <2>5, <2>6 DEF StageInv, Counted, Early
    <2>8. QED
      BY <2>4, <2>6, <2>7 DEF Fine
  <1>4. QED
    BY <1>2, <1>3

LEMMA AllocateStep ==
    ASSUME HandlerTypes, SharedTypes, NEW h \in Handler, HandlerInv(h), Allocate(h)
    PROVE  Fine(h)
  <1>1. pc[h] = "allocate" /\ kind[h] \in Counted
    BY DEF Allocate, HandlerInv, StageInv
  <1>2. CASE Refuse(h)
    BY <1>1, <1>2, RefuseMove DEF Allocate
  <1>3. CASE ~Refuse(h)
    <2> DEFINE label == IF kind[h] = DHCPRequest THEN "verify" ELSE "subnet"
    <2>1. PICK a : /\ a \in {r.ip : r \in leases} \cup {AtWant} \cup Subnet
                   /\ given' = [given EXCEPT ![h] = a]
                   /\ Goto(h, label)
                   /\ UNCHANGED <<frame, kind, mac, want, register, out, granted, overwritten>>
      BY <1>3 DEF Allocate
    <2>2. a \in Byte \cup {AtWant}
      BY <2>1, SubnetAssumption DEF SharedTypes
    <2>3. label \in PC /\ label \in {"verify", "subnet"}
          /\ (label = "verify" => kind[h] = DHCPRequest)
      BY DEF PC
    <2> HIDE DEF label
    <2>4. HandlerTypes' /\ Others(h)
      BY <2>1, <2>2, <2>3 DEF HandlerTypes, LocalTypes, Others, Goto, frame, out
    <2>5. /\ pc'[h] = label /\ want'[h] = want[h] /\ given'[h] = a /\ SameFrame(h)
          /\ mac'[h] = mac[h] /\ granted'[h] = granted[h] /\ kind'[h] = kind[h]
      BY <2>1 DEF Allocate, Goto, HandlerTypes, LocalTypes, frame, SameFrame
    <2>6. /\ StageInv(h)' => HandlerInv(h)'
          /\ Intact(h)' => mac'[h] = Wrote(h, packet[h].chaddr)'
          /\ granted'[h] = NoGrant
      BY <1>1, <2>3, <2>5, Onward
    <2>7. kind[h] = DHCPRequest => label = "verify" /\ want[h] # Nowhere
      BY <1>1 DEF HandlerInv, StageInv, label
    <2>8. StageInv(h)'
      BY <1>1, <2>3, <2>5, <2>6, <2>7 DEF StageInv, Early
    <2>9. QED
      BY <2>4, <2>6, <2>8 DEF Fine
  <1>4. QED
    BY <1>2, <1>3

LEMMA VerifyStep ==
    ASSUME HandlerTypes, SharedTypes, NEW h \in Handler, HandlerInv(h), Verify(h)
    PROVE  Fine(h)
  <1>1. pc[h] = "verify" /\ kind[h] = DHCPRequest /\ want[h] # Nowhere /\ kind[h] \in Counted
    BY DEF Verify, HandlerInv, StageInv
  <1>2. CASE Refuse(h)
    BY <1>1, <1>2, RefuseMove DEF Verify
  <1>3. CASE ~Refuse(h)
    <2>1. /\ given' = [given EXCEPT ![h] = AtWant]
          /\ Goto(h, "subnet")
          /\ UNCHANGED <<frame, kind, mac, want, register, out, granted, overwritten>>
          /\ buffer' = buffer
      BY <1>3 DEF Verify
    <2>2. HandlerTypes' /\ Others(h)
      BY <2>1 DEF HandlerTypes, LocalTypes, Others, Goto, frame, out, PC
    <2>3. /\ pc'[h] = "subnet" /\ want'[h] = want[h] /\ given'[h] = AtWant /\ SameFrame(h)
          /\ mac'[h] = mac[h] /\ granted'[h] = granted[h] /\ kind'[h] = kind[h]
      BY <2>1 DEF Goto, HandlerTypes, LocalTypes, frame, SameFrame
    <2>4. /\ StageInv(h)' => HandlerInv(h)'
          /\ Intact(h)' => mac'[h] = Wrote(h, packet[h].chaddr)'
          /\ granted'[h] = NoGrant
      BY <1>1, <2>3, Onward
    <2>5. StageInv(h)'
      BY <1>1, <2>3, <2>4 DEF StageInv, Early
    <2>6. QED
      BY <2>2, <2>4, <2>5 DEF Fine
  <1>4. QED
    BY <1>2, <1>3

LEMMA FindSubnetStep ==
    ASSUME HandlerTypes, SharedTypes, NEW h \in Handler, HandlerInv(h), FindSubnet(h)
    PROVE  Fine(h)
  <1>1. pc[h] = "subnet" /\ kind[h] \in Counted
    BY DEF FindSubnet, HandlerInv, StageInv
  <1>2. CASE Refuse(h) \/ End(h)
    BY <1>1, <1>2, RefuseMove, EndMove DEF FindSubnet
  <1>3. CASE ~(Refuse(h) \/ End(h))
    <2>1. /\ \/ kind[h] = DHCPRequest /\ Goto(h, "lease") /\ answer' = answer
             \/ kind[h] # DHCPRequest /\ Goto(h, "reply")
                /\ \E a \in {DHCPOffer, DHCPAck} : answer' = [answer EXCEPT ![h] = a]
          /\ UNCHANGED <<frame, args, register, reply, dest, granted, overwritten>>
          /\ buffer' = buffer
      BY <1>3 DEF FindSubnet, ReplyWith, out
    <2>2. HandlerTypes' /\ Others(h)
      BY <2>1 DEF HandlerTypes, LocalTypes, Others, Goto, frame, args, PC
    <2>3. /\ want'[h] = want[h] /\ given'[h] = given[h] /\ SameFrame(h)
          /\ mac'[h] = mac[h] /\ granted'[h] = granted[h] /\ kind'[h] = kind[h]
      BY <2>1 DEF frame, args, SameFrame
    <2>4. \/ kind[h] = DHCPRequest /\ pc'[h] = "lease"
          \/ kind[h] # DHCPRequest /\ pc'[h] = "reply" /\ answer'[h] # 0
      BY <2>1 DEF Goto, HandlerTypes, LocalTypes, DHCPOffer, DHCPAck
    <2>5. /\ StageInv(h)' => HandlerInv(h)'
          /\ Intact(h)' => mac'[h] = Wrote(h, packet[h].chaddr)'
          /\ granted'[h] = NoGrant
      BY <1>1, <2>3, <2>4, Onward
    <2>6. kind[h] = DHCPRequest => given[h] = AtWant /\ want[h] # Nowhere
      BY <1>1 DEF HandlerInv, StageInv
    <2>7. StageInv(h)'
      BY <1>1, <2>3, <2>4, <2>5, <2>6 DEF StageInv, Early
    <2>8. QED
      BY <2>2, <2>5, <2>7 DEF Fine
  <1>4. QED
    BY <1>2, <1>3


LEMMA CreateLeaseStep ==
    ASSUME HandlerTypes, SharedTypes, NEW h \in Handler, HandlerInv(h), CreateLease(h)
    PROVE  Fine(h)
  <1> DEFINE row == [ip |-> IP(h), mac |-> mac[h]]
  <1>1. /\ FrameInv(h) /\ pc[h] = "lease" /\ kind[h] = DHCPRequest /\ kind[h] \in Counted
        /\ want[h] # Nowhere /\ given[h] = AtWant /\ granted[h] = NoGrant
        /\ Within(want[h], own[h])
        /\ (Intact(h) => mac[h] = Wrote(h, packet[h].chaddr))
    BY DEF CreateLease, HandlerInv, StageInv, FrameInv, Early
  <1>2. /\ granted' = [granted EXCEPT ![h] = row]
        /\ Goto(h, "reply") /\ answer' = [answer EXCEPT ![h] = DHCPAck]
        /\ UNCHANGED <<buffer, frame, args, register, reply, dest, overwritten>>
    BY DEF CreateLease, ReplyWith
  <1>3. HandlerTypes' /\ Others(h)
    BY <1>2 DEF HandlerTypes, LocalTypes, Others, Goto, frame, args, PC
  <1>4. /\ pc'[h] = "reply" /\ answer'[h] = DHCPAck /\ granted'[h] = row /\ SameFrame(h)
        /\ mac'[h] = mac[h] /\ kind'[h] = kind[h] /\ want'[h] = want[h]
        /\ given'[h] = given[h]
    BY <1>2 DEF HandlerTypes, LocalTypes, Goto, frame, args, SameFrame
  <1>5. FrameInv(h)' /\ (Intact(h)' <=> Intact(h))
    BY <1>1, <1>4, KeptFrame
  <1>6. Wrote(h, packet[h].chaddr)' = Wrote(h, packet[h].chaddr)
        /\ Wrote(h, want[h])' = Wrote(h, want[h])
    BY <1>4 DEF Wrote, SameFrame
  <1>7. StageInv(h)'
    BY <1>1, <1>4, <1>5, <1>6 DEF StageInv, DHCPAck, Early
  <1>8. Intact(h) => row = [ip |-> Wrote(h, want[h]), mac |-> Wrote(h, packet[h].chaddr)]
    BY <1>1, ReadIntact DEF IP
  <1>9. Intact(h)' => ServedAsSent(h)'
    BY <1>4, <1>5, <1>6, <1>8 DEF ServedAsSent, LeaseAsAsked
  <1>10. QED
    BY <1>3, <1>4, <1>5, <1>7, <1>9 DEF Fine, HandlerInv

LEMMA BuildReplyStep ==
    ASSUME HandlerTypes, SharedTypes, NEW h \in Handler, HandlerInv(h), BuildReply(h)
    PROVE  Fine(h)
  <1>1. /\ FrameInv(h) /\ pc[h] = "reply" /\ kind[h] \in Counted
        /\ (Intact(h) => mac[h] = Wrote(h, packet[h].chaddr))
        /\ (Intact(h) => LeaseAsAsked(h))
    BY DEF BuildReply, HandlerInv, StageInv, ServedAsSent, Early
  <1> DEFINE made(o) ==
         [flags |-> packet[h].flags, ciaddr |-> 0,
          yiaddr |-> IF answer[h] = DHCPNak \/ kind[h] = DHCPInform THEN 0 ELSE IP(h),
          giaddr |-> Read(h, packet[h].giaddr), chaddr |-> Read(h, packet[h].chaddr),
          options |-> o]
  <1>0. PICK o : reply' = [reply EXCEPT ![h] = made(o)]
    BY Zenon DEF BuildReply
  <1> DEFINE r == made(o)
  <1>2. /\ reply' = [reply EXCEPT ![h] = r]
        /\ DOMAIN r = {"flags", "ciaddr", "yiaddr", "giaddr", "chaddr", "options"}
        /\ r.chaddr = Read(h, packet[h].chaddr)
        /\ r.giaddr = Read(h, packet[h].giaddr)
        /\ r.yiaddr = IF answer[h] = DHCPNak \/ kind[h] = DHCPInform THEN 0 ELSE IP(h)
    BY <1>0
  <1> HIDE DEF r
  <1>3. /\ Goto(h, "send")
        /\ UNCHANGED <<buffer, frame, args, register, answer, dest, granted, overwritten>>
    BY DEF BuildReply
  <1>4. HandlerTypes' /\ Others(h)
    BY <1>2, <1>3 DEF HandlerTypes, LocalTypes, Others, Goto, frame, args, PC
  <1>5. /\ pc'[h] = "send" /\ reply'[h] = r /\ SameFrame(h) /\ answer'[h] = answer[h]
        /\ mac'[h] = mac[h] /\ kind'[h] = kind[h] /\ want'[h] = want[h]
        /\ given'[h] = given[h] /\ granted'[h] = granted[h]
    BY <1>2, <1>3 DEF HandlerTypes, LocalTypes, Goto, frame, args, SameFrame
  <1>6. FrameInv(h)' /\ (Intact(h)' <=> Intact(h))
    BY <1>1, <1>5, KeptFrame
  <1>7. \A p : Wrote(h, p)' = Wrote(h, p)
    BY <1>5 DEF Wrote, SameFrame
  <1>8. r # NoReply
    BY <1>2 DEF NoReply
  <1>9. StageInv(h)'
    BY <1>1, <1>5, <1>6, <1>8 DEF HandlerInv, StageInv, Early, Wrote, SameFrame
  <1>10. ASSUME Intact(h) PROVE ServedAsSent(h)'
    <2>1. /\ r.chaddr = Wrote(h, packet[h].chaddr) /\ r.giaddr = Wrote(h, packet[h].giaddr)
      BY <1>1, <1>2, <1>10, FramePlaces, ReadIntact
    <2>2. granted[h] # NoGrant => r.yiaddr = granted[h].ip
      <3> SUFFICES ASSUME granted[h] # NoGrant PROVE r.yiaddr = granted[h].ip
        OBVIOUS
      <3>1. /\ kind[h] = DHCPRequest /\ answer[h] = DHCPAck /\ given[h] = AtWant
            /\ Within(want[h], own[h])
        BY <1>1 DEF HandlerInv, StageInv, FrameInv
      <3>2. r.yiaddr = Read(h, want[h])
        BY <1>2, <3>1 DEF IP, DHCPNak, DHCPAck, DHCPRequest, DHCPInform
      <3>3. Read(h, want[h]) = Wrote(h, want[h])
        BY <1>1, <1>10, <3>1, ReadIntact
      <3>4. granted[h].ip = Wrote(h, want[h])
        BY <1>1, <1>10 DEF LeaseAsAsked
      <3>5. QED
        BY <3>2, <3>3, <3>4
    <2>3. LeaseAsAsked(h)'
      BY <1>1, <1>5, <1>10 DEF LeaseAsAsked, Wrote, SameFrame
    <2>4. QED
      BY <1>5, <1>7, <2>1, <2>2, <2>3 DEF ServedAsSent, Wrote, SameFrame
  <1>11. QED
    BY <1>4, <1>5, <1>6, <1>9, <1>10 DEF Fine, HandlerInv

LEMMA SendReplyStep ==
    ASSUME HandlerTypes, SharedTypes, NEW h \in Handler, HandlerInv(h), SendReply(h)
    PROVE  Fine(h)
  <1>1. FrameInv(h) /\ pc[h] = "send"
    BY DEF SendReply, HandlerInv
  <1>2. /\ dest' = [dest EXCEPT ![h] = Destination(Read(h, packet[h].giaddr), reply[h])]
        /\ Goto(h, "sent")
        /\ UNCHANGED <<buffer, frame, args, register, answer, reply, granted, overwritten>>
    BY DEF SendReply
  <1>3. HandlerTypes' /\ Others(h)
    BY <1>2 DEF HandlerTypes, LocalTypes, Others, Goto, frame, args, PC
  <1>4. /\ pc'[h] = "sent" /\ reply' = reply /\ SameFrame(h) /\ answer'[h] = answer[h]
        /\ dest'[h] = Destination(Read(h, packet[h].giaddr), reply[h])
        /\ mac'[h] = mac[h] /\ kind'[h] = kind[h] /\ want'[h] = want[h]
        /\ given'[h] = given[h] /\ granted'[h] = granted[h]
    BY <1>2 DEF HandlerTypes, LocalTypes, Goto, frame, args, SameFrame
  <1>5. FrameInv(h)' /\ (Intact(h)' <=> Intact(h))
    BY <1>1, <1>4, KeptFrame
  <1>6. StageInv(h)'
    BY <1>1, <1>4, <1>5 DEF HandlerInv, StageInv, Early, Wrote, SameFrame
  <1>7. ASSUME Intact(h) PROVE ServedAsSent(h)'
    <2>1. Read(h, packet[h].giaddr) = Wrote(h, packet[h].giaddr)
      BY <1>1, <1>7, FramePlaces, ReadIntact
    <2>2. Wrote(h, packet[h].giaddr) # 0
             => dest'[h] = [ip |-> Wrote(h, packet[h].giaddr), port |-> 67]
      BY <1>4, <2>1 DEF Destination
    <2>3. ServedAsSent(h)
      BY <1>7 DEF HandlerInv
    <2>4. QED
      BY <1>1, <1>4, <2>2, <2>3 DEF ServedAsSent, LeaseAsAsked, Wrote, SameFrame
  <1>8. QED
    BY <1>3, <1>4, <1>5, <1>6, <1>7 DEF Fine, HandlerInv

LEMMA HandlerMove ==
    ASSUME HandlerTypes, SharedTypes, NEW h \in Handler, HandlerInv(h), HandlerStep(h)
    PROVE  Fine(h)
  <1>1. CASE ReadKind(h) \/ LoadCount(h) \/ StoreCount(h) \/ ReadMAC(h)
    BY <1>1, ReadKindStep, CountStep, ReadMACStep
  <1>2. CASE Decline(h) \/ ReleaseLease(h) \/ Finish(h)
    BY <1>2, EndMove DEF Decline, ReleaseLease, Finish
  <1>3. CASE ReadArgs(h) \/ Allocate(h) \/ Verify(h) \/ FindSubnet(h)
    BY <1>3, ReadArgsStep, AllocateStep, VerifyStep, FindSubnetStep
  <1>4. CASE CreateLease(h) \/ BuildReply(h) \/ SendReply(h)
    BY <1>4, CreateLeaseStep, BuildReplyStep, SendReplyStep
  <1>5. QED
    BY <1>1, <1>2, <1>3, <1>4 DEF HandlerStep


(***************************************************************************)
(* The steps of the loops.                                                 *)
(***************************************************************************)
LEMMA StartStep ==
    ASSUME HandlerTypes, SharedTypes, BufferInv, NEW s \in Socket, NEW h \in Handler,
           HandlerInv(h), StartHandler(s, h)
    PROVE  Fine(h)
  <1>1. /\ loop[s].n \in Nat /\ loop[s].n <= Len(buffer[s]) /\ buffer[s] \in Seq(Byte)
        /\ Len(buffer[s]) \in Nat
    BY DEF SharedTypes, BufferInv
  <1>2. /\ LastRead(s) \in Seq(Byte) /\ Len(LastRead(s)) = loop[s].n
        /\ \A i \in 1 .. loop[s].n : LastRead(s)[i] = buffer[s][i]
    BY <1>1 DEF LastRead
  <1>3. /\ pc[h] = "idle" /\ ~overwritten[h] /\ want[h] = Nowhere /\ granted[h] = NoGrant
    BY DEF StartHandler, HandlerInv, StageInv
  <1>4. HandlerTypes' /\ Others(h)
    BY <1>2 DEF StartHandler, HandlerTypes, LocalTypes, Others, PC, args, out
  <1>5. /\ pc'[h] = "kind" /\ source'[h] = s /\ own'[h] = LastRead(s) /\ Parseable(LastRead(s))
        /\ packet'[h] = ParsePacket(LastRead(s)) /\ buffer' = buffer
        /\ want'[h] = Nowhere /\ granted'[h] = NoGrant /\ ~overwritten'[h]
    BY <1>3 DEF StartHandler, HandlerTypes, LocalTypes, args
  <1>6. FrameInv(h)'
    BY <1>1, <1>2, <1>5 DEF FrameInv
  <1>7. StageInv(h)' /\ ServedAsSent(h)'
    BY <1>5 DEF StageInv, Early, ServedAsSent, LeaseAsAsked
  <1>8. QED
    BY <1>4, <1>5, <1>6, <1>7 DEF Fine, HandlerInv

\* The loop fills the buffer from its front.
LEMMA Filled ==
    ASSUME NEW old \in Seq(Byte), NEW bytes \in Seq(Byte)
    PROVE  Fill(old, bytes) \in Seq(Byte) /\ Len(bytes) <= Len(Fill(old, bytes))
  <1>1. SubSeq(old, Len(bytes) + 1, Len(old)) \in Seq(Byte)
    BY SubSeqProperties
  <1>2. QED
    BY <1>1 DEF Fill

\* What the loop reads into is another handler's memory, or it is overwritten.
LEMMA ReadPacketStep ==
    ASSUME HandlerTypes, SharedTypes, BufferInv, NEW s \in Socket, ReadPacket(s),
           \A h \in Handler : HandlerInv(h)
    PROVE  /\ HandlerTypes' /\ BufferInv' /\ \A h \in Handler : HandlerInv(h)'
           /\ buffer' \in [Socket -> Seq(Byte)]
  <1>1. /\ Head(queue[s]) \in Seq(Byte) /\ buffer[s] \in Seq(Byte)
        /\ Len(Head(queue[s])) \in Nat
    BY DEF SharedTypes, ReadPacket
  <1>2. /\ buffer'[s] \in Seq(Byte) /\ Len(Head(queue[s])) <= Len(buffer'[s])
        /\ buffer' = [buffer EXCEPT ![s] = buffer'[s]]
    BY <1>1, Filled DEF SharedTypes, ReadPacket
  <1>3. BufferInv'
    BY <1>1, <1>2 DEF ReadPacket, BufferInv, SharedTypes
  <1>4. buffer' \in [Socket -> Seq(Byte)]
    BY <1>2 DEF SharedTypes
  <1>5. HandlerTypes'
    BY DEF ReadPacket, HandlerTypes, LocalTypes, frame, args, out
  <1>6. ASSUME NEW h \in Handler PROVE HandlerInv(h)'
    <2>1. /\ pc' = pc /\ UNCHANGED <<source, own, packet, kind, register, mac, want, given,
                                     answer, reply, dest, granted>>
      BY DEF ReadPacket, frame, args, out
    <2>2. /\ overwritten'[h] <=>
               \/ overwritten[h]
               \/ s = source[h] /\ s = "udp" /\ pc[h] # "idle" /\ buffer'["udp"] # buffer["udp"]
      BY DEF ReadPacket
    <2>3. source[h] = "udp" /\ ~overwritten'[h] /\ pc[h] # "idle"
             => ~overwritten[h] /\ buffer'["udp"] = buffer["udp"]
      BY <1>2, <2>2 DEF SharedTypes, Socket
    <2>4. Intact(h)' => Intact(h)
      BY <2>1, <2>2 DEF Intact
    <2>5. HandlerInv(h)
      OBVIOUS
    <2>6. pc[h] # "idle" => FrameInv(h)'
      BY <2>1, <2>3, <2>5 DEF HandlerInv, FrameInv
    <2>7. StageInv(h)'
      BY <2>1, <2>4, <2>5 DEF HandlerInv, StageInv, Wrote
    <2>8. ServedAsSent(h)' <=> ServedAsSent(h)
      BY <2>1 DEF ServedAsSent, LeaseAsAsked, Wrote
    <2>9. QED
      BY <2>1, <2>2, <2>4, <2>5, <2>6, <2>7, <2>8 DEF HandlerInv
  <1>7. QED
    BY <1>3, <1>4, <1>5, <1>6

\* The other steps of the loops, and a packet sent, are none of the handlers'.
LEMMA KeptHandlers ==
    ASSUME HandlerTypes, \A h \in Handler : HandlerInv(h),
           UNCHANGED <<buffer, pc, frame, args, register, out, granted, overwritten>>
    PROVE  HandlerTypes' /\ \A h \in Handler : HandlerInv(h)'
  <1>1. HandlerTypes'
    BY DEF HandlerTypes, LocalTypes, frame, args, out
  <1>2. ASSUME NEW h \in Handler PROVE HandlerInv(h)'
    <2>1. HandlerInv(h)
      OBVIOUS
    <2>2. QED
      BY <2>1 DEF HandlerInv, FrameInv, StageInv, Intact, ServedAsSent, LeaseAsAsked,
                  Wrote, frame, args, out
  <1>3. QED
    BY <1>1, <1>2


(***************************************************************************)
(* Counters.                                                               *)
(***************************************************************************)
LEMMA FiniteSockets == IsFiniteSet(Socket)
  <1>1. IsFiniteSet({} \cup {"raw"})
    BY FS_EmptySet, FS_AddElement
  <1>2. IsFiniteSet(({} \cup {"raw"}) \cup {"udp"})
    BY <1>1, FS_AddElement
  <1>3. Socket = ({} \cup {"raw"}) \cup {"udp"}
    BY DEF Socket
  <1>4. QED
    BY <1>2, <1>3

LEMMA FiniteCounting ==
    ASSUME NEW c
    PROVE  /\ IsFiniteSet(CountingHandlers(c)) /\ IsFiniteSet(CountingLoops(c))
           /\ Cardinality(CountingHandlers(c)) \in Nat
           /\ Cardinality(CountingLoops(c)) \in Nat
  <1>1. IsFiniteSet(CountingHandlers(c))
    BY BoundAssumption, FS_Subset DEF CountingHandlers
  <1>2. IsFiniteSet(Socket)
    BY FiniteSockets
  <1>3. IsFiniteSet(CountingLoops(c))
    BY <1>2, FS_Subset DEF CountingLoops
  <1>4. QED
    BY <1>1, <1>3, FS_CardinalityType

LEMMA FiniteCountingNext ==
    ASSUME NEW c
    PROVE  /\ IsFiniteSet(CountingHandlers(c)') /\ IsFiniteSet(CountingLoops(c)')
           /\ Cardinality(CountingHandlers(c)') \in Nat
           /\ Cardinality(CountingLoops(c)') \in Nat
  <1>1. IsFiniteSet(CountingHandlers(c)')
    BY BoundAssumption, FS_Subset DEF CountingHandlers
  <1>2. IsFiniteSet(Socket)
    BY FiniteSockets
  <1>3. IsFiniteSet(CountingLoops(c)')
    BY <1>2, FS_Subset DEF CountingLoops
  <1>4. QED
    BY <1>1, <1>3, FS_CardinalityType

\* One that starts to count or that is done counting.
LEMMA DueChange ==
    ASSUME NEW c
    PROVE  /\ Due(c) \in Nat
           /\ CountingHandlers(c)' = CountingHandlers(c)
                /\ CountingLoops(c)' = CountingLoops(c) => Due(c)' = Due(c)
           /\ \A x : /\ CountingLoops(c)' = CountingLoops(c)
                     /\ x \notin CountingHandlers(c)
                     /\ CountingHandlers(c)' = CountingHandlers(c) \cup {x}
                     => Due(c)' = Due(c) + 1
           /\ \A x : /\ CountingLoops(c)' = CountingLoops(c)
                     /\ x \in CountingHandlers(c)
                     /\ CountingHandlers(c)' = CountingHandlers(c) \ {x}
                     => Due(c)' = Due(c) - 1
           /\ \A x : /\ CountingHandlers(c)' = CountingHandlers(c)
                     /\ x \notin CountingLoops(c)
                     /\ CountingLoops(c)' = CountingLoops(c) \cup {x}
                     => Due(c)' = Due(c) + 1
           /\ \A x : /\ CountingHandlers(c)' = CountingHandlers(c)
                     /\ x \in CountingLoops(c)
                     /\ CountingLoops(c)' = CountingLoops(c) \ {x}
                     => Due(c)' = Due(c) - 1
  <1>1. /\ IsFiniteSet(CountingHandlers(c)) /\ IsFiniteSet(CountingLoops(c))
        /\ Cardinality(CountingHandlers(c)) \in Nat /\ Cardinality(CountingLoops(c)) \in Nat
    BY FiniteCounting
  <1>2. Due(c) = Cardinality(CountingHandlers(c)) + Cardinality(CountingLoops(c))
    BY DEF Due
  <1>3. Due(c)' = Cardinality(CountingHandlers(c)') + Cardinality(CountingLoops(c)')
    BY DEF Due
  <1>4. ASSUME NEW x, CountingLoops(c)' = CountingLoops(c), x \notin CountingHandlers(c),
               CountingHandlers(c)' = CountingHandlers(c) \cup {x}
        PROVE  Due(c)' = Due(c) + 1
    <2>1. Cardinality(CountingHandlers(c)') = Cardinality(CountingHandlers(c)) + 1
      BY <1>1, <1>4, FS_AddElement
    <2>2. QED
      BY <1>1, <1>2, <1>3, <1>4, <2>1
  <1>5. ASSUME NEW x, CountingLoops(c)' = CountingLoops(c), x \in CountingHandlers(c),
               CountingHandlers(c)' = CountingHandlers(c) \ {x}
        PROVE  Due(c)' = Due(c) - 1
    <2>1. Cardinality(CountingHandlers(c)') = Cardinality(CountingHandlers(c)) - 1
      BY <1>1, <1>5, FS_RemoveElement
    <2>2. QED
      BY <1>1, <1>2, <1>3, <1>5, <2>1
  <1>6. ASSUME NEW x, CountingHandlers(c)' = CountingHandlers(c), x \notin CountingLoops(c),
               CountingLoops(c)' = CountingLoops(c) \cup {x}
        PROVE  Due(c)' = Due(c) + 1
    <2>1. Cardinality(CountingLoops(c)') = Cardinality(CountingLoops(c)) + 1
      BY <1>1, <1>6, FS_AddElement
    <2>2. QED
      BY <1>1, <1>2, <1>3, <1>6, <2>1
  <1>7. ASSUME NEW x, CountingHandlers(c)' = CountingHandlers(c), x \in CountingLoops(c),
               CountingLoops(c)' = CountingLoops(c) \ {x}
        PROVE  Due(c)' = Due(c) - 1
    <2>1. Cardinality(CountingLoops(c)') = Cardinality(CountingLoops(c)) - 1
      BY <1>1, <1>7, FS_RemoveElement
    <2>2. QED
      BY <1>1, <1>2, <1>3, <1>7, <2>1
  <1>8. /\ Due(c) \in Nat
        /\ CountingHandlers(c)' = CountingHandlers(c)
             /\ CountingLoops(c)' = CountingLoops(c) => Due(c)' = Due(c)
    BY <1>1, <1>2, <1>3
  <1>9. QED
    BY <1>4, <1>5, <1>6, <1>7, <1>8

\* What h or s counts does not matter to another counter, or to one that nobody counts.
LEMMA CountKept ==
    ASSUME SharedTypes, NEW c \in Counter, CountInv(c),
           stats'[c] = stats[c], seen'[c] = seen[c], overlapped \subseteq overlapped',
           \A h \in Handler :
              \/ pc'[h] = pc[h] /\ kind'[h] = kind[h] /\ register'[h] = register[h]
              \/ /\ pc[h] \notin {"count", "store"} \/ kind[h] # c
                 /\ pc'[h] \notin {"count", "store"} \/ kind'[h] # c,
           \A s \in Socket :
              \/ loop'[s] = loop[s]
              \/ /\ loop[s].at \notin {"count", "store"} \/ c # Received
                 /\ loop'[s].at \notin {"count", "store"} \/ c # Received
    PROVE  CountInv(c)'
  <1>1. CountingHandlers(c)' = CountingHandlers(c) /\ CountingLoops(c)' = CountingLoops(c)
    BY DEF CountingHandlers, CountingLoops
  <1>2. Due(c)' = Due(c)
    BY <1>1, DueChange
  <1>3. \A h \in Handler : Storing(h, c)' <=> Storing(h, c)
    BY DEF Storing
  <1>4. \A h \in Handler : Storing(h, c) => register'[h] = register[h]
    BY DEF Storing
  <1>5. \A s \in Socket : StoringLoop(s, c)' <=> StoringLoop(s, c)
    BY DEF StoringLoop
  <1>6. \A s \in Socket : StoringLoop(s, c) => loop'[s].register = loop[s].register
    BY DEF StoringLoop
  <1>7. /\ AtMost(stats[c], c)'
        /\ \A h \in Handler : Storing(h, c)' => AtMost(register[h], c)'
        /\ \A s \in Socket : StoringLoop(s, c)' => AtMost(loop[s].register, c)'
    BY <1>2, <1>3, <1>4, <1>5, <1>6 DEF CountInv, AtMost
  <1>8. c \notin overlapped' =>
          /\ stats'[c] + Due(c)' = seen'[c]
          /\ \A h \in Handler : Storing(h, c)' => register'[h] = stats'[c]
          /\ \A s \in Socket : StoringLoop(s, c)' => loop'[s].register = stats'[c]
          /\ \A g, h \in Handler : Storing(g, c)' /\ Storing(h, c)' => g = h
          /\ \A r, s \in Socket : StoringLoop(r, c)' /\ StoringLoop(s, c)' => r = s
    BY <1>2, <1>3, <1>4, <1>5, <1>6 DEF CountInv
  <1>9. QED
    BY <1>7, <1>8 DEF CountInv


\* One more is to be counted.
LEMMA CountMore ==
    ASSUME SharedTypes, NEW c \in Counter, CountInv(c), Due(c)' = Due(c) + 1,
           stats'[c] = stats[c], seen'[c] = seen[c] + 1, overlapped' = overlapped,
           \A h \in Handler : Storing(h, c)' => Storing(h, c) /\ register'[h] = register[h],
           \A s \in Socket : StoringLoop(s, c)'
                => StoringLoop(s, c) /\ loop'[s].register = loop[s].register,
           \A h \in Handler : register[h] \in Nat
    PROVE  CountInv(c)'
  <1>1. Due(c) \in Nat /\ stats[c] \in Nat /\ seen[c] \in Nat
        /\ \A s \in Socket : loop[s].register \in Nat
    BY DueChange DEF SharedTypes
  <1>2. /\ AtMost(stats[c], c)'
        /\ \A h \in Handler : Storing(h, c)' => AtMost(register[h], c)'
        /\ \A s \in Socket : StoringLoop(s, c)' => AtMost(loop[s].register, c)'
    BY <1>1 DEF CountInv, AtMost
  <1>3. c \notin overlapped' =>
          /\ stats'[c] + Due(c)' = seen'[c]
          /\ \A h \in Handler : Storing(h, c)' => register'[h] = stats'[c]
          /\ \A s \in Socket : StoringLoop(s, c)' => loop'[s].register = stats'[c]
          /\ \A g, h \in Handler : Storing(g, c)' /\ Storing(h, c)' => g = h
          /\ \A r, s \in Socket : StoringLoop(r, c)' /\ StoringLoop(s, c)' => r = s
    BY <1>1 DEF CountInv
  <1>4. QED
    BY <1>2, <1>3 DEF CountInv

LEMMA NoCountStored ==
    ASSUME NEW h \in Handler, HandlerInv(h), pc[h] \in {"count", "store"}
    PROVE  kind[h] \in Counter /\ kind[h] # Received /\ kind[h] \in Counted
  BY DEF HandlerInv, StageInv, Counter, Received, Counted, DHCPDiscover, DHCPRequest,
         DHCPDecline, DHCPRelease, DHCPInform

LEMMA ReadKindCount ==
    ASSUME HandlerTypes, SharedTypes, NEW h \in Handler, ReadKind(h),
           NEW c \in Counter, CountInv(c)
    PROVE  CountInv(c)'
  <1>1. /\ pc[h] = "kind" /\ UNCHANGED <<loop, stats, overlapped>>
        /\ \A g \in Handler \ {h} : pc'[g] = pc[g] /\ kind'[g] = kind[g]
                                    /\ register'[g] = register[g]
    BY DEF ReadKind, End, Goto, HandlerTypes, LocalTypes
  <1>2. CASE End(h) /\ seen' = seen
    <2>1. pc'[h] = "idle"
      BY <1>2 DEF End, Goto, HandlerTypes
    <2>2. QED
      BY <1>1, <1>2, <2>1, CountKept
  <1>3. CASE \E type \in Counted : /\ kind' = [kind EXCEPT ![h] = type]
                                   /\ Goto(h, "count")
                                   /\ seen' = [seen EXCEPT ![type] = @ + 1]
                                   /\ register' = register
    <2>1. PICK type \in Counted : /\ kind' = [kind EXCEPT ![h] = type]
                                  /\ Goto(h, "count")
                                  /\ seen' = [seen EXCEPT ![type] = @ + 1]
                                  /\ register' = register
      BY <1>3
    <2>2. /\ pc'[h] = "count" /\ kind'[h] = type /\ type # Received /\ type \in Counter
          /\ seen'[type] = seen[type] + 1 /\ \A d \in Counter \ {type} : seen'[d] = seen[d]
      BY <2>1, SMTT(30) DEF Goto, HandlerTypes, SharedTypes, Counter, Received, Counted, DHCPDiscover,
                  DHCPRequest, DHCPDecline, DHCPRelease, DHCPInform
    <2>3. CASE c # type
      BY <1>1, <2>2, <2>3, CountKept
    <2>4. CASE c = type
      <3>1. /\ CountingLoops(c)' = CountingLoops(c) /\ h \notin CountingHandlers(c)
            /\ CountingHandlers(c)' = CountingHandlers(c) \cup {h}
        BY <1>1, <2>2, <2>4 DEF CountingLoops, CountingHandlers
      <3>2. Due(c)' = Due(c) + 1
        BY <3>1, DueChange
      <3>3. /\ \A g \in Handler : Storing(g, c)' => Storing(g, c) /\ register'[g] = register[g]
            /\ \A s \in Socket : StoringLoop(s, c)'
                  => StoringLoop(s, c) /\ loop'[s].register = loop[s].register
            /\ \A g \in Handler : register[g] \in Nat
        BY <1>1, <2>2 DEF Storing, StoringLoop, HandlerTypes, LocalTypes
      <3>4. QED
        BY <1>1, <2>2, <2>4, <3>2, <3>3, CountMore
    <2>5. QED
      BY <2>3, <2>4
  <1>4. QED
    BY <1>2, <1>3 DEF ReadKind

LEMMA ReadPacketCount ==
    ASSUME HandlerTypes, SharedTypes, NEW s \in Socket, ReadPacket(s),
           NEW c \in Counter, CountInv(c)
    PROVE  CountInv(c)'
  <1>1. /\ UNCHANGED <<pc, kind, register, stats, overlapped>>
        /\ loop[s].at = "read" /\ loop'[s].at = "count"
        /\ \A r \in Socket \ {s} : loop'[r] = loop[r]
        /\ seen'[Received] = seen[Received] + 1
        /\ \A d \in Counter \ {Received} : seen'[d] = seen[d]
    BY DEF ReadPacket, SharedTypes, Counter, args
  <1>2. CASE c # Received
    BY <1>1, <1>2, CountKept
  <1>3. CASE c = Received
    <2>1. /\ CountingHandlers(c)' = CountingHandlers(c) /\ s \notin CountingLoops(c)
          /\ CountingLoops(c)' = CountingLoops(c) \cup {s}
      BY <1>1, <1>3 DEF CountingLoops, CountingHandlers
    <2>2. Due(c)' = Due(c) + 1
      BY <2>1, DueChange
    <2>3. /\ \A g \in Handler : Storing(g, c)' => Storing(g, c) /\ register'[g] = register[g]
          /\ \A r \in Socket : StoringLoop(r, c)'
                  => StoringLoop(r, c) /\ loop'[r].register = loop[r].register
          /\ \A g \in Handler : register[g] \in Nat
      BY <1>1 DEF Storing, StoringLoop, HandlerTypes, LocalTypes
    <2>4. QED
      BY <1>1, <1>3, <2>2, <2>3, CountMore
  <1>4. QED
    BY <1>2, <1>3


\* One stores what it has loaded and incremented: it was not more than is counted,
\* and is exactly that if nobody else has stored since.
LEMMA CountStored ==
    ASSUME SharedTypes, NEW c \in Counter, CountInv(c), Due(c)' = Due(c) - 1,
           NEW v \in Nat, AtMost(v, c), c \notin overlapped => v = stats[c],
           stats'[c] = v + 1, seen'[c] = seen[c], overlapped' = overlapped,
           \A h \in Handler : Storing(h, c)' => Storing(h, c) /\ register'[h] = register[h],
           \A s \in Socket : StoringLoop(s, c)'
                => StoringLoop(s, c) /\ loop'[s].register = loop[s].register,
           c \notin overlapped => \A h \in Handler : ~Storing(h, c)',
           c \notin overlapped => \A s \in Socket : ~StoringLoop(s, c)',
           \A h \in Handler : register[h] \in Nat
    PROVE  CountInv(c)'
  <1>1. Due(c) \in Nat /\ stats[c] \in Nat /\ seen[c] \in Nat
        /\ \A s \in Socket : loop[s].register \in Nat
    BY DueChange DEF SharedTypes
  <1>2. /\ AtMost(stats[c], c)'
        /\ \A h \in Handler : Storing(h, c)' => AtMost(register[h], c)'
        /\ \A s \in Socket : StoringLoop(s, c)' => AtMost(loop[s].register, c)'
    BY <1>1 DEF CountInv, AtMost
  <1>3. c \notin overlapped' =>
          /\ stats'[c] + Due(c)' = seen'[c]
          /\ \A h \in Handler : Storing(h, c)' => register'[h] = stats'[c]
          /\ \A s \in Socket : StoringLoop(s, c)' => loop'[s].register = stats'[c]
          /\ \A g, h \in Handler : Storing(g, c)' /\ Storing(h, c)' => g = h
          /\ \A r, s \in Socket : StoringLoop(r, c)' /\ StoringLoop(s, c)' => r = s
    BY <1>1 DEF CountInv
  <1>4. QED
    BY <1>2, <1>3 DEF CountInv

LEMMA LoadCountCount ==
    ASSUME HandlerTypes, SharedTypes, NEW h \in Handler, HandlerInv(h), LoadCount(h),
           NEW c \in Counter, CountInv(c)
    PROVE  CountInv(c)'
  <1>1. /\ pc[h] = "count" /\ pc'[h] = "store" /\ UNCHANGED <<loop, kind, stats, seen>>
        /\ register'[h] = stats[kind[h]] /\ overlapped \subseteq overlapped'
        /\ \A g \in Handler \ {h} : pc'[g] = pc[g] /\ register'[g] = register[g]
        /\ (\E g \in Handler : pc[g] = "store" /\ kind[g] = kind[h]) => kind[h] \in overlapped'
    BY DEF LoadCount, Goto, HandlerTypes, LocalTypes, args
  <1>2. kind[h] \in Counter /\ kind[h] # Received
    BY <1>1, NoCountStored
  <1>3. CASE c # kind[h]
    BY <1>1, <1>3, CountKept
  <1>4. CASE c = kind[h]
    <2>1. CountingHandlers(c)' = CountingHandlers(c) /\ CountingLoops(c)' = CountingLoops(c)
      BY <1>1 DEF CountingHandlers, CountingLoops
    <2>2. Due(c)' = Due(c)
      BY <2>1, DueChange
    <2>3. \A g \in Handler : Storing(g, c)' <=> g = h \/ Storing(g, c)
      BY <1>1, <1>4 DEF Storing
    <2>4. \A s \in Socket : ~StoringLoop(s, c)'
      BY <1>2, <1>4 DEF StoringLoop
    <2>5. \A g \in Handler \ {h} : register'[g] = register[g]
      BY <1>1
    <2>6. register'[h] = stats[c] /\ ~Storing(h, c)
      BY <1>1, <1>4 DEF Storing
    <2>7. c \notin overlapped' => c \notin overlapped /\ \A g \in Handler : ~Storing(g, c)
      BY <1>1, <1>4 DEF Storing
    <2>8. /\ AtMost(stats[c], c)'
          /\ \A g \in Handler : Storing(g, c)' => AtMost(register[g], c)'
      BY <1>1, <2>2, <2>3, <2>5, <2>6 DEF CountInv, AtMost
    <2>9. c \notin overlapped' =>
            /\ stats'[c] + Due(c)' = seen'[c]
            /\ \A g \in Handler : Storing(g, c)' => register'[g] = stats'[c]
            /\ \A f, g \in Handler : Storing(f, c)' /\ Storing(g, c)' => f = g
      BY <1>1, <2>2, <2>3, <2>6, <2>7 DEF CountInv
    <2>10. QED
      BY <2>4, <2>8, <2>9 DEF CountInv
  <1>5. QED
    BY <1>3, <1>4

LEMMA LoadReceivedCount ==
    ASSUME HandlerTypes, SharedTypes, NEW s \in Socket, LoadReceived(s),
           \A h \in Handler : HandlerInv(h), NEW c \in Counter, CountInv(c)
    PROVE  CountInv(c)'
  <1>1. /\ loop[s].at = "count" /\ loop'[s].at = "store"
        /\ loop'[s].register = stats[Received] /\ overlapped \subseteq overlapped'
        /\ \A r \in Socket \ {s} : loop'[r] = loop[r]
        /\ UNCHANGED <<pc, kind, register, stats, seen>>
        /\ (\E r \in Socket : loop[r].at = "store") => Received \in overlapped'
    BY DEF LoadReceived, SharedTypes, args
  <1>2. CASE c # Received
    BY <1>1, <1>2, CountKept
  <1>3. CASE c = Received
    <2>1. CountingHandlers(c)' = CountingHandlers(c) /\ CountingLoops(c)' = CountingLoops(c)
      BY <1>1 DEF CountingHandlers, CountingLoops
    <2>2. Due(c)' = Due(c)
      BY <2>1, DueChange
    <2>3. \A r \in Socket : StoringLoop(r, c)' <=> r = s \/ StoringLoop(r, c)
      BY <1>1, <1>3 DEF StoringLoop
    <2>4. \A h \in Handler : ~Storing(h, c)'
      BY <1>1, <1>3, NoCountStored DEF Storing
    <2>5. \A r \in Socket \ {s} : loop'[r].register = loop[r].register
      BY <1>1
    <2>6. loop'[s].register = stats[c] /\ ~StoringLoop(s, c)
      BY <1>1, <1>3 DEF StoringLoop
    <2>7. c \notin overlapped' => c \notin overlapped /\ \A r \in Socket : ~StoringLoop(r, c)
      BY <1>1, <1>3 DEF StoringLoop
    <2>8. /\ AtMost(stats[c], c)'
          /\ \A r \in Socket : StoringLoop(r, c)' => AtMost(loop[r].register, c)'
      BY <1>1, <2>2, <2>3, <2>5, <2>6 DEF CountInv, AtMost
    <2>9. c \notin overlapped' =>
            /\ stats'[c] + Due(c)' = seen'[c]
            /\ \A r \in Socket : StoringLoop(r, c)' => loop'[r].register = stats'[c]
            /\ \A q, r \in Socket : StoringLoop(q, c)' /\ StoringLoop(r, c)' => q = r
      BY <1>1, <2>2, <2>3, <2>6, <2>7 DEF CountInv
    <2>10. QED
      BY <2>4, <2>8, <2>9 DEF CountInv
  <1>4. QED
    BY <1>2, <1>3

LEMMA StoreCountCount ==
    ASSUME HandlerTypes, SharedTypes, NEW h \in Handler, HandlerInv(h), StoreCount(h),
           NEW c \in Counter, CountInv(c)
    PROVE  CountInv(c)'
  <1>1. /\ pc[h] = "store" /\ pc'[h] = "mac" /\ UNCHANGED <<loop, kind, seen, overlapped>>
        /\ stats' = [stats EXCEPT ![kind[h]] = register[h] + 1]
        /\ \A g \in Handler \ {h} : pc'[g] = pc[g] /\ register'[g] = register[g]
        /\ \A g \in Handler : register[g] \in Nat
    BY DEF StoreCount, Goto, HandlerTypes, LocalTypes, args, OneMore
  <1>2. kind[h] \in Counter /\ kind[h] # Received
    BY <1>1, NoCountStored
  <1>3. CASE c # kind[h]
    <2>1. stats'[c] = stats[c]
      BY <1>1, <1>3 DEF SharedTypes
    <2>2. QED
      BY <1>1, <1>3, <2>1, CountKept
  <1>4. CASE c = kind[h]
    <2>1. /\ CountingLoops(c)' = CountingLoops(c) /\ h \in CountingHandlers(c)
          /\ CountingHandlers(c)' = CountingHandlers(c) \ {h}
      BY <1>1, <1>2, <1>4 DEF CountingHandlers, CountingLoops
    <2>2. Due(c)' = Due(c) - 1
      BY <2>1, DueChange
    <2>3. \A g \in Handler : Storing(g, c)' <=> g # h /\ Storing(g, c)
      BY <1>1, <1>4 DEF Storing
    <2>4. \A s \in Socket : ~StoringLoop(s, c)'
      BY <1>2, <1>4 DEF StoringLoop
    <2>5. Storing(h, c) /\ stats'[c] = register[h] + 1
      BY <1>1, <1>4 DEF Storing, SharedTypes
    <2>6. /\ AtMost(register[h], c) /\ (c \notin overlapped => register[h] = stats[c])
          /\ (c \notin overlapped => \A g \in Handler : ~Storing(g, c)')
      BY <2>3, <2>5 DEF CountInv
    <2>7. QED
      BY <1>1, <2>2, <2>3, <2>4, <2>5, <2>6, CountStored
  <1>5. QED
    BY <1>3, <1>4

LEMMA StoreReceivedCount ==
    ASSUME HandlerTypes, SharedTypes, NEW s \in Socket, StoreReceived(s),
           \A h \in Handler : HandlerInv(h), NEW c \in Counter, CountInv(c)
    PROVE  CountInv(c)'
  <1>1. /\ loop[s].at = "store" /\ loop'[s].at = "start" /\ Received \in Counter
        /\ stats' = [stats EXCEPT ![Received] = loop[s].register + 1]
        /\ \A r \in Socket \ {s} : loop'[r] = loop[r]
        /\ UNCHANGED <<pc, kind, register, seen, overlapped>>
        /\ loop[s].register \in Nat /\ \A g \in Handler : register[g] \in Nat
    BY DEF StoreReceived, LoopAt, SharedTypes, HandlerTypes, LocalTypes, args, Counter
  <1>2. CASE c # Received
    <2>1. stats'[c] = stats[c]
      BY <1>1, <1>2 DEF SharedTypes
    <2>2. QED
      BY <1>1, <1>2, <2>1, CountKept
  <1>3. CASE c = Received
    <2>1. /\ CountingHandlers(c)' = CountingHandlers(c) /\ s \in CountingLoops(c)
          /\ CountingLoops(c)' = CountingLoops(c) \ {s}
      BY <1>1, <1>3 DEF CountingHandlers, CountingLoops
    <2>2. Due(c)' = Due(c) - 1
      BY <2>1, DueChange
    <2>3. \A r \in Socket : StoringLoop(r, c)' <=> r # s /\ StoringLoop(r, c)
      BY <1>1, <1>3 DEF StoringLoop
    <2>4. \A h \in Handler : ~Storing(h, c)'
      BY <1>1, <1>3, NoCountStored DEF Storing
    <2>5. StoringLoop(s, c) /\ stats'[c] = loop[s].register + 1
      BY <1>1, <1>3 DEF StoringLoop, SharedTypes
    <2>6. /\ AtMost(loop[s].register, c) /\ (c \notin overlapped => loop[s].register = stats[c])
          /\ (c \notin overlapped => \A r \in Socket : ~StoringLoop(r, c)')
      BY <2>3, <2>5 DEF CountInv
    <2>7. QED
      BY <1>1, <2>2, <2>3, <2>4, <2>5, <2>6, CountStored
  <1>4. QED
    BY <1>2, <1>3


LEMMA HandlerCount ==
    ASSUME HandlerTypes, SharedTypes, NEW h \in Handler, HandlerInv(h), HandlerStep(h),
           NEW c \in Counter, CountInv(c)
    PROVE  CountInv(c)'
  <1>1. CASE ReadKind(h)
    BY <1>1, ReadKindCount
  <1>2. CASE LoadCount(h)
    BY <1>2, LoadCountCount
  <1>3. CASE StoreCount(h)
    BY <1>3, StoreCountCount
  <1>4. CASE ~(ReadKind(h) \/ LoadCount(h) \/ StoreCount(h))
    <2>1. Others(h)
      BY HandlerMove DEF Fine
    <2>2. pc[h] \notin {"count", "store"} /\ UNCHANGED <<loop, counts>>
      BY <1>4 DEF HandlerStep, ReadMAC, Decline, ReadArgs, Allocate, Verify, FindSubnet,
                  CreateLease, ReleaseLease, BuildReply, SendReply, Finish, counts
    <2>3. pc'[h] \notin {"count", "store"}
      BY <1>4 DEF HandlerStep, ReadMAC, Decline, ReadArgs, Allocate, Verify, FindSubnet,
                  CreateLease, ReleaseLease, BuildReply, SendReply, Finish, Refuse, ReplyWith,
                  End, Goto, HandlerTypes
    <2>4. QED
      BY <2>1, <2>2, <2>3, CountKept DEF Others, counts
  <1>5. QED
    BY <1>1, <1>2, <1>3, <1>4

(***************************************************************************)
(* What handlers and loops share keeps its type.                           *)
(***************************************************************************)
LEMMA StillCounters ==
    ASSUME NEW f \in [Counter -> Nat], NEW c, NEW n \in Nat
    PROVE  [f EXCEPT ![c] = n] \in [Counter -> Nat]
  OBVIOUS

LEMMA HandlerShared ==
    ASSUME HandlerTypes, SharedTypes, NEW h \in Handler, HandlerInv(h), HandlerStep(h)
    PROVE  SharedTypes' /\ UNCHANGED <<net, loop, buffer>>
  <1>1. UNCHANGED <<net, loop, buffer>>
    BY DEF HandlerStep, ReadKind, LoadCount, StoreCount, ReadMAC, Decline, ReadArgs, Allocate,
           Verify, FindSubnet, CreateLease, ReleaseLease, BuildReply, SendReply, Finish
  <1>2. CASE ReadKind(h)
    <2>1. seen' \in [Counter -> Nat]
      <3>1. CASE seen' = seen
        BY <3>1 DEF SharedTypes
      <3>2. CASE seen' # seen
        <4>1. PICK type \in Counted : seen' = [seen EXCEPT ![type] = seen[type] + 1]
          BY <1>2, <3>2 DEF ReadKind
        <4>2. seen \in [Counter -> Nat] /\ seen[type] + 1 \in Nat
          BY <4>1 DEF SharedTypes, Counter
        <4>3. QED
          BY <4>1, <4>2, StillCounters
      <3>3. QED
        BY <3>1, <3>2
    <2>2. QED
      BY <1>1, <1>2, <2>1 DEF ReadKind, SharedTypes, net
  <1>3. CASE StoreCount(h)
    <2>1. stats' \in [Counter -> Nat]
      <3>1. /\ stats' = [stats EXCEPT ![kind[h]] = register[h] + 1]
            /\ stats \in [Counter -> Nat] /\ register[h] + 1 \in Nat
        BY <1>3 DEF StoreCount, SharedTypes, OneMore, HandlerTypes, LocalTypes
      <3>2. QED
        BY <3>1, StillCounters
    <2>2. QED
      BY <1>1, <1>3, <2>1 DEF StoreCount, SharedTypes, net
  <1>4. CASE CreateLease(h)
    <2> DEFINE row == [ip |-> IP(h), mac |-> mac[h]]
    <2>1. IP(h) \in Byte /\ mac[h] \in Byte
      <3>1. given[h] = AtWant /\ Within(want[h], own[h])
        BY <1>4 DEF CreateLease, HandlerInv, StageInv, FrameInv
      <3>2. QED
        BY <3>1, ReadByte DEF IP, HandlerTypes
    <2>2. row.ip \in Byte /\ row.mac \in Byte
      BY <2>1
    <2>3. leases' = {r \in leases : r.ip # row.ip} \cup {row}
      BY <1>4 DEF CreateLease
    <2> HIDE DEF row
    <2>4. /\ \A r \in leases' : r.ip \in Byte /\ r.mac \in Byte
          /\ \A q, r \in leases' : q.ip = r.ip => q = r
      BY <2>2, <2>3 DEF SharedTypes
    <2>5. QED
      BY <1>1, <1>4, <2>4 DEF CreateLease, SharedTypes, net, counts
  <1>5. CASE ReleaseLease(h)
    <2>1. leases' \subseteq leases
      BY <1>5 DEF ReleaseLease
    <2>2. QED
      BY <1>1, <1>5, <2>1 DEF ReleaseLease, SharedTypes, net, counts
  <1>6. CASE ~(ReadKind(h) \/ StoreCount(h) \/ CreateLease(h) \/ ReleaseLease(h))
    <2>1. UNCHANGED <<leases, stats, seen>>
      BY <1>6 DEF HandlerStep, LoadCount, ReadMAC, Decline, ReadArgs, Allocate, Verify,
                  FindSubnet, BuildReply, SendReply, Finish, counts
    <2>2. QED
      BY <1>1, <2>1 DEF SharedTypes, net
  <1>7. QED
    BY <1>1, <1>2, <1>3, <1>4, <1>5, <1>6

LoopState == [at: {"read", "count", "store", "start"}, n: Nat, register: Nat]

LEMMA LoopTyped ==
    ASSUME loop \in [Socket -> LoopState], NEW s \in Socket,
           NEW label \in {"read", "count", "store", "start"}, NEW v \in Nat
    PROVE  /\ [loop EXCEPT ![s].at = label] \in [Socket -> LoopState]
           /\ [loop EXCEPT ![s].at = label, ![s].n = v] \in [Socket -> LoopState]
           /\ [loop EXCEPT ![s].at = label, ![s].register = v] \in [Socket -> LoopState]
  <1>1. loop[s] \in LoopState
    OBVIOUS
  <1>2. /\ [loop[s] EXCEPT !.at = label] \in LoopState
        /\ [loop[s] EXCEPT !.at = label, !.n = v] \in LoopState
        /\ [loop[s] EXCEPT !.at = label, !.register = v] \in LoopState
    BY <1>1 DEF LoopState
  <1>3. ASSUME NEW t \in LoopState PROVE [loop EXCEPT ![s] = t] \in [Socket -> LoopState]
    BY <1>3
  <1>4. /\ [loop EXCEPT ![s].at = label] = [loop EXCEPT ![s] = [loop[s] EXCEPT !.at = label]]
        /\ [loop EXCEPT ![s].at = label, ![s].n = v]
             = [loop EXCEPT ![s] = [loop[s] EXCEPT !.at = label, !.n = v]]
        /\ [loop EXCEPT ![s].at = label, ![s].register = v]
             = [loop EXCEPT ![s] = [loop[s] EXCEPT !.at = label, !.register = v]]
    OBVIOUS
  <1>5. QED
    BY <1>2, <1>3, <1>4

LEMMA SendShared ==
    ASSUME SharedTypes, NEW w \in Wires, Send(w)
    PROVE  SharedTypes'
  <1>1. \A s \in Socket : queue'[s] \in Seq(Seq(Byte))
    BY WireAssumption DEF Send, SharedTypes
  <1>2. sent' \in 0 .. MaxPackets
    BY BoundAssumption DEF Send, SharedTypes
  <1>3. QED
    BY <1>1, <1>2 DEF Send, SharedTypes, counts

LEMMA ReadPacketShared ==
    ASSUME SharedTypes, NEW s \in Socket, ReadPacket(s), buffer' \in [Socket -> Seq(Byte)]
    PROVE  SharedTypes'
  <1>1. /\ Head(queue[s]) \in Seq(Byte) /\ Tail(queue[s]) \in Seq(Seq(Byte))
        /\ Len(Head(queue[s])) \in Nat
    BY DEF SharedTypes, ReadPacket
  <1>2. \A r \in Socket : queue'[r] \in Seq(Seq(Byte))
    BY <1>1, SMTT(30) DEF SharedTypes, ReadPacket
  <1>3. loop' \in [Socket -> LoopState]
    <2>1. loop \in [Socket -> LoopState]
      BY DEF SharedTypes, LoopState
    <2>2. QED
      BY <1>1, <2>1, LoopTyped DEF ReadPacket
  <1>4. seen' \in [Counter -> Nat]
    <2>1. /\ seen' = [seen EXCEPT ![Received] = seen[Received] + 1]
          /\ seen \in [Counter -> Nat] /\ seen[Received] + 1 \in Nat
      BY DEF SharedTypes, ReadPacket, Counter
    <2>2. QED
      BY <2>1, StillCounters
  <1>5. QED
    BY <1>2, <1>3, <1>4 DEF SharedTypes, ReadPacket, LoopState

LEMMA LoopShared ==
    ASSUME SharedTypes, NEW s \in Socket,
           \/ LoadReceived(s) \/ StoreReceived(s) \/ DropPacket(s)
           \/ \E h \in Handler : StartHandler(s, h)
    PROVE  SharedTypes' /\ (BufferInv => BufferInv')
  <1>1. UNCHANGED <<queue, sent, buffer, leases, seen>> /\ Received \in Counter
    BY DEF LoadReceived, StoreReceived, DropPacket, StartHandler, net, counts, Counter
  <1>2. stats' \in [Counter -> Nat]
    <2>1. CASE StoreReceived(s)
      <3>1. /\ stats' = [stats EXCEPT ![Received] = loop[s].register + 1]
            /\ stats \in [Counter -> Nat] /\ loop[s].register + 1 \in Nat
        BY <2>1 DEF StoreReceived, SharedTypes
      <3>2. QED
        BY <3>1, StillCounters
    <2>2. CASE ~StoreReceived(s)
      BY <2>2 DEF SharedTypes, LoadReceived, DropPacket, StartHandler, counts
    <2>3. QED
      BY <2>1, <2>2
  <1>3. loop \in [Socket -> LoopState] /\ stats[Received] \in Nat
    BY <1>1 DEF SharedTypes, LoopState
  <1>4. loop' \in [Socket -> LoopState]
    <2>1. CASE LoadReceived(s)
      BY <1>3, <2>1, LoopTyped DEF LoadReceived
    <2>2. CASE ~LoadReceived(s)
      <3>1. PICK label \in {"read", "start"} : loop' = [loop EXCEPT ![s].at = label]
        BY <2>2 DEF StoreReceived, DropPacket, StartHandler, LoopAt
      <3>2. QED
        BY <1>3, <3>1, LoopTyped
    <2>3. QED
      BY <2>1, <2>2
  <1>5. \A r \in Socket : loop'[r].n = loop[r].n
    BY <1>3 DEF LoopState, LoadReceived, StoreReceived, DropPacket, StartHandler, LoopAt
  <1>6. QED
    BY <1>1, <1>2, <1>4, <1>5 DEF SharedTypes, BufferInv, LoopState


(***************************************************************************)
(* What a handler writes.                                                  *)
(***************************************************************************)
AnswerTypes == {DHCPOffer, DHCPAck, DHCPNak}

\* Where ReplyInv(h) wants an address: h is on its way to a reply with one.
Addressing(h) ==
    pc[h] \in {"subnet", "lease"} \/ (pc[h] = "reply" /\ answer[h] # DHCPNak)

Addressed(h) == given[h] # AtWant \/ want[h] # Nowhere

LEMMA ReplyInvParts ==
    ASSUME NEW h \in Handler
    PROVE  ReplyInv(h) <=> /\ Addressing(h) => Addressed(h)
                           /\ pc[h] = "reply" => answer[h] \in AnswerTypes
                           /\ pc[h] = "send" /\ RoutersFit => Writable(reply[h])
  BY DEF ReplyInv, Addressing, Addressed, AnswerTypes

\* Where h goes from its steps before BuildReply.
Prepared(h) ==
    /\ pc'[h] # "send"
    /\ pc'[h] = "reply" => answer'[h] \in AnswerTypes
    /\ Addressing(h)' => Addressed(h)'

LEMMA ElsewhereMoved ==
    ASSUME NEW h \in Handler, pc'[h] \notin {"subnet", "lease", "reply", "send"}
    PROVE  Prepared(h)
  BY DEF Prepared, Addressing

LEMMA EndPrepared ==
    ASSUME HandlerTypes, NEW h \in Handler, End(h)
    PROVE  Prepared(h)
  BY ElsewhereMoved DEF HandlerTypes, End, Goto

LEMMA RefusePrepared ==
    ASSUME HandlerTypes, NEW h \in Handler, Refuse(h)
    PROVE  Prepared(h)
  <1>1. CASE End(h)
    BY <1>1, EndPrepared
  <1>2. CASE ReplyWith(h, DHCPNak)
    <2>1. pc'[h] = "reply" /\ answer'[h] = DHCPNak
      BY <1>2 DEF HandlerTypes, LocalTypes, ReplyWith, Goto
    <2>2. QED
      BY <2>1 DEF Prepared, Addressing, AnswerTypes
  <1>3. QED
    BY <1>1, <1>2 DEF Refuse

\* A DISCOVER or an INFORM comes to "subnet" from here.
LEMMA ReadMACPrepared ==
    ASSUME HandlerTypes, SharedTypes, NEW h \in Handler, HandlerInv(h), ReadMAC(h)
    PROVE  Prepared(h)
  <1>1. CASE kind[h] = DHCPInform /\ Goto(h, "subnet")
             /\ want' = [want EXCEPT ![h] = packet[h].ciaddr]
    <2>1. FrameInv(h)
      BY DEF ReadMAC, HandlerInv
    <2>2. own[h] \in Seq(Byte) /\ Within(packet[h].ciaddr, own[h])
      BY <2>1, FramePlaces DEF HandlerTypes, LocalTypes
    <2>3. packet[h].ciaddr # Nowhere
      BY <2>2, PlacesTyped
    <2>4. pc'[h] = "subnet" /\ want'[h] # Nowhere
      BY <1>1, <2>3 DEF HandlerTypes, LocalTypes, Goto
    <2>5. QED
      BY <2>4 DEF Prepared, Addressed
  <1>2. CASE pc' = [pc EXCEPT ![h] = "allocate"] \/ pc' = [pc EXCEPT ![h] = "args"]
             \/ pc' = [pc EXCEPT ![h] = "release"]
    BY <1>2, ElsewhereMoved DEF HandlerTypes
  <1>3. QED
    BY <1>1, <1>2 DEF ReadMAC, Goto

LEMMA AllocatePrepared ==
    ASSUME HandlerTypes, SharedTypes, NEW h \in Handler, Allocate(h)
    PROVE  Prepared(h)
  <1>1. CASE Refuse(h)
    BY <1>1, RefusePrepared
  <1>2. CASE ~Refuse(h)
    <2>1. PICK a : /\ want[h] = Nowhere => a \in {r.ip : r \in leases} \cup Subnet
                   /\ given' = [given EXCEPT ![h] = a]
                   /\ pc' = [pc EXCEPT ![h] = IF kind[h] = DHCPRequest THEN "verify"
                                              ELSE "subnet"]
                   /\ want' = want
      <3>1. CASE want[h] = Nowhere
        BY <1>2, <3>1 DEF Allocate, Goto
      <3>2. CASE want[h] # Nowhere
        BY <1>2, <3>2 DEF Allocate, Goto
      <3>3. QED
        BY <3>1, <3>2
    <2>2. a # AtWant \/ want[h] # Nowhere
      <3>1. \A r \in leases : r.ip \in Byte
        BY DEF SharedTypes
      <3>2. {r.ip : r \in leases} \cup Subnet \subseteq Byte
        BY <3>1, SubnetAssumption
      <3>3. AtWant \notin Byte
        BY DEF AtWant, Byte
      <3>4. QED
        BY <2>1, <3>2, <3>3
    <2>3. pc'[h] \in {"verify", "subnet"} /\ given'[h] = a /\ want'[h] = want[h]
      BY <2>1 DEF HandlerTypes
    <2>4. QED
      BY <2>2, <2>3 DEF Prepared, Addressing, Addressed
  <1>3. QED
    BY <1>1, <1>2

LEMMA VerifyPrepared ==
    ASSUME HandlerTypes, NEW h \in Handler, HandlerInv(h), Verify(h)
    PROVE  Prepared(h)
  <1>1. CASE Refuse(h)
    BY <1>1, RefusePrepared
  <1>2. CASE ~Refuse(h)
    <2>1. want[h] # Nowhere
      BY DEF Verify, HandlerInv, StageInv
    <2>2. pc'[h] = "subnet" /\ want'[h] = want[h]
      BY <1>2 DEF Verify, Goto, HandlerTypes
    <2>3. QED
      BY <2>1, <2>2 DEF Prepared, Addressed
  <1>3. QED
    BY <1>1, <1>2

LEMMA FindSubnetPrepared ==
    ASSUME HandlerTypes, NEW h \in Handler, ReplyInv(h),
           FindSubnet(h) \/ CreateLease(h)
    PROVE  Prepared(h)
  <1>1. CASE Refuse(h) \/ End(h)
    BY <1>1, RefusePrepared, EndPrepared
  <1>2. CASE ~(Refuse(h) \/ End(h))
    <2>1. Addressed(h)
      BY ReplyInvParts DEF FindSubnet, CreateLease, Addressing
    <2>2. given' = given /\ want' = want
      BY <1>2 DEF FindSubnet, CreateLease, args
    <2>3. \/ Goto(h, "lease")
          \/ ReplyWith(h, IF kind[h] = DHCPDiscover THEN DHCPOffer ELSE DHCPAck)
          \/ ReplyWith(h, DHCPAck)
      BY <1>2 DEF FindSubnet, CreateLease
    <2>4. pc'[h] = "lease" \/ (pc'[h] = "reply" /\ answer'[h] \in AnswerTypes)
      <3>1. DOMAIN pc = Handler /\ DOMAIN answer = Handler
        BY DEF HandlerTypes, LocalTypes
      <3>2. ASSUME NEW label, Goto(h, label) PROVE pc'[h] = label
        BY <3>1, <3>2 DEF Goto
      <3>3. ASSUME NEW a, ReplyWith(h, a) PROVE pc'[h] = "reply" /\ answer'[h] = a
        BY <3>1, <3>3 DEF ReplyWith, Goto
      <3>4. QED
        BY <2>3, <3>2, <3>3 DEF AnswerTypes
    <2>5. QED
      BY <2>1, <2>2, <2>4 DEF Prepared, Addressed
  <1>3. QED
    BY <1>1, <1>2

LEMMA StepPrepared ==
    ASSUME HandlerTypes, SharedTypes, NEW h \in Handler, HandlerInv(h), ReplyInv(h),
           HandlerStep(h), ~BuildReply(h)
    PROVE  Prepared(h)
  <1>1. CASE ReadKind(h) \/ LoadCount(h) \/ StoreCount(h) \/ SendReply(h)
    <2>1. End(h) \/ \E label \in {"count", "store", "mac", "sent"} : Goto(h, label)
      BY <1>1 DEF ReadKind, LoadCount, StoreCount, SendReply
    <2>2. QED
      BY <2>1, EndPrepared, ElsewhereMoved DEF HandlerTypes, Goto
  <1>2. CASE Decline(h) \/ ReleaseLease(h) \/ Finish(h)
    BY <1>2, EndPrepared DEF Decline, ReleaseLease, Finish
  <1>3. CASE ReadArgs(h)
    <2>1. End(h) \/ Refuse(h) \/ Goto(h, "allocate")
      BY <1>3 DEF ReadArgs
    <2>2. QED
      BY <2>1, EndPrepared, RefusePrepared, ElsewhereMoved DEF HandlerTypes, Goto
  <1>4. CASE ReadMAC(h) \/ Allocate(h) \/ Verify(h)
    BY <1>4, ReadMACPrepared, AllocatePrepared, VerifyPrepared
  <1>5. CASE FindSubnet(h) \/ CreateLease(h)
    BY <1>5, FindSubnetPrepared
  <1>6. QED
    BY <1>1, <1>2, <1>3, <1>4, <1>5 DEF HandlerStep

\* The options of a reply: the codes are no pad and no end, and only the routers can be
\* too many for the length byte.
LEMMA OptionsWritable ==
    ASSUME RoutersFit, NEW a \in AnswerTypes
    PROVE  LET options == ReplyOptions(a)
           IN  /\ IsFiniteSet(DOMAIN options)
               /\ DOMAIN options \subseteq Byte \ {OptionPad, OptionEnd}
               /\ \A c \in DOMAIN options :
                     options[c] \in Seq(Byte) /\ Len(options[c]) < 256
  <1> DEFINE Codes == {OptionMessageType, OptionServerIdentifier, OptionLeaseTime,
                       OptionRouter}
             Values == {<<a>>, <<Self>>, <<LeaseTime>>, Routers}
  <1>1. DOMAIN ReplyOptions(a) \subseteq Codes
    BY DEF ReplyOptions
  <1>2. \A c \in DOMAIN ReplyOptions(a) : ReplyOptions(a)[c] \in Values
    BY DEF ReplyOptions
  <1>3. IsFiniteSet(Codes)
    <2>1. ASSUME NEW a1, NEW a2 PROVE IsFiniteSet({a1} \cup {a2})
      BY FS_Singleton, FS_Union
    <2>2. IsFiniteSet(({OptionMessageType} \cup {OptionServerIdentifier})
                        \cup ({OptionLeaseTime} \cup {OptionRouter}))
      BY <2>1, FS_Union
    <2>3. Codes = ({OptionMessageType} \cup {OptionServerIdentifier})
                    \cup ({OptionLeaseTime} \cup {OptionRouter})
      OBVIOUS
    <2>4. QED
      BY <2>2, <2>3
  <1>4. Codes \subseteq Byte \ {OptionPad, OptionEnd}
    BY DEF OptionMessageType, OptionServerIdentifier, OptionLeaseTime, OptionRouter,
           OptionPad, OptionEnd, Byte
  <1>5. ASSUME NEW b \in Byte PROVE <<b>> \in Seq(Byte) /\ Len(<<b>>) < 256
    OBVIOUS
  <1>6. a \in Byte
    BY DEF AnswerTypes, DHCPOffer, DHCPAck, DHCPNak, Byte
  <1>7. \A v \in Values : v \in Seq(Byte) /\ Len(v) < 256
    BY <1>5, <1>6, SubnetAssumption DEF RoutersFit
  <1> HIDE DEF Codes, Values
  <1>8. QED
    BY <1>1, <1>2, <1>3, <1>4, <1>7, FS_Subset

\* What h puts into its reply.
Made(h) ==
    [flags |-> packet[h].flags, ciaddr |-> 0,
     yiaddr |-> IF answer[h] = DHCPNak \/ kind[h] = DHCPInform THEN 0 ELSE IP(h),
     giaddr |-> Read(h, packet[h].giaddr), chaddr |-> Read(h, packet[h].chaddr),
     options |-> ReplyOptions(answer[h])]

LEMMA BuiltWritable ==
    ASSUME RoutersFit, HandlerTypes, SharedTypes, NEW h \in Handler, HandlerInv(h),
           ReplyInv(h), BuildReply(h)
    PROVE  Writable(reply'[h])
  <1>1. reply' = [reply EXCEPT ![h] = Made(h)]
    BY DEF BuildReply, Made
  <1>2. /\ FrameInv(h) /\ answer[h] \in AnswerTypes
        /\ answer[h] = DHCPNak \/ given[h] # AtWant \/ Within(want[h], own[h])
    BY DEF BuildReply, HandlerInv, ReplyInv, AnswerTypes, FrameInv
  <1> DEFINE o == ReplyOptions(answer[h])
  <1>3. /\ IsFiniteSet(DOMAIN o) /\ DOMAIN o \subseteq Byte \ {OptionPad, OptionEnd}
        /\ \A c \in DOMAIN o : o[c] \in Seq(Byte) /\ Len(o[c]) < 256
    BY <1>2, OptionsWritable
  <1> HIDE DEF o
  <1>4. Read(h, packet[h].giaddr) \in Byte /\ Read(h, packet[h].chaddr) \in Byte
    BY <1>2, FramePlaces, ReadByte
  <1>5. packet[h].flags \in Byte
    <2>1. own[h] \in Seq(Byte) /\ Len(own[h]) >= 5 /\ packet[h].flags = own[h][1]
      BY <1>2 DEF HandlerTypes, LocalTypes, FrameInv, Parseable, HeaderLen, ParsePacket
    <2>2. QED
      BY <2>1, ElementOfSeq
  <1>6. answer[h] = DHCPNak \/ IP(h) \in Byte
    <2>1. given[h] # AtWant => given[h] \in Byte
      BY DEF HandlerTypes
    <2>2. Within(want[h], own[h]) => Read(h, want[h]) \in Byte
      BY ReadByte
    <2>3. QED
      BY <1>2, <2>1, <2>2 DEF IP
  <1>7. 0 \in Byte
    BY DEF Byte
  <1>8. Writable(Made(h))
    BY <1>3, <1>4, <1>5, <1>6, <1>7 DEF Writable, Made, o
  <1>9. reply'[h] = Made(h)
    BY <1>1 DEF HandlerTypes, LocalTypes
  <1>10. QED
    BY <1>8, <1>9

LEMMA KeptReply ==
    ASSUME NEW g, ReplyInv(g), pc'[g] = pc[g], answer'[g] = answer[g],
           reply'[g] = reply[g], given'[g] = given[g], want'[g] = want[g]
    PROVE  ReplyInv(g)'
  BY DEF ReplyInv, Writable

LEMMA ReplyStep ==
    ASSUME HandlerTypes, SharedTypes, NEW h \in Handler, HandlerInv(h), ReplyInv(h),
           HandlerStep(h)
    PROVE  ReplyInv(h)'
  <1>1. CASE BuildReply(h)
    <2>1. pc'[h] = "send"
      BY <1>1 DEF BuildReply, HandlerTypes, Goto
    <2>2. RoutersFit => Writable(reply'[h])
      BY <1>1, BuiltWritable
    <2>3. QED
      BY <2>1, <2>2 DEF ReplyInv, Writable
  <1>2. CASE ~BuildReply(h)
    <2>1. Prepared(h)
      BY <1>2, StepPrepared
    <2>2. QED
      BY <2>1 DEF Prepared, ReplyInv, Addressing, Addressed, AnswerTypes
  <1>3. QED
    BY <1>1, <1>2

\* IInv without what is written, in the proof's form.
Parts ==
    /\ HandlerTypes /\ SharedTypes /\ BufferInv
    /\ \A h \in Handler : HandlerInv(h)
    /\ \A c \in Counter : CountInv(c)

LEMMA RepliesKept ==
    ASSUME Parts, \A h \in Handler : ReplyInv(h), [Next]_vars
    PROVE  \A h \in Handler : ReplyInv(h)'
  <1>1. /\ HandlerTypes /\ SharedTypes /\ BufferInv
        /\ \A h \in Handler : HandlerInv(h)
    BY DEF Parts
  <1>2. SUFFICES ASSUME NEW g \in Handler PROVE ReplyInv(g)'
    OBVIOUS
  <1>3. CASE \E h \in Handler : HandlerStep(h)
    <2>1. PICK h \in Handler : HandlerStep(h)
      BY <1>3
    <2>2. CASE g = h
      BY <1>1, <2>1, <2>2, ReplyStep
    <2>3. CASE g # h
      <3>1. Others(h)
        BY <1>1, <2>1, HandlerMove DEF Fine
      <3>2. QED
        BY <2>3, <3>1, KeptReply DEF Others
    <2>4. QED
      BY <2>2, <2>3
  <1>4. CASE \E s \in Socket : LoopStep(s)
    <2>1. PICK s \in Socket : LoopStep(s)
      BY <1>4
    <2>2. UNCHANGED <<answer, reply, given, want>>
      BY <2>1 DEF LoopStep, ReadPacket, LoadReceived, StoreReceived, DropPacket,
                  StartHandler, args, out
    <2>3. pc'[g] = pc[g] \/ pc'[g] = "kind"
      BY <1>1, <2>1 DEF LoopStep, ReadPacket, LoadReceived, StoreReceived, DropPacket,
                        StartHandler, HandlerTypes
    <2>4. CASE pc'[g] = pc[g]
      BY <2>2, <2>4, KeptReply
    <2>5. CASE pc'[g] = "kind"
      BY <2>5 DEF ReplyInv
    <2>6. QED
      BY <2>3, <2>4, <2>5
  <1>5. CASE (\E w \in Wires : Send(w)) \/ Rest \/ UNCHANGED vars
    <2>1. UNCHANGED <<pc, answer, reply, given, want>>
      BY <1>5 DEF Send, Rest, vars, args, out
    <2>2. QED
      BY <2>1, KeptReply
  <1>6. QED
    BY <1>3, <1>4, <1>5 DEF Next

(***************************************************************************)
(* Theorems.                                                               *)
(***************************************************************************)
LEMMA IInvParts == IInv <=> Parts /\ \A h \in Handler : ReplyInv(h)
  BY TypesSplit DEF IInv, Parts, BufferInv, HandlerTypes

LEMMA InitParts == Init => Parts
  <1> SUFFICES ASSUME Init PROVE Parts
    OBVIOUS
  <1>1. /\ <<>> \in Seq(Byte) /\ <<>> \in Seq(Seq(Byte)) /\ 0 \in Byte
        /\ Nowhere \in [at: Nat, len: Nat] /\ Len(<<>>) = 0
    BY EmptySeq DEF Nowhere, Place, Byte
  <1>2. HandlerTypes
    BY <1>1 DEF Init, HandlerTypes, LocalTypes, PC, Socket
  <1>3. SharedTypes /\ BufferInv
    BY <1>1, BoundAssumption DEF Init, SharedTypes, BufferInv
  <1>4. ASSUME NEW h \in Handler PROVE HandlerInv(h)
    BY DEF Init, HandlerInv, StageInv, ServedAsSent, LeaseAsAsked, Early, DHCPRequest
  <1>5. ASSUME NEW c \in Counter PROVE CountInv(c)
    <2>1. CountingHandlers(c) = {} /\ CountingLoops(c) = {}
      BY DEF Init, CountingHandlers, CountingLoops
    <2>2. Due(c) = 0
      BY <2>1, FS_EmptySet DEF Due
    <2>3. \A h \in Handler : ~Storing(h, c)
      BY DEF Init, Storing
    <2>4. \A s \in Socket : ~StoringLoop(s, c)
      BY DEF Init, StoringLoop
    <2>5. stats[c] = 0 /\ seen[c] = 0
      BY DEF Init
    <2>6. QED
      BY <2>2, <2>3, <2>4, <2>5 DEF CountInv, AtMost
  <1>6. QED
    BY <1>2, <1>3, <1>4, <1>5 DEF Parts

LEMMA HandlerKeeps ==
    ASSUME Parts, NEW h \in Handler, HandlerStep(h)
    PROVE  Parts'
  <1>1. /\ HandlerTypes /\ SharedTypes /\ BufferInv
        /\ \A g \in Handler : HandlerInv(g)
        /\ \A c \in Counter : CountInv(c)
    BY DEF Parts
  <1>2. Fine(h)
    BY <1>1, HandlerMove
  <1>3. SharedTypes' /\ UNCHANGED <<net, loop, buffer>>
    BY <1>1, HandlerShared
  <1>4. ASSUME NEW g \in Handler PROVE HandlerInv(g)'
    <2>1. HandlerInv(g)
      BY <1>1
    <2>2. CASE g = h
      BY <1>2, <2>2 DEF Fine
    <2>3. CASE g # h
      BY <1>2, <1>3, <2>1, <2>3, KeptHandler DEF Fine
    <2>4. QED
      BY <2>2, <2>3
  <1>5. \A c \in Counter : CountInv(c)'
    BY <1>1, HandlerCount
  <1>6. BufferInv'
    BY <1>1, <1>3 DEF BufferInv
  <1>7. QED
    BY <1>2, <1>3, <1>4, <1>5, <1>6 DEF Parts, Fine

LEMMA LoopKeeps ==
    ASSUME Parts, NEW s \in Socket, LoopStep(s)
    PROVE  Parts'
  <1>1. /\ HandlerTypes /\ SharedTypes /\ BufferInv
        /\ \A g \in Handler : HandlerInv(g)
        /\ \A c \in Counter : CountInv(c)
    BY DEF Parts
  <1>2. CASE ReadPacket(s)
    <2>1. /\ HandlerTypes' /\ BufferInv' /\ \A h \in Handler : HandlerInv(h)'
          /\ buffer' \in [Socket -> Seq(Byte)]
      BY <1>1, <1>2, ReadPacketStep
    <2>2. SharedTypes'
      BY <1>1, <1>2, <2>1, ReadPacketShared
    <2>3. \A c \in Counter : CountInv(c)'
      BY <1>1, <1>2, ReadPacketCount
    <2>4. QED
      BY <2>1, <2>2, <2>3 DEF Parts
  <1>3. CASE LoadReceived(s) \/ StoreReceived(s) \/ DropPacket(s)
    <2>1. UNCHANGED <<buffer, pc, frame, args, register, out, granted, overwritten>>
      BY <1>3 DEF LoadReceived, StoreReceived, DropPacket
    <2>2. HandlerTypes' /\ \A h \in Handler : HandlerInv(h)'
      BY <1>1, <2>1, KeptHandlers
    <2>3. SharedTypes' /\ BufferInv'
      BY <1>1, <1>3, LoopShared
    <2>4. ASSUME NEW c \in Counter, DropPacket(s) PROVE CountInv(c)'
      <3>1. /\ \A r \in Socket \ {s} : loop'[r] = loop[r]
            /\ loop[s].at = "start" /\ loop'[s].at = "read"
            /\ UNCHANGED <<pc, kind, register, stats, seen, overlapped>>
        BY <1>1, <2>4 DEF DropPacket, LoopAt, SharedTypes, args, counts
      <3>2. CountInv(c)
        BY <1>1
      <3>3. QED
        BY <1>1, <3>1, <3>2, CountKept
    <2>5. \A c \in Counter : CountInv(c)'
      BY <1>1, <1>3, <2>4, LoadReceivedCount, StoreReceivedCount
    <2>6. QED
      BY <2>2, <2>3, <2>5 DEF Parts
  <1>4. CASE \E h \in Handler : StartHandler(s, h)
    <2>1. PICK h \in Handler : StartHandler(s, h)
      BY <1>4
    <2>2. Fine(h)
      BY <1>1, <2>1, StartStep
    <2>3. SharedTypes' /\ BufferInv'
      BY <1>1, <1>4, LoopShared
    <2>4. ASSUME NEW g \in Handler PROVE HandlerInv(g)'
      <3>1. HandlerInv(g) /\ buffer' = buffer
        BY <1>1, <2>1 DEF StartHandler
      <3>2. CASE g = h
        BY <2>2, <3>2 DEF Fine
      <3>3. CASE g # h
        BY <2>2, <3>1, <3>3, KeptHandler DEF Fine
      <3>4. QED
        BY <3>2, <3>3
    <2>5. ASSUME NEW c \in Counter PROVE CountInv(c)'
      <3>1. /\ \A r \in Socket \ {s} : loop'[r] = loop[r]
            /\ loop[s].at = "start" /\ loop'[s].at = "read"
            /\ \A g \in Handler \ {h} : pc'[g] = pc[g]
            /\ pc[h] = "idle" /\ pc'[h] = "kind"
            /\ UNCHANGED <<kind, register, stats, seen, overlapped>>
        BY <1>1, <2>1
        DEF StartHandler, LoopAt, SharedTypes, HandlerTypes, args, counts
      <3>2. CountInv(c)
        BY <1>1
      <3>3. QED
        BY <1>1, <3>1, <3>2, CountKept
    <2>6. QED
      BY <2>2, <2>3, <2>4, <2>5 DEF Parts, Fine
  <1>5. QED
    BY <1>2, <1>3, <1>4 DEF LoopStep

LEMMA StillKeeps ==
    ASSUME Parts, (\E w \in Wires : Send(w)) \/ UNCHANGED vars
    PROVE  Parts'
  <1>1. /\ HandlerTypes /\ SharedTypes /\ BufferInv
        /\ \A g \in Handler : HandlerInv(g)
        /\ \A c \in Counter : CountInv(c)
    BY DEF Parts
  <1>2. UNCHANGED <<loop, buffer, pc, frame, args, register, out, granted, counts, overwritten>>
    BY DEF Send, vars, frame, args, out, counts
  <1>3. HandlerTypes' /\ \A h \in Handler : HandlerInv(h)'
    BY <1>1, <1>2, KeptHandlers
  <1>4. SharedTypes'
    <2>1. CASE UNCHANGED vars
      BY <1>1, <2>1 DEF SharedTypes, vars
    <2>2. QED
      BY <1>1, <2>1, SendShared
  <1>5. BufferInv'
    BY <1>1, <1>2 DEF BufferInv
  <1>6. ASSUME NEW c \in Counter PROVE CountInv(c)'
    BY <1>1, <1>2, CountKept DEF args, counts
  <1>7. QED
    BY <1>3, <1>4, <1>5, <1>6 DEF Parts

\* IInv holds in every state, of loops and handlers that step in any order.
THEOREM Invariance == Spec => []IInv
  <1>1. Init => Parts
    BY InitParts
  <1>2. Parts /\ [Next]_vars => Parts'
    <2> SUFFICES ASSUME Parts, [Next]_vars PROVE Parts'
      OBVIOUS
    <2>1. CASE \E s \in Socket : LoopStep(s)
      BY <2>1, LoopKeeps
    <2>2. CASE \E h \in Handler : HandlerStep(h)
      BY <2>2, HandlerKeeps
    <2>3. CASE (\E w \in Wires : Send(w)) \/ Rest \/ UNCHANGED vars
      BY <2>3, StillKeeps DEF Rest
    <2>4. QED
      BY <2>1, <2>2, <2>3 DEF Next
  <1>3. Init => \A h \in Handler : ReplyInv(h)
    BY DEF Init, ReplyInv
  <1>4. Parts /\ (\A h \in Handler : ReplyInv(h)) /\ [Next]_vars
           => (\A h \in Handler : ReplyInv(h))'
    BY RepliesKept
  <1>5. Parts /\ (\A h \in Handler : ReplyInv(h)) => IInv
    BY IInvParts
  <1>6. QED
    BY <1>1, <1>2, <1>3, <1>4, <1>5, PTL DEF Spec

\* The variables have their types, a handler that verifies or stores a lease serves
\* a REQUEST that names an address, and no address has two leases.
THEOREM TypeCorrect == Spec => []TypeOK
  <1>1. IInv => TypeOK
    BY DEF IInv
  <1>2. QED
    BY <1>1, Invariance, PTL

\* A packet that came by the raw socket is served as it was sent, whatever else
\* comes meanwhile: ReadDHCPPacket copies it.
THEOREM RawServed == Spec => []RawServedAsSent
  <1>1. IInv => RawServedAsSent
    BY DEF IInv, HandlerInv, RawServedAsSent, Intact
  <1>2. QED
    BY <1>1, Invariance, PTL

\* A packet that came by the UDP socket is, as long as handleConnection has not read
\* the next one into the buffer it lies in.
THEOREM UdpServed == Spec => []UdpServedAsSentUnlessOverwritten
  <1>1. IInv => UdpServedAsSentUnlessOverwritten
    BY DEF IInv, HandlerInv, UdpServedAsSentUnlessOverwritten, Intact
  <1>2. QED
    BY <1>1, Invariance, PTL

\* A counter of Stats is never too high, and it is exact as long as no two goroutines
\* have been incrementing it at the same time.
THEOREM CountsExact == Spec => []CountsExactUnlessOverlapped
  <1>1. IInv => CountsExactUnlessOverlapped
    BY DEF IInv, CountInv, AtMost, CountsExactUnlessOverlapped
  <1>2. QED
    BY <1>1, Invariance, PTL

\* What a client makes of a reply is what the server put into it, whatever the other
\* handlers do, in whatever order Go ranges over the options: as long as the routers of
\* the subnet fit the length byte of their option (LongValueLost says that they must).
THEOREM RepliesRead ==
    ASSUME RoutersFit
    PROVE  Spec => []RepliesReadable
  <1>1. IInv => RepliesReadable
    BY RoundTrip DEF IInv, ReplyInv, RepliesReadable
  <1>2. QED
    BY <1>1, Invariance, PTL
=============================================================================
