---------------------------- MODULE PacketCodec -----------------------------
(***************************************************************************)
(* internal/dhcp/packet.go: how a packet lies in a buffer of bytes, what   *)
(* ParsePacket makes of it and what ToBytes writes.                        *)
(*                                                                         *)
(* ParsePacket copies the flags (and opcode, xid and secs, left out here); *)
(* the addresses and the values of the options are Go slices, that is,     *)
(* places in the buffer they were parsed from.  A place is [at, len]; what *)
(* it holds is read from a buffer with At, later, and from the buffer as   *)
(* it is then.                                                             *)
(*                                                                         *)
(* An address takes one byte instead of four, and so does the magic cookie *)
(* (lengths that never change need no more), and a hardware address, whose *)
(* length hlen is left out with it.  Option codes and message types are    *)
(* the real ones.                                                          *)
(***************************************************************************)
EXTENDS Integers, Sequences, SequencesExt, Functions, TLC

CONSTANT MinLen     \* the length ToBytes pads to, 300 in the code

ASSUME MinLenAssumption == MinLen \in Nat

Byte == 0 .. 255

MagicCookie == 99

OptionPad == 0
OptionSubnetMask == 1
OptionRouter == 3
OptionRequestedIPAddress == 50
OptionLeaseTime == 51
OptionMessageType == 53
OptionServerIdentifier == 54
OptionEnd == 255

DHCPDiscover == 1
DHCPOffer == 2
DHCPRequest == 3
DHCPDecline == 4
DHCPAck == 5
DHCPNak == 6
DHCPRelease == 7
DHCPInform == 8

\* The header: one byte each for flags, ciaddr, yiaddr, giaddr and chaddr, then
\* the cookie.
HeaderLen == 5
OptionsAt == HeaderLen + 2

Place(at, len) == [at |-> at, len |-> len]

\* A buffer is longer than what was read into it, and zero behind that.
At(buffer, place) ==
    [i \in 1 .. place.len |->
        IF place.at + i - 1 <= Len(buffer) THEN buffer[place.at + i - 1] ELSE 0]

(***************************************************************************)
(* parseOptions walks over the data: it skips a pad, and stops at the end  *)
(* option and at one that does not fit.  An option that occurs twice is    *)
(* where it occurs last.                                                   *)
(***************************************************************************)
Fits(data, i) == i < Len(data) /\ i + 1 + data[i + 1] <= Len(data)

Options(data) ==
    LET from[i \in Nat] ==
            IF i > Len(data) \/ data[i] = OptionEnd THEN {}
            ELSE {i} \cup CASE data[i] = OptionPad -> from[i + 1]
                            [] data[i] # OptionPad /\ Fits(data, i)
                                 -> from[i + 2 + data[i + 1]]
                            [] OTHER -> {}
        visited == from[OptionsAt]
        found == {i \in DOMAIN data :
                     i \in visited /\ data[i] # OptionPad /\ Fits(data, i)}
        last == {i \in found : \A j \in found : data[j] = data[i] => j <= i}
    IN  [code \in {data[i] : i \in last} |->
            LET i == CHOOSE i \in last : data[i] = code
            IN  Place(i + 2, data[i + 1])]

Parseable(data) == Len(data) >= HeaderLen

ParsePacket(data) ==
    [flags |-> data[1],
     ciaddr |-> Place(2, 1), yiaddr |-> Place(3, 1), giaddr |-> Place(4, 1),
     chaddr |-> Place(5, 1),
     options |-> IF Len(data) > HeaderLen /\ data[HeaderLen + 1] = MagicCookie
                 THEN Options(data) ELSE <<>>]

(***************************************************************************)
(* The getters: an option of any other length than the one expected is no  *)
(* option.                                                                 *)
(***************************************************************************)
HasOption(packet, code) == code \in DOMAIN packet.options

\* A bug to compare with: the length is not looked at.
GetAnyPlace(packet, code) ==
    IF HasOption(packet, code) THEN packet.options[code] ELSE Place(0, 0)

GetPlace(packet, code) ==
    IF HasOption(packet, code) /\ packet.options[code].len = 1
    THEN packet.options[code] ELSE Place(0, 0)

(***************************************************************************)
(* ToBytes.  A packet to write holds values, not places.  Go ranges over   *)
(* the map of options in any order, and the length of a value is cut to    *)
(* one byte.                                                               *)
(***************************************************************************)
\* A bug to compare with: the length is not written.
OptionWithoutLength(code, value) == <<code>> \o value

OptionBytes(code, value) == <<code, Len(value) % 256>> \o value

Pad(bytes) ==
    IF Len(bytes) >= MinLen THEN bytes
    ELSE bytes \o [i \in 1 .. MinLen - Len(bytes) |-> 0]

\* order: the codes of the packet's options, each once.
ToBytesInOrder(packet, order) ==
    Pad(<<packet.flags, packet.ciaddr, packet.yiaddr, packet.giaddr, packet.chaddr,
          MagicCookie>>
        \o FlattenSeq([i \in DOMAIN order |->
                          OptionBytes(order[i], packet.options[order[i]])])
        \o <<OptionEnd>>)

\* A reply has three to five options; all orders of them.
ToBytes(packet) ==
    {ToBytesInOrder(packet, order) : order \in SetToSeqs(DOMAIN packet.options)}

\* A packet that ToBytes can write: a value is no longer than its length byte can
\* say, and no option has the code of a pad or of the end.
Writable(packet) ==
    /\ packet.flags \in Byte /\ packet.ciaddr \in Byte /\ packet.yiaddr \in Byte
    /\ packet.giaddr \in Byte /\ packet.chaddr \in Byte
    /\ IsFiniteSet(DOMAIN packet.options)
    /\ DOMAIN packet.options \subseteq Byte \ {OptionPad, OptionEnd}
    /\ \A c \in DOMAIN packet.options :
          packet.options[c] \in Seq(Byte) /\ Len(packet.options[c]) < 256

\* What a reader makes of the bytes is what the packet held.
Readable(packet, bytes) ==
    LET parsed == ParsePacket(bytes)
    IN  /\ parsed.flags = packet.flags
        /\ At(bytes, parsed.ciaddr) = <<packet.ciaddr>>
        /\ At(bytes, parsed.yiaddr) = <<packet.yiaddr>>
        /\ At(bytes, parsed.giaddr) = <<packet.giaddr>>
        /\ At(bytes, parsed.chaddr) = <<packet.chaddr>>
        /\ DOMAIN parsed.options = DOMAIN packet.options
        /\ \A c \in DOMAIN parsed.options :
              At(bytes, parsed.options[c]) = packet.options[c]
=============================================================================
