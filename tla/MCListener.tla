----------------------------- MODULE MCListener -----------------------------
(***************************************************************************)
(* Values of Listener's constants for TLC.  Clients are 201 and 202, hosts *)
(* 11 and 12, relays 31 and 32, the server is 1.                           *)
(***************************************************************************)
EXTENDS ListenerInv

\* What a client or relay sends: header, cookie, options, end.
Wire(unicast, ci, gi, ch, options) ==
    [unicast |-> unicast,
     bytes |-> <<0, ci, 0, gi, ch, MagicCookie>> \o options \o <<OptionEnd>>]

\* A REQUEST and a DISCOVER through relays: where one has its type in option 53, the
\* other has the address in option 50.
RelayedOne == Wire(TRUE, 0, 31, 201, <<53, 1, 3, 50, 1, 11>>)
RelayedTwo == Wire(TRUE, 0, 32, 202, <<50, 1, 12, 53, 1, 1>>)
\* Two REQUESTs, with RelayedOne.
RelayedThree == Wire(TRUE, 0, 32, 202, <<53, 1, 3, 50, 1, 12>>)
OtherServer == Wire(FALSE, 0, 0, 202, <<53, 1, 3, 54, 1, 2>>)
\* Its option 50 has the wrong length, so the address is the one in ciaddr.
Rebinding == Wire(FALSE, 11, 0, 201, <<53, 1, 3, 50, 2, 12, 12>>)
Discover == Wire(FALSE, 0, 0, 201, <<0, 53, 1, 1>>)
Inform == Wire(FALSE, 12, 0, 202, <<53, 1, 8>>)
Release == Wire(TRUE, 11, 0, 201, <<53, 1, 7>>)
Declined == Wire(FALSE, 0, 0, 202, <<53, 1, 4>>)
BootP == [unicast |-> FALSE, bytes |-> <<0, 0, 0, 0, 202>>]
Short == [unicast |-> FALSE, bytes |-> <<0, 0>>]

AllWires == {RelayedOne, RelayedTwo, OtherServer, Rebinding, Discover, Inform, Release,
             Declined, BootP, Short}
RelayedWires == {RelayedOne, RelayedThree}

TwoHosts == {11, 12}
TwoRouters == <<12, 255>>

HandlerSymmetry == Permutations(Handler)
=============================================================================
