----------------------------- MODULE RangeScan ------------------------------
(***************************************************************************)
(* The arithmetic of the scan of the dynamic ranges in                     *)
(* internal/allocator/allocator.go: an address is an unsigned integer, the *)
(* loop compares it with the end of the range and increments it, modulo    *)
(* Modulus (2^32 in the code).  No RECURSIVE operator: the address tried   *)
(* in iteration k and the length of the loop are given directly.           *)
(***************************************************************************)
EXTENDS Integers, Sequences, SequencesExt

CONSTANT Modulus

ASSUME ModulusAssumption == Modulus \in Nat \ {0}

\* The addresses as uint32 values.
IPv4 == 0 .. Modulus - 1

\* currentInt in iteration k of the loop, counted from 0.
Current(start, k) == (start + k) % Modulus

\* A bug to compare with: currentInt < endInt.
GoesOnBelow(start, end, k) == Current(start, k) < end

\* The condition of the loop.
GoesOn(start, end, k) == Current(start, k) <= end

\* The loop ends: some iteration fails the condition.  A range whose end is the
\* last address of all never does.
Ends(start, end) == \E k \in 0 .. Modulus : ~GoesOn(start, end, k)

\* How many addresses the loop tries.
Length(start, end) ==
    CHOOSE k \in 0 .. Modulus :
        /\ ~GoesOn(start, end, k)
        /\ \A j \in 0 .. k - 1 : GoesOn(start, end, j)

\* findAvailableIPInRange: the addresses tried, none when start is after end.
RangeAddresses(start, end) ==
    IF start > end
    THEN <<>>
    ELSE [i \in 1 .. Length(start, end) |-> Current(start, i - 1)]

\* The loops of AllocateIP over subnets and their ranges.
ScanOrder(ranges) ==
    FlattenSeq([i \in DOMAIN ranges |-> RangeAddresses(ranges[i].start, ranges[i].end)])
=============================================================================
