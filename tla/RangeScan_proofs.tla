------------------------- MODULE RangeScan_proofs --------------------------
(***************************************************************************)
(* Proofs about RangeScan, for integers of any width: when the scan of a   *)
(* range ends, and what it tries.  The sum in Current wraps around in no   *)
(* iteration up to the one after the end of the range, and that one is     *)
(* where the loop stops, unless it is the first address of all.            *)
(***************************************************************************)
EXTENDS RangeScan, TLAPS

\* Up to the end of the range nothing wraps.
LEMMA NoWrap ==
    ASSUME NEW start \in IPv4, NEW end \in IPv4, NEW k \in Nat, start + k <= end
    PROVE  Current(start, k) = start + k /\ GoesOn(start, end, k)
  <1>1. start + k \in 0 .. Modulus - 1
    BY ModulusAssumption DEF IPv4
  <1>2. (start + k) % Modulus = start + k
    BY <1>1, ModulusAssumption
  <1>3. QED
    BY <1>2 DEF Current, GoesOn

\* The iteration after the end of the range.
LEMMA AfterEnd ==
    ASSUME NEW start \in IPv4, NEW end \in IPv4, start <= end, end # Modulus - 1
    PROVE  /\ (end - start) + 1 \in 0 .. Modulus
           /\ ~GoesOn(start, end, (end - start) + 1)
  <1>1. /\ start + ((end - start) + 1) = end + 1 /\ end + 1 \in 0 .. Modulus - 1
        /\ (end - start) + 1 \in 0 .. Modulus
    BY ModulusAssumption DEF IPv4
  <1>2. (end + 1) % Modulus = end + 1
    BY <1>1, ModulusAssumption
  <1>3. QED
    BY <1>1, <1>2 DEF Current, GoesOn, IPv4

\* findAvailableIPInRange: the scan of a range ends, unless its end is the last
\* address of all, 255.255.255.255: then no address is past it and the loop runs
\* around all addresses for ever.
THEOREM ScanEnds ==
    ASSUME NEW start \in IPv4, NEW end \in IPv4, start <= end
    PROVE  Ends(start, end) <=> end # Modulus - 1
  <1>1. ASSUME end = Modulus - 1, NEW k \in 0 .. Modulus
        PROVE  GoesOn(start, end, k)
    <2>1. (start + k) % Modulus \in 0 .. Modulus - 1
      BY ModulusAssumption DEF IPv4
    <2>2. QED
      BY <1>1, <2>1 DEF Current, GoesOn
  <1>2. ASSUME end # Modulus - 1
        PROVE  Ends(start, end)
    BY <1>2, AfterEnd DEF Ends
  <1>3. QED
    BY <1>1, <1>2 DEF Ends

\* And it tries every address of the range, its last one included, once and in
\* order, and no other; none if the range is written the wrong way round.
THEOREM ScanExact ==
    ASSUME NEW start \in IPv4, NEW end \in IPv4, end # Modulus - 1
    PROVE  RangeAddresses(start, end) = [i \in 1 .. (end - start) + 1 |-> start + (i - 1)]
  <1>1. start \in Nat /\ end \in Nat
    BY DEF IPv4
  <1>2. CASE start > end
    <2>1. 1 .. (end - start) + 1 = {}
      BY <1>1, <1>2
    <2>2. QED
      BY <1>2, <2>1 DEF RangeAddresses
  <1>3. CASE start <= end
    <2> DEFINE n == (end - start) + 1
               Stops(k) == ~GoesOn(start, end, k) /\ \A j \in 0 .. k - 1 : GoesOn(start, end, j)
    <2>1. n \in 0 .. Modulus /\ n \in Nat
      BY <1>1, <1>3, AfterEnd
    <2>2. ASSUME NEW j \in 0 .. n - 1
          PROVE  Current(start, j) = start + j /\ GoesOn(start, end, j)
      BY <1>1, <1>3, NoWrap
    <2>3. Stops(n)
      BY <1>3, <2>2, AfterEnd
    <2>4. ASSUME NEW k \in 0 .. Modulus, Stops(k)
          PROVE  k = n
      <3>1. ~(k < n)
        BY <2>1, <2>2, <2>4
      <3>2. ~(n < k)
        BY <2>1, <2>3, <2>4
      <3>3. QED
        BY <2>1, <3>1, <3>2, ModulusAssumption
    <2>5. Length(start, end) = n
      <3>1. Length(start, end) = CHOOSE k \in 0 .. Modulus : Stops(k)
        BY DEF Length
      <3> HIDE DEF Stops, n
      <3>2. QED
        BY <2>1, <2>3, <2>4, <3>1
    <2>6. RangeAddresses(start, end) = [i \in 1 .. n |-> Current(start, i - 1)]
      BY <1>1, <1>3, <2>5 DEF RangeAddresses
    <2>7. \A i \in 1 .. n : Current(start, i - 1) = start + (i - 1)
      BY <2>1, <2>2
    <2>8. QED
      BY <2>6, <2>7
  <1>4. QED
    BY <1>1, <1>2, <1>3
=============================================================================
