------------------------ MODULE PacketCodec_proofs -------------------------
(***************************************************************************)
(* Proofs about PacketCodec, for packets of any length: what ParsePacket   *)
(* returns lies within the bytes, and what it makes of the bytes that      *)
(* ToBytes wrote is the packet, whatever the order of the options.         *)
(*                                                                         *)
(* The provers take no induction over data.  They do take a set: one that  *)
(* has 0, and n + 1 with every n, has every number (InductiveSet), because *)
(* a least one outside would follow one inside.  So a fact about all steps *)
(* of a recursion is stated as a set of the steps it holds of.             *)
(***************************************************************************)
EXTENDS PacketCodec, SequenceTheorems, FiniteSetTheorems, WellFoundedInduction, TLAPS

LEMMA LeastNatural ==
    ASSUME NEW T, T \subseteq Nat, T # {}
    PROVE  \E x \in T : \A y \in T : x <= y
  <1> DEFINE R == OpToRel(<, Nat)
  <1>1. IsWellFoundedOn(R, Nat)
    BY NatLessThanWellFounded
  <1>2. ASSUME NEW x \in Nat, NEW y \in Nat, x < y PROVE <<x, y>> \in R
    BY <1>2 DEF OpToRel
  <1> HIDE DEF R
  <1>3. PICK x \in T : \A y \in T : ~(<<y, x>> \in R)
    BY <1>1, WFMin
  <1>4. ASSUME NEW y \in T PROVE x <= y
    <2>1. ~(y < x)
      BY <1>2, <1>3
    <2>2. x \in Nat /\ y \in Nat
      OBVIOUS
    <2>3. QED
      BY <2>1, <2>2
  <1>5. QED
    BY <1>4

LEMMA InductiveSet ==
    ASSUME NEW S, 0 \in S, \A n \in Nat : n \in S => n + 1 \in S
    PROVE  \A n \in Nat : n \in S
  <1> SUFFICES ASSUME NEW m \in Nat, m \notin S PROVE FALSE
    OBVIOUS
  <1> DEFINE T == Nat \ S
  <1>1. T \subseteq Nat /\ m \in T
    OBVIOUS
  <1>2. PICK x \in T : \A y \in T : x <= y
    BY <1>1, LeastNatural
  <1>3. x \in Nat /\ x # 0 /\ x \notin S
    OBVIOUS
  <1>4. x - 1 \in Nat /\ ~(x <= x - 1) /\ (x - 1) + 1 = x
    BY <1>3
  <1>5. x - 1 \in S
    BY <1>2, <1>4
  <1>6. QED
    BY <1>3, <1>4, <1>5

(***************************************************************************)
(* FlattenSeq.                                                             *)
(***************************************************************************)
\* The recursion of FlattenSeq has a solution: F[k] is the first k sequences, joined.
LEMMA FlattenDefined ==
    ASSUME NEW S, NEW seqs \in Seq(Seq(S)), Len(seqs) # 0
    PROVE  \E F : /\ F[1] = seqs[1]
                  /\ \A k \in 1 .. Len(seqs) - 1 : F[k + 1] = F[k] \o seqs[k + 1]
                  /\ FlattenSeq(seqs) = F[Len(seqs)]
  <1> DEFINE D == 1 .. Len(seqs)
             Eq(f, i) == f[i] = IF i = 1 THEN seqs[i] ELSE f[i - 1] \o seqs[i]
             Ok == {k \in Nat : k <= Len(seqs) =>
                       \E f : /\ f = [i \in D |-> f[i]]
                              /\ \A i \in 1 .. k : Eq(f, i)}
  <1>1. Len(seqs) \in Nat
    OBVIOUS
  <1>2. 0 \in Ok
    <2>1. [i \in D |-> 0] = [i \in D |-> [j \in D |-> 0][i]]
      OBVIOUS
    <2>2. \E f : f = [i \in D |-> f[i]] /\ \A i \in 1 .. 0 : Eq(f, i)
      BY <2>1, SMT
    <2>3. QED
      BY <2>2
  <1>3. ASSUME NEW k \in Nat, k \in Ok PROVE k + 1 \in Ok
    <2> SUFFICES ASSUME k + 1 <= Len(seqs)
                 PROVE  \E f : f = [i \in D |-> f[i]] /\ \A i \in 1 .. k + 1 : Eq(f, i)
      OBVIOUS
    <2>1. PICK f : f = [i \in D |-> f[i]] /\ \A i \in 1 .. k : Eq(f, i)
      BY <1>1, <1>3
    <2> DEFINE g == [i \in D |-> IF i = k + 1
                                 THEN IF i = 1 THEN seqs[i] ELSE f[i - 1] \o seqs[i]
                                 ELSE f[i]]
    <2>2. g = [i \in D |-> g[i]]
      OBVIOUS
    <2>3. ASSUME NEW i \in 1 .. k + 1 PROVE Eq(g, i)
      <3>1. CASE i = k + 1
        BY <3>1, <1>1
      <3>2. CASE i # k + 1
        <4>1. i \in 1 .. k /\ g[i] = f[i] /\ (i # 1 => g[i - 1] = f[i - 1])
          BY <3>2, <1>1
        <4>2. Eq(f, i)
          BY <2>1, <4>1
        <4>3. QED
          BY <4>1, <4>2
      <3>3. QED
        BY <3>1, <3>2
    <2> HIDE DEF g, Eq
    <2>4. QED
      BY <2>2, <2>3
  <1>4. Len(seqs) \in Ok
    <2> HIDE DEF Ok
    <2>1. QED
      BY <1>1, <1>2, <1>3, InductiveSet
  <1>5. PICK f : f = [i \in D |-> f[i]] /\ \A i \in D : Eq(f, i)
    BY <1>1, <1>4
  <1>6. f = [i \in D |-> IF i = 1 THEN seqs[i] ELSE f[i - 1] \o seqs[i]]
    BY <1>5
  <1> DEFINE flatten[i \in D] == IF i = 1 THEN seqs[i] ELSE flatten[i - 1] \o seqs[i]
  <1>7. flatten = [i \in D |-> IF i = 1 THEN seqs[i] ELSE flatten[i - 1] \o seqs[i]]
    BY <1>6, Zenon
  <1>8. FlattenSeq(seqs) = flatten[Len(seqs)]
    BY DEF FlattenSeq
  <1> HIDE DEF flatten
  <1>9. flatten[1] = seqs[1]
    <2>1. 1 \in D
      BY <1>1
    <2>2. QED
      BY <1>7, <2>1
  <1>10. ASSUME NEW k \in 1 .. Len(seqs) - 1
         PROVE  flatten[k + 1] = flatten[k] \o seqs[k + 1]
    <2>1. k + 1 \in D /\ k + 1 # 1 /\ (k + 1) - 1 = k
      BY <1>1
    <2>2. flatten[k + 1] = flatten[(k + 1) - 1] \o seqs[k + 1]
      BY <1>7, <2>1, Zenon
    <2>3. QED
      BY <2>1, <2>2, Zenon
  <1>11. QED
    BY <1>8, <1>9, <1>10

\* u is s with t behind it.
Joins(u, s, t, S) ==
    /\ u \in Seq(S) /\ Len(s) \in Nat /\ Len(t) \in Nat /\ Len(u) = Len(s) + Len(t)
    /\ Len(s) <= Len(u)
    /\ \A x \in 1 .. Len(s) : u[x] = s[x]
    /\ \A x \in 1 .. Len(t) : u[Len(s) + x] = t[x]

LEMMA JoinedTwo ==
    ASSUME NEW S, NEW s \in Seq(S), NEW t \in Seq(S)
    PROVE  Joins(s \o t, s, t, S)
  BY ConcatProperties DEF Joins

\* The N sequences lie in the joined one behind each other, the kth behind start[k].
Joint(joined, seqs, N, start, S) ==
    /\ start \in [1 .. N + 1 -> Nat] /\ start[1] = 0
    /\ joined \in Seq(S) /\ Len(joined) = start[N + 1]
    /\ \A k \in 1 .. N :
          /\ start[k + 1] = start[k] + Len(seqs[k])
          /\ start[k + 1] <= start[N + 1]
          /\ \A x \in 1 .. Len(seqs[k]) : joined[start[k] + x] = seqs[k][x]

LEMMA Flattened ==
    ASSUME NEW S, NEW seqs \in Seq(Seq(S))
    PROVE  \E start : Joint(FlattenSeq(seqs), seqs, Len(seqs), start, S)
  <1> DEFINE n == Len(seqs)
  <1>1. n \in Nat /\ \A k \in 1 .. n : seqs[k] \in Seq(S) /\ Len(seqs[k]) \in Nat
    OBVIOUS
  <1>2. CASE n = 0
    <2>1. FlattenSeq(seqs) = seqs /\ seqs = <<>>
      BY <1>2 DEF FlattenSeq
    <2>2. seqs \in Seq(S)
      BY <2>1
    <2> DEFINE start == [i \in 1 .. n + 1 |-> 0]
    <2>3. start \in [1 .. n + 1 -> Nat] /\ start[1] = 0 /\ start[n + 1] = 0
      BY <1>2
    <2> HIDE DEF start
    <2>4. Joint(FlattenSeq(seqs), seqs, n, start, S)
      BY <1>2, <2>1, <2>2, <2>3 DEF Joint
    <2>5. QED
      BY <2>4
  <1>3. CASE n # 0
    <2>1. PICK F : /\ F[1] = seqs[1]
                   /\ \A k \in 1 .. n - 1 : F[k + 1] = F[k] \o seqs[k + 1]
                   /\ FlattenSeq(seqs) = F[n]
      BY <1>3, FlattenDefined
    <2>2. F[1] = seqs[1] /\ \A k \in 1 .. n - 1 : F[k + 1] = F[k] \o seqs[k + 1]
      BY <2>1
    <2> DEFINE Joined == {k \in Nat : k \in 1 .. n => F[k] \in Seq(S)}
    <2>3. ASSUME NEW k \in Nat, k \in Joined PROVE k + 1 \in Joined
      <3>1. CASE k = 0
        BY <3>1, <1>1, <2>2
      <3>2. CASE k # 0 /\ k + 1 \in 1 .. n
        <4>1. F[k] \in Seq(S) /\ seqs[k + 1] \in Seq(S)
          BY <3>2, <2>3, <1>1
        <4>2. F[k + 1] = F[k] \o seqs[k + 1]
          <5>1. k \in 1 .. n - 1
            BY <3>2, <1>1
          <5>2. QED
            BY <5>1, <2>2, Zenon
        <4>3. Joins(F[k + 1], F[k], seqs[k + 1], S)
          BY <4>1, <4>2, JoinedTwo, Zenon
        <4>4. QED
          BY <4>3 DEF Joins
      <3>3. QED
        BY <3>1, <3>2
    <2>4. \A k \in 1 .. n : F[k] \in Seq(S)
      <3>1. 0 \in Joined
        OBVIOUS
      <3> HIDE DEF Joined
      <3>2. \A k \in Nat : k \in Joined
        BY <2>3, <3>1, InductiveSet
      <3>3. QED
        BY <3>2 DEF Joined
    <2> DEFINE start == [k \in 1 .. n + 1 |-> IF k = 1 THEN 0 ELSE Len(F[k - 1])]
    <2>5. start \in [1 .. n + 1 -> Nat]
      BY <1>1, <2>4
    <2>6. start[1] = 0 /\ \A k \in 1 .. n : start[k + 1] = Len(F[k])
      BY <1>1
    <2>7. ASSUME NEW k \in 1 .. n
          PROVE  /\ start[k + 1] = start[k] + Len(seqs[k])
                 /\ \A x \in 1 .. Len(seqs[k]) : F[k][start[k] + x] = seqs[k][x]
      <3>1. CASE k = 1
        BY <3>1, <2>2, <2>6, <1>1
      <3>2. CASE k # 1
        <4>1. k - 1 \in 1 .. n /\ (k - 1) + 1 = k
          BY <3>2, <1>1
        <4>2. start[k] = Len(F[k - 1]) /\ F[k - 1] \in Seq(S) /\ seqs[k] \in Seq(S)
          BY <4>1, <2>6, <2>4, <1>1
        <4>3. F[k] = F[k - 1] \o seqs[k]
          <5>1. k - 1 \in 1 .. n - 1
            BY <3>2, <1>1
          <5>2. F[(k - 1) + 1] = F[k - 1] \o seqs[(k - 1) + 1]
            BY <5>1, <2>2, Zenon
          <5>3. QED
            BY <5>2, <4>1, Zenon
        <4>4. start[k + 1] = Len(F[k])
          BY <2>6
        <4>5. Joins(F[k], F[k - 1], seqs[k], S)
          BY <4>2, <4>3, JoinedTwo, Zenon
        <4> HIDE DEF start
        <4>6. QED
          BY <4>2, <4>4, <4>5 DEF Joins
      <3>3. QED
        BY <3>1, <3>2
    <2>8. ASSUME NEW k \in 1 .. n - 1
          PROVE  /\ Len(F[k]) <= Len(F[k + 1])
                 /\ \A x \in 1 .. Len(F[k]) : F[k + 1][x] = F[k][x]
      <3>1. F[k] \in Seq(S) /\ seqs[k + 1] \in Seq(S)
        BY <2>4, <1>1
      <3>2. F[k + 1] = F[k] \o seqs[k + 1]
        BY <2>2, <1>1
      <3>3. Joins(F[k + 1], F[k], seqs[k + 1], S)
        BY <3>1, <3>2, JoinedTwo, Zenon
      <3>4. Len(F[k]) <= Len(F[k + 1])
        BY <3>3, Zenon DEF Joins
      <3>5. \A x \in 1 .. Len(F[k]) : F[k + 1][x] = F[k][x]
        BY <3>3, Zenon DEF Joins
      <3>6. QED
        BY <3>4, <3>5
    <2> DEFINE Begins(k, m) == /\ Len(F[k]) <= Len(F[m])
                               /\ \A x \in 1 .. Len(F[k]) : F[m][x] = F[k][x]
    <2>9. ASSUME NEW k \in 1 .. n PROVE Begins(k, n)
      <3> DEFINE Far == {d \in Nat : k + d <= n => Begins(k, k + d)}
      <3>1. Begins(k, k)
        BY <2>4
      <3>2. 0 \in Far
        BY <3>1, <1>1
      <3>3. ASSUME NEW d \in Nat, d \in Far PROVE d + 1 \in Far
        <4> SUFFICES ASSUME k + (d + 1) <= n PROVE Begins(k, k + (d + 1))
          OBVIOUS
        <4> DEFINE m == k + d
        <4>1. m \in 1 .. n - 1 /\ k + (d + 1) = m + 1 /\ m <= n
          BY <1>1
        <4>2. Begins(k, m)
          BY <3>3, <4>1
        <4>3. F[k] \in Seq(S) /\ F[m] \in Seq(S) /\ F[m + 1] \in Seq(S)
          BY <2>4, <4>1, <1>1
        <4> HIDE DEF m
        <4>4. /\ Len(F[m]) <= Len(F[m + 1])
              /\ \A x \in 1 .. Len(F[m]) : F[m + 1][x] = F[m][x]
          BY <4>1, <2>8
        <4>5. Len(F[k]) \in Nat /\ Len(F[m]) \in Nat /\ Len(F[m + 1]) \in Nat
          BY <4>3
        <4>6. Begins(k, m + 1)
          BY <4>2, <4>4, <4>5
        <4>7. QED
          BY <4>1, <4>6
      <3> HIDE DEF Far, Begins
      <3>4. \A d \in Nat : d \in Far
        BY <3>2, <3>3, InductiveSet
      <3>5. k + (n - k) = n /\ n - k \in Nat /\ n <= n
        BY <1>1
      <3>6. QED
        BY <3>4, <3>5 DEF Far
    <2>10. ASSUME NEW k \in 1 .. n
           PROVE  /\ start[k + 1] = start[k] + Len(seqs[k])
                  /\ start[k + 1] <= start[n + 1]
                  /\ \A x \in 1 .. Len(seqs[k]) : F[n][start[k] + x] = seqs[k][x]
      <3>1. start[k + 1] = Len(F[k]) /\ start[n + 1] = Len(F[n]) /\ start[k] \in Nat
        BY <1>1, <1>3, <2>5, <2>6
      <3> HIDE DEF start
      <3>2. \A x \in 1 .. Len(seqs[k]) : start[k] + x \in 1 .. Len(F[k])
        BY <3>1, <2>7, <1>1
      <3>3. QED
        BY <3>1, <3>2, <2>7, <2>9
    <2>11. Len(F[n]) = start[n + 1] /\ F[n] \in Seq(S)
      BY <2>4, <2>6, <1>1, <1>3
    <2> HIDE DEF start
    <2>12. Joint(F[n], seqs, n, start, S)
      BY <2>5, <2>6, <2>10, <2>11 DEF Joint
    <2>13. QED
      BY <2>1, <2>12
  <1>4. QED
    BY <1>2, <1>3

(***************************************************************************)
(* Options: the recursion of Options, and what is made of the places it    *)
(* visits.                                                                 *)
(***************************************************************************)
WalkStep(from, data, i) ==
    IF i > Len(data) \/ data[i] = OptionEnd THEN {}
    ELSE {i} \cup CASE data[i] = OptionPad -> from[i + 1]
                    [] data[i] # OptionPad /\ Fits(data, i) -> from[i + 2 + data[i + 1]]
                    [] OTHER -> {}

\* The recursion of Options, solved.
Walks(from, data) == \A i \in Nat : from[i] = WalkStep(from, data, i)

Found(data, visited) ==
    {i \in DOMAIN data : i \in visited /\ data[i] # OptionPad /\ Fits(data, i)}

LastOnes(data, found) == {i \in found : \A j \in found : data[j] = data[i] => j <= i}

OptionsAmong(data, last) ==
    [code \in {data[i] : i \in last} |->
        LET i == CHOOSE i \in last : data[i] = code
        IN  Place(i + 2, data[i + 1])]

LEMMA Bytes == Byte \subseteq Nat /\ \A n \in Nat : n < 256 => n \in Byte
  BY DEF Byte

\* A step looks at places further on only.
LEMMA WalkOnward ==
    ASSUME NEW data \in Seq(Byte), NEW i \in Nat, NEW f, NEW g,
           \A j \in Nat : j > i => f[j] = g[j]
    PROVE  WalkStep(f, data, i) = WalkStep(g, data, i)
  <1>1. f[i + 1] = g[i + 1]
    OBVIOUS
  <1>2. ASSUME Fits(data, i) PROVE f[i + 2 + data[i + 1]] = g[i + 2 + data[i + 1]]
    <2>1. i + 1 \in DOMAIN data
      BY <1>2 DEF Fits
    <2>2. data[i + 1] \in Byte
      BY <2>1
    <2>3. \A d \in Nat : i + 2 + d \in Nat /\ i + 2 + d > i
      OBVIOUS
    <2>4. data[i + 1] \in Nat
      BY <2>2, Bytes
    <2>5. QED
      BY <2>3, <2>4
  <1>3. QED
    BY <1>1, <1>2 DEF WalkStep

\* So parseOptions comes to an end, and the recursion has a solution.
LEMMA WalkDefined ==
    ASSUME NEW data \in Seq(Byte)
    PROVE  \E from : /\ Walks(from, data)
                     /\ Options(data) =
                           OptionsAmong(data, LastOnes(data, Found(data, from[OptionsAt])))
  <1> DEFINE n == Len(data)
             Solves(f, i) == f[i] = WalkStep(f, data, i)
             Ok == {k \in Nat : \E f : /\ f = [i \in Nat |-> f[i]]
                                       /\ \A i \in Nat : i + k > n => Solves(f, i)}
  <1>1. n \in Nat
    OBVIOUS
  <1>2. 0 \in Ok
    <2> DEFINE f == [i \in Nat |-> {}]
    <2>1. f = [i \in Nat |-> f[i]]
      OBVIOUS
    <2>2. ASSUME NEW i \in Nat, i > n PROVE Solves(f, i)
      BY <2>2 DEF WalkStep
    <2> HIDE DEF f, Solves
    <2>3. QED
      BY <2>1, <2>2
  <1>3. ASSUME NEW k \in Nat, k \in Ok PROVE k + 1 \in Ok
    <2>1. PICK f : f = [i \in Nat |-> f[i]] /\ \A i \in Nat : i + k > n => Solves(f, i)
      BY <1>3
    <2> DEFINE g == [i \in Nat |-> IF i + k > n THEN f[i] ELSE WalkStep(f, data, i)]
    <2>2. g = [i \in Nat |-> g[i]]
      OBVIOUS
    <2>3. ASSUME NEW i \in Nat, i + (k + 1) > n PROVE Solves(g, i)
      <3>1. g[i] = WalkStep(f, data, i)
        BY <2>1
      <3>2. \A j \in Nat : j > i => f[j] = g[j]
        BY <1>1, <2>3
      <3> HIDE DEF g
      <3>3. QED
        BY <3>1, <3>2, WalkOnward
    <2> HIDE DEF g, Solves
    <2>4. QED
      BY <2>2, <2>3
  <1>4. n + 1 \in Ok
    <2> HIDE DEF Ok
    <2>1. QED
      BY <1>1, <1>2, <1>3, InductiveSet
  <1>5. PICK f : f = [i \in Nat |-> f[i]] /\ \A i \in Nat : Solves(f, i)
    <2>1. \A i \in Nat : i + (n + 1) > n
      BY <1>1
    <2> HIDE DEF Solves
    <2>2. QED
      BY <1>4, <2>1
  <1>6. f = [i \in Nat |-> WalkStep(f, data, i)]
    BY <1>5
  <1> DEFINE from[i \in Nat] == WalkStep(from, data, i)
  <1>7. from = [i \in Nat |-> WalkStep(from, data, i)]
    BY <1>6, Zenon
  <1>8. Options(data) = OptionsAmong(data, LastOnes(data, Found(data, from[OptionsAt])))
    BY DEF Options, OptionsAmong, LastOnes, Found, WalkStep
  <1> HIDE DEF from
  <1>9. Walks(from, data)
    BY <1>7 DEF Walks
  <1>10. QED
    BY <1>8, <1>9

(***************************************************************************)
(* ToBytes: where everything lies in the bytes of a packet.  Option k of   *)
(* the order, with N of them, begins at p[k], and the end option is at     *)
(* p[N + 1].                                                               *)
(***************************************************************************)
\* At q, bytes has an option of code c whose value is the first l bytes of v.
OptionIn(bytes, q, c, v, l) ==
    /\ bytes[q] = c /\ bytes[q + 1] = l
    /\ \A x \in 1 .. l : bytes[q + 1 + x] = v[x]

LaidOut(bytes, packet, order, N, p) ==
    /\ bytes \in Seq(Byte) /\ Len(bytes) \in Nat
    /\ Len(bytes) > HeaderLen + 1 /\ bytes[HeaderLen + 1] = MagicCookie
    /\ bytes[1] = packet.flags /\ bytes[2] = packet.ciaddr /\ bytes[3] = packet.yiaddr
    /\ bytes[4] = packet.giaddr /\ bytes[5] = packet.chaddr
    /\ p[1] = OptionsAt
    /\ p[N + 1] <= Len(bytes) /\ bytes[p[N + 1]] = OptionEnd
    /\ \A k \in 1 .. N :
          /\ p[k + 1] = p[k] + 2 + Len(packet.options[order[k]])
          /\ p[k + 1] <= Len(bytes)
          /\ OptionIn(bytes, p[k], order[k], packet.options[order[k]],
                      Len(packet.options[order[k]]))

\* order has every element of D once.
Enumerates(order, N, D) ==
    /\ order \in [1 .. N -> D]
    /\ \A i, j \in 1 .. N : i # j => order[i] # order[j]
    /\ \A c \in D : \E k \in 1 .. N : order[k] = c

LEMMA OrderOnto ==
    ASSUME NEW D, IsFiniteSet(D), NEW order \in SetToSeqs(D)
    PROVE  \E N \in Nat : Enumerates(order, N, D)
  <1> DEFINE N == Cardinality(D)
  <1>1. N \in Nat
    BY FS_CardinalityType
  <1>2. order \in [1 .. N -> D] /\ \A i, j \in 1 .. N : i # j => order[i] # order[j]
    BY DEF SetToSeqs
  <1>3. order \in Injection(1 .. N, D)
    BY <1>2 DEF Injection, IsInjective
  <1>4. IsFiniteSet(1 .. N) /\ Cardinality(1 .. N) = N
    BY <1>1, FS_Interval
  <1>5. order \in Surjection(1 .. N, D)
    BY <1>3, <1>4, FS_Injection
  <1>6. \A c \in D : \E i \in 1 .. N : order[i] = c
    BY <1>5 DEF Surjection
  <1>7. Enumerates(order, N, D)
    BY <1>2, <1>6 DEF Enumerates
  <1>8. QED
    BY <1>1, <1>7

LEMMA OptionWritten ==
    ASSUME NEW c \in Byte, NEW v \in Seq(Byte), Len(v) < 256
    PROVE  /\ OptionBytes(c, v) \in Seq(Byte)
           /\ Len(OptionBytes(c, v)) = 2 + Len(v)
           /\ OptionIn(OptionBytes(c, v), 1, c, v, Len(v))
  <1> DEFINE head == <<c, Len(v) % 256>>
  <1>1. Len(v) \in Nat /\ Len(v) % 256 = Len(v) /\ Len(v) \in Byte
    <2>1. Len(v) \in Nat
      OBVIOUS
    <2>2. Len(v) \in Byte
      BY <2>1, Bytes
    <2>3. \A n \in Nat : n < 256 => n % 256 = n
      OBVIOUS
    <2>4. QED
      BY <2>1, <2>2, <2>3
  <1>2. head \in Seq(Byte) /\ Len(head) = 2 /\ head[1] = c /\ head[2] = Len(v)
    BY <1>1
  <1> HIDE DEF head
  <1>3. Joins(head \o v, head, v, Byte)
    BY <1>2, JoinedTwo
  <1>4. OptionBytes(c, v) = head \o v
    BY DEF OptionBytes, head
  <1> DEFINE u == head \o v
  <1>5. /\ u \in Seq(Byte) /\ Len(u) = 2 + Len(v) /\ u[1] = c /\ u[2] = Len(v)
        /\ \A x \in 1 .. Len(v) : u[2 + x] = v[x]
    BY <1>1, <1>2, <1>3 DEF Joins
  <1> HIDE DEF u
  <1>6. 1 + 1 = 2
    OBVIOUS
  <1>7. OptionIn(u, 1, c, v, Len(v))
    BY <1>5, <1>6 DEF OptionIn
  <1>8. QED
    BY <1>4, <1>5, <1>7 DEF u

LEMMA Padded ==
    ASSUME NEW bytes \in Seq(Byte)
    PROVE  /\ Pad(bytes) \in Seq(Byte) /\ Len(Pad(bytes)) >= Len(bytes)
           /\ \A x \in 1 .. Len(bytes) : Pad(bytes)[x] = bytes[x]
  <1>1. CASE Len(bytes) >= MinLen
    BY <1>1 DEF Pad
  <1>2. CASE ~(Len(bytes) >= MinLen)
    <2> DEFINE zeros == [i \in 1 .. MinLen - Len(bytes) |-> 0]
    <2>1. MinLen - Len(bytes) \in Nat /\ 0 \in Byte
      BY <1>2, MinLenAssumption DEF Byte
    <2>2. zeros \in Seq(Byte)
      BY <2>1
    <2> HIDE DEF zeros
    <2>3. Joins(bytes \o zeros, bytes, zeros, Byte)
      BY <2>2, JoinedTwo
    <2>4. Pad(bytes) = bytes \o zeros
      BY <1>2 DEF Pad, zeros
    <2>5. QED
      BY <2>3, <2>4 DEF Joins
  <1>3. QED
    BY <1>1, <1>2

\* The first e bytes of body are behind d others in bytes.
Copied(bytes, d, body, e) == \A x \in 1 .. e : bytes[d + x] = body[x]

\* A piece of the body is an option; it is one in the packet.
LEMMA Shifted ==
    ASSUME NEW bytes, NEW body, NEW piece, NEW v, NEW c,
           NEW a \in Nat, NEW e \in Nat, NEW l \in Nat, a + 2 + l <= e,
           Copied(bytes, 6, body, e), Copied(body, a, piece, 2 + l),
           OptionIn(piece, 1, c, v, l)
    PROVE  OptionIn(bytes, 6 + a + 1, c, v, l)
  <1>1. ASSUME NEW x \in 1 .. 2 + l PROVE bytes[6 + a + x] = piece[x]
    <2>1. a + x \in 1 .. e /\ 6 + (a + x) = 6 + a + x
      OBVIOUS
    <2>2. bytes[6 + (a + x)] = body[a + x] /\ body[a + x] = piece[x]
      BY <2>1 DEF Copied
    <2>3. QED
      BY <2>1, <2>2
  <1>2. 1 \in 1 .. 2 + l /\ 2 \in 1 .. 2 + l /\ (6 + a + 1) + 1 = 6 + a + 2
    OBVIOUS
  <1>3. ASSUME NEW x \in 1 .. l PROVE bytes[(6 + a + 1) + 1 + x] = v[x]
    <2>1. 2 + x \in 1 .. 2 + l /\ (6 + a + 1) + 1 + x = 6 + a + (2 + x)
      OBVIOUS
    <2>2. 1 + 1 + x = 2 + x
      OBVIOUS
    <2>3. piece[2 + x] = v[x]
      BY <2>2 DEF OptionIn
    <2>4. QED
      BY <1>1, <2>1, <2>3
  <1>4. piece[1] = c /\ piece[2] = l
    BY DEF OptionIn
  <1>5. QED
    BY <1>1, <1>2, <1>3, <1>4 DEF OptionIn

LEMMA Written ==
    ASSUME NEW packet, Writable(packet),
           NEW N \in Nat, NEW order \in [1 .. N -> DOMAIN packet.options]
    PROVE  \E p \in [1 .. N + 1 -> Nat] :
              LaidOut(ToBytesInOrder(packet, order), packet, order, N, p)
  <1> DEFINE value == [k \in 1 .. N |-> packet.options[order[k]]]
             seqs == [i \in DOMAIN order |-> OptionBytes(order[i], packet.options[order[i]])]
             header == <<packet.flags, packet.ciaddr, packet.yiaddr, packet.giaddr,
                         packet.chaddr, MagicCookie>>
             body == FlattenSeq(seqs)
             end == <<OptionEnd>>
             bytes == ToBytesInOrder(packet, order)
  <1>1. ASSUME NEW k \in 1 .. N
        PROVE  /\ order[k] \in Byte /\ value[k] \in Seq(Byte) /\ Len(value[k]) < 256
               /\ Len(value[k]) \in Nat
    BY DEF Writable
  <1>2. ASSUME NEW k \in 1 .. N
        PROVE  /\ seqs[k] \in Seq(Byte) /\ Len(seqs[k]) = 2 + Len(value[k])
               /\ OptionIn(seqs[k], 1, order[k], value[k], Len(value[k]))
    <2>1. seqs[k] = OptionBytes(order[k], value[k])
      OBVIOUS
    <2> HIDE DEF seqs, value
    <2>2. QED
      BY <1>1, <2>1, OptionWritten
  <1>3. seqs \in Seq(Seq(Byte)) /\ Len(seqs) = N
    <2>1. seqs = [i \in 1 .. N |-> seqs[i]]
      OBVIOUS
    <2>2. \A i \in 1 .. N : seqs[i] \in Seq(Byte)
      BY <1>2
    <2> HIDE DEF seqs
    <2>3. seqs \in [1 .. N -> Seq(Byte)]
      BY <2>1, <2>2
    <2>4. QED
      BY <2>3
  <1>4. header \in Seq(Byte) /\ Len(header) = 6 /\ end \in Seq(Byte) /\ Len(end) = 1
    BY DEF Writable, MagicCookie, OptionEnd, Byte
  <1>5. bytes = Pad((header \o body) \o end)
    BY DEF ToBytesInOrder
  <1>6. /\ header[1] = packet.flags /\ header[2] = packet.ciaddr
        /\ header[3] = packet.yiaddr /\ header[4] = packet.giaddr
        /\ header[5] = packet.chaddr
        /\ header[6] = MagicCookie /\ end[1] = OptionEnd
    OBVIOUS
  <1> HIDE DEF seqs, header, end, bytes
  <1>7a. PICK start : Joint(body, seqs, N, start, Byte)
    BY <1>3, Flattened
  <1> HIDE DEF body
  <1>7. /\ start \in [1 .. N + 1 -> Nat] /\ start[1] = 0 /\ start[N + 1] \in Nat
        /\ body \in Seq(Byte) /\ Len(body) = start[N + 1]
        /\ \A k \in 1 .. N :
              /\ start[k] \in Nat /\ start[k + 1] \in Nat
              /\ start[k + 1] = start[k] + Len(seqs[k])
              /\ start[k + 1] <= start[N + 1]
              /\ \A x \in 1 .. Len(seqs[k]) : body[start[k] + x] = seqs[k][x]
    BY <1>7a DEF Joint
  <1>8. Joins(header \o body, header, body, Byte)
    BY <1>4, <1>7, JoinedTwo
  <1>9. Joins((header \o body) \o end, header \o body, end, Byte)
    <2>1. header \o body \in Seq(Byte)
      BY <1>8 DEF Joins
    <2>2. QED
      BY <1>4, <2>1, JoinedTwo, Zenon
  <1>10. /\ bytes \in Seq(Byte) /\ Len(bytes) \in Nat
         /\ Len(bytes) >= 6 + start[N + 1] + 1
         /\ \A x \in 1 .. 6 : bytes[x] = header[x]
         /\ \A x \in 1 .. start[N + 1] : bytes[6 + x] = body[x]
         /\ bytes[6 + start[N + 1] + 1] = OptionEnd
    <2> DEFINE s == header \o body
               u == s \o end
    <2>1. /\ s \in Seq(Byte) /\ Len(s) = 6 + start[N + 1] /\ start[N + 1] \in Nat
          /\ \A x \in 1 .. 6 : s[x] = header[x]
          /\ \A x \in 1 .. start[N + 1] : s[6 + x] = body[x]
      BY <1>4, <1>7, <1>8 DEF Joins
    <2>2. /\ u \in Seq(Byte) /\ Len(u) = Len(s) + 1
          /\ \A x \in 1 .. Len(s) : u[x] = s[x]
          /\ u[Len(s) + 1] = OptionEnd
      BY <1>4, <1>6, <1>9 DEF Joins
    <2> HIDE DEF s, u
    <2>3. bytes = Pad(u)
      BY <1>5 DEF s, u
    <2>4. /\ bytes \in Seq(Byte) /\ Len(bytes) \in Nat /\ Len(bytes) >= Len(u)
          /\ \A x \in 1 .. Len(u) : bytes[x] = u[x]
      BY <2>2, <2>3, Padded
    <2>5. \A x \in 1 .. Len(s) : bytes[x] = s[x]
      BY <2>1, <2>2, <2>4
    <2>6. PICK e \in Nat : e = start[N + 1]
      BY <1>7
    <2>7. /\ Len(bytes) >= 6 + e + 1
          /\ \A x \in 1 .. 6 : bytes[x] = header[x]
          /\ \A x \in 1 .. e : bytes[6 + x] = body[x]
          /\ bytes[6 + e + 1] = OptionEnd
      <3>1. Len(s) = 6 + e /\ Len(u) = 6 + e + 1 /\ 6 + e + 1 \in 1 .. Len(u)
        BY <2>1, <2>2, <2>6, SMTT(30)
      <3>2. ASSUME NEW x \in 1 .. e PROVE bytes[6 + x] = body[x]
        <4>1. 6 + x \in 1 .. Len(s)
          BY <3>1
        <4>2. x \in 1 .. start[N + 1]
          BY <2>6
        <4>3. s[6 + x] = body[x] /\ bytes[6 + x] = s[6 + x]
          BY <2>1, <2>5, <4>1, <4>2, Zenon
        <4>4. QED
          BY <4>3
      <3>3. ASSUME NEW x \in 1 .. 6 PROVE bytes[x] = header[x]
        <4>1. x \in 1 .. Len(s)
          BY <3>1
        <4>2. QED
          BY <2>1, <2>5, <4>1
      <3>4. bytes[6 + e + 1] = OptionEnd
        <4>1. u[6 + e + 1] = OptionEnd
          BY <2>2, <3>1
        <4>2. QED
          BY <2>4, <3>1, <4>1
      <3>5. Len(bytes) >= 6 + e + 1
        BY <2>4, <3>1
      <3>6. QED
        BY <3>2, <3>3, <3>4, <3>5
    <2>8. QED
      BY <2>4, <2>6, <2>7
  <1> DEFINE p == [k \in 1 .. N + 1 |-> 6 + start[k] + 1]
  <1>11. p \in [1 .. N + 1 -> Nat] /\ \A k \in 1 .. N + 1 : p[k] = 6 + start[k] + 1
    BY <1>7
  <1> HIDE DEF p
  <1>12. /\ p[1] = OptionsAt /\ p[N + 1] <= Len(bytes) /\ bytes[p[N + 1]] = OptionEnd
    BY <1>7, <1>10, <1>11 DEF OptionsAt, HeaderLen
  <1>13. ASSUME NEW k \in 1 .. N
         PROVE  /\ p[k + 1] = p[k] + 2 + Len(value[k])
                /\ p[k + 1] <= Len(bytes)
                /\ OptionIn(bytes, p[k], order[k], value[k], Len(value[k]))
    <2> HIDE DEF value
    <2>1. PICK a \in Nat, b \in Nat, e \in Nat, l \in Nat :
              a = start[k] /\ b = start[k + 1] /\ e = start[N + 1] /\ l = Len(value[k])
      BY <1>1, <1>7
    <2>2. Len(seqs[k]) = 2 + l /\ b = a + (2 + l) /\ b <= e
      BY <1>2, <1>7, <2>1
    <2>3. p[k] = 6 + a + 1 /\ p[k + 1] = 6 + b + 1
      <3>1. k \in 1 .. N + 1 /\ k + 1 \in 1 .. N + 1
        OBVIOUS
      <3>2. p[k] = 6 + start[k] + 1 /\ p[k + 1] = 6 + start[k + 1] + 1
        BY <1>11, <3>1, Zenon
      <3>3. QED
        BY <2>1, <3>2
    <2>4. p[k + 1] = p[k] + 2 + l /\ p[k + 1] <= 6 + e + 1 /\ p[k + 1] \in Nat
      BY <2>2, <2>3
    <2>5. Copied(body, a, seqs[k], 2 + l)
      BY <1>7, <2>1, <2>2 DEF Copied
    <2>6. Copied(bytes, 6, body, e) /\ 6 + e + 1 <= Len(bytes) /\ Len(bytes) \in Nat
      BY <1>10, <2>1 DEF Copied
    <2>7. OptionIn(seqs[k], 1, order[k], value[k], l)
      BY <1>2, <2>1
    <2>8. OptionIn(bytes, p[k], order[k], value[k], l)
      <3>1. a + 2 + l <= e
        BY <2>2
      <3>2. QED
        BY <2>3, <2>5, <2>6, <2>7, <3>1, Shifted
    <2>9. p[k + 1] <= Len(bytes)
      BY <2>4, <2>6
    <2>10. QED
      BY <2>1, <2>4, <2>8, <2>9
  <1>14. /\ Len(bytes) > HeaderLen + 1 /\ bytes[HeaderLen + 1] = MagicCookie
         /\ bytes[1] = packet.flags /\ bytes[2] = packet.ciaddr
         /\ bytes[3] = packet.yiaddr /\ bytes[4] = packet.giaddr
         /\ bytes[5] = packet.chaddr
    BY <1>6, <1>7, <1>10 DEF HeaderLen
  <1>15. LaidOut(bytes, packet, order, N, p)
    BY <1>10, <1>12, <1>13, <1>14 DEF LaidOut
  <1>16. QED
    BY <1>11, <1>15 DEF bytes

(***************************************************************************)
(* parseOptions, on the bytes that ToBytes wrote.                          *)
(***************************************************************************)
\* The walk goes from one option to the next, and ends at the end option.
LEMMA WalkThrough ==
    ASSUME NEW packet, Writable(packet),
           NEW N \in Nat, NEW order \in [1 .. N -> DOMAIN packet.options],
           NEW bytes, NEW p \in [1 .. N + 1 -> Nat], LaidOut(bytes, packet, order, N, p),
           NEW from, Walks(from, bytes)
    PROVE  /\ from[OptionsAt] = {p[k] : k \in 1 .. N}
           /\ \A k \in 1 .. N : /\ p[k] \in DOMAIN bytes
                                /\ bytes[p[k]] # OptionPad /\ Fits(bytes, p[k])
  <1> DEFINE value == [k \in 1 .. N |-> packet.options[order[k]]]
  <1>1. ASSUME NEW k \in 1 .. N
        PROVE  /\ order[k] # OptionPad /\ order[k] # OptionEnd
               /\ Len(value[k]) \in Nat
    BY DEF Writable
  <1>2. ASSUME NEW k \in 1 .. N
        PROVE  /\ p[k] \in Nat /\ p[k + 1] \in Nat /\ Len(bytes) \in Nat
               /\ p[k + 1] = p[k] + 2 + Len(value[k]) /\ p[k + 1] <= Len(bytes)
               /\ bytes[p[k]] = order[k] /\ bytes[p[k] + 1] = Len(value[k])
    <2>1. k + 1 \in 1 .. N + 1 /\ k \in 1 .. N + 1
      OBVIOUS
    <2>2. OptionIn(bytes, p[k], order[k], value[k], Len(value[k]))
      BY DEF LaidOut
    <2>3. /\ Len(bytes) \in Nat
          /\ p[k + 1] = p[k] + 2 + Len(value[k]) /\ p[k + 1] <= Len(bytes)
      BY DEF LaidOut
    <2> HIDE DEF value
    <2>4. QED
      BY <2>1, <2>2, <2>3 DEF OptionIn
  <1> HIDE DEF value
  <1>3. ASSUME NEW k \in 1 .. N
        PROVE  /\ p[k] >= 1 /\ p[k] < Len(bytes)
               /\ p[k] + 2 + bytes[p[k] + 1] = p[k + 1] /\ Fits(bytes, p[k])
    <2>1. PICK a \in Nat, b \in Nat, n \in Nat, l \in Nat :
             a = p[k] /\ b = p[k + 1] /\ n = Len(bytes) /\ l = Len(value[k])
      BY <1>1, <1>2
    <2>2. b = a + 2 + l /\ b <= n /\ bytes[a + 1] = l
      BY <1>2, <2>1
    <2>3. a < n /\ a + 2 + bytes[a + 1] = b /\ a + 1 + bytes[a + 1] <= n
      BY <2>2
    <2>4. a >= 1
      <3> DEFINE Behind == {d \in Nat : d + 1 \in 1 .. N => p[d + 1] >= 1}
      <3>1. 0 \in Behind
        BY DEF LaidOut, OptionsAt, HeaderLen
      <3>2. ASSUME NEW d \in Nat, d \in Behind PROVE d + 1 \in Behind
        <4> SUFFICES ASSUME (d + 1) + 1 \in 1 .. N PROVE p[(d + 1) + 1] >= 1
          OBVIOUS
        <4>1. d + 1 \in 1 .. N /\ p[d + 1] >= 1
          BY <3>2
        <4>2. p[(d + 1) + 1] = p[d + 1] + 2 + Len(value[d + 1])
          BY <1>2, <4>1
        <4>3. p[d + 1] \in Nat /\ Len(value[d + 1]) \in Nat
          BY <1>1, <1>2, <4>1
        <4>4. QED
          BY <4>1, <4>2, <4>3
      <3> HIDE DEF Behind
      <3>3. \A d \in Nat : d \in Behind
        BY <3>1, <3>2, InductiveSet
      <3>4. k - 1 \in Nat /\ (k - 1) + 1 = k
        OBVIOUS
      <3>5. QED
        BY <2>1, <3>3, <3>4 DEF Behind
    <2>5. Fits(bytes, a)
      BY <2>1, <2>3 DEF Fits
    <2>6. QED
      BY <2>1, <2>3, <2>4, <2>5
  <1>4. ASSUME NEW k \in 1 .. N PROVE from[p[k]] = {p[k]} \cup from[p[k + 1]]
    <2>1. /\ ~(p[k] > Len(bytes)) /\ bytes[p[k]] # OptionEnd /\ bytes[p[k]] # OptionPad
      <3>1. bytes[p[k]] # OptionEnd /\ bytes[p[k]] # OptionPad
        BY <1>1, <1>2, Zenon
      <3>2. PICK a \in Nat, l \in Nat : a = p[k] /\ l = Len(bytes) /\ a < l
        BY <1>2, <1>3, Zenon
      <3>3. ~(a > l)
        BY <3>2
      <3>4. QED
        BY <3>1, <3>2, <3>3, Zenon
    <2>2. WalkStep(from, bytes, p[k]) = {p[k]} \cup from[p[k] + 2 + bytes[p[k] + 1]]
      BY <1>3, <2>1 DEF WalkStep
    <2>3. from[p[k]] = WalkStep(from, bytes, p[k])
      BY <1>2 DEF Walks
    <2>4. QED
      BY <1>3, <2>2, <2>3
  <1>5. from[p[N + 1]] = {}
    <2>1. N + 1 \in 1 .. N + 1 /\ bytes[p[N + 1]] = OptionEnd
      BY DEF LaidOut
    <2>2. from[p[N + 1]] = WalkStep(from, bytes, p[N + 1])
      BY <2>1 DEF Walks
    <2>3. QED
      BY <2>1, <2>2 DEF WalkStep
  <1> DEFINE Done(m) == from[p[m]] = {p[j] : j \in m .. N}
             Ok == {d \in Nat : d <= N => Done(N + 1 - d)}
  <1>6. 0 \in Ok
    <2>1. Done(N + 1)
      BY <1>5
    <2>2. N + 1 - 0 = N + 1
      OBVIOUS
    <2> HIDE DEF Done
    <2>3. QED
      BY <2>1, <2>2
  <1>7. ASSUME NEW d \in Nat, d \in Ok PROVE d + 1 \in Ok
    <2> SUFFICES ASSUME d + 1 <= N PROVE Done(N + 1 - (d + 1))
      OBVIOUS
    <2>1. PICK m \in 1 .. N : m = N + 1 - (d + 1) /\ m + 1 = N + 1 - d
      OBVIOUS
    <2>2. from[p[m + 1]] = {p[j] : j \in (m + 1) .. N}
      BY <1>7, <2>1
    <2>3. m .. N = {m} \cup ((m + 1) .. N)
      OBVIOUS
    <2>4. {p[j] : j \in m .. N} = {p[m]} \cup {p[j] : j \in (m + 1) .. N}
      BY <2>3
    <2>5. Done(m)
      BY <1>4, <2>2, <2>4
    <2>6. QED
      BY <2>1, <2>5
  <1>8. from[p[1]] = {p[k] : k \in 1 .. N}
    <2> HIDE DEF Ok, Done
    <2>1. N \in Ok
      BY <1>6, <1>7, InductiveSet
    <2>2. N + 1 - N = 1
      OBVIOUS
    <2>3. Done(1)
      BY <2>1, <2>2 DEF Ok
    <2>4. QED
      BY <2>3 DEF Done
  <1>9. \A k \in 1 .. N : p[k] \in DOMAIN bytes
    <2>1. DOMAIN bytes = 1 .. Len(bytes)
      BY DEF LaidOut
    <2>2. QED
      BY <1>2, <1>3, <2>1
  <1>10. p[1] = OptionsAt
    BY DEF LaidOut
  <1>11. QED
    BY <1>1, <1>2, <1>3, <1>8, <1>9, <1>10

\* Every option is found, at the place where it was written.
OptionsFound(options, packet, order, N, p) ==
    /\ DOMAIN options = DOMAIN packet.options
    /\ \A k \in 1 .. N : options[order[k]] = Place(p[k] + 2, Len(packet.options[order[k]]))

LEMMA OptionsRead ==
    ASSUME NEW packet, Writable(packet),
           NEW N \in Nat, NEW order, Enumerates(order, N, DOMAIN packet.options),
           NEW bytes, NEW p \in [1 .. N + 1 -> Nat], LaidOut(bytes, packet, order, N, p)
    PROVE  OptionsFound(Options(bytes), packet, order, N, p)
  <1>0. /\ order \in [1 .. N -> DOMAIN packet.options]
        /\ \A i, j \in 1 .. N : i # j => order[i] # order[j]
        /\ \A c \in DOMAIN packet.options : \E k \in 1 .. N : order[k] = c
    BY DEF Enumerates
  <1>1. bytes \in Seq(Byte)
    BY DEF LaidOut
  <1>2. PICK from : /\ Walks(from, bytes)
                    /\ Options(bytes) =
                          OptionsAmong(bytes, LastOnes(bytes, Found(bytes, from[OptionsAt])))
    BY <1>1, WalkDefined
  <1>3. /\ from[OptionsAt] = {p[k] : k \in 1 .. N}
        /\ \A k \in 1 .. N : /\ p[k] \in DOMAIN bytes
                             /\ bytes[p[k]] # OptionPad /\ Fits(bytes, p[k])
    BY <1>0, <1>2, WalkThrough, Zenon
  <1> DEFINE places == {p[k] : k \in 1 .. N}
  <1>4. Found(bytes, from[OptionsAt]) = places
    BY <1>3 DEF Found
  <1>5. ASSUME NEW k \in 1 .. N
        PROVE  /\ bytes[p[k]] = order[k]
               /\ bytes[p[k] + 1] = Len(packet.options[order[k]])
    BY DEF LaidOut, OptionIn
  <1>6. ASSUME NEW k \in 1 .. N, NEW m \in 1 .. N, bytes[p[k]] = bytes[p[m]]
        PROVE  k = m
    BY <1>0, <1>5, <1>6
  <1>7. LastOnes(bytes, places) = places
    <2>1. ASSUME NEW i \in places, NEW j \in places, bytes[j] = bytes[i]
          PROVE  j <= i
      <3>1. PICK k \in 1 .. N : i = p[k]
        OBVIOUS
      <3>2. PICK m \in 1 .. N : j = p[m]
        OBVIOUS
      <3>3. j = i
        BY <1>6, <2>1, <3>1, <3>2
      <3>4. i \in Nat
        BY <3>1
      <3>5. QED
        BY <3>3, <3>4
    <2> HIDE DEF places
    <2>2. QED
      BY <2>1 DEF LastOnes
  <1>8. Options(bytes) = OptionsAmong(bytes, places)
    BY <1>2, <1>4, <1>7
  <1> DEFINE at(c) == CHOOSE i \in places : bytes[i] = c
  <1>9. Options(bytes) = [c \in {bytes[i] : i \in places} |->
                             Place(at(c) + 2, bytes[at(c) + 1])]
    BY <1>8 DEF OptionsAmong
  <1>10. {bytes[i] : i \in places} = DOMAIN packet.options
    <2>1. ASSUME NEW i \in places PROVE bytes[i] \in DOMAIN packet.options
      <3>1. PICK k \in 1 .. N : i = p[k]
        OBVIOUS
      <3>2. QED
        BY <1>0, <1>5, <3>1
    <2>2. ASSUME NEW c \in DOMAIN packet.options PROVE \E i \in places : bytes[i] = c
      <3>1. PICK k \in 1 .. N : order[k] = c
        BY <1>0
      <3>2. p[k] \in places /\ bytes[p[k]] = c
        BY <1>5, <3>1
      <3>3. QED
        BY <3>2
    <2> HIDE DEF places
    <2>3. QED
      BY <2>1, <2>2
  <1>11. ASSUME NEW k \in 1 .. N
         PROVE  Options(bytes)[order[k]] = Place(p[k] + 2, Len(packet.options[order[k]]))
    <2>1. p[k] \in places /\ bytes[p[k]] = order[k]
      BY <1>5
    <2>2. at(order[k]) \in places /\ bytes[at(order[k])] = order[k]
      <3> HIDE DEF places
      <3>1. \E i \in places : bytes[i] = order[k]
        BY <2>1
      <3>2. QED
        BY <3>1, Zenon
    <2> HIDE DEF at
    <2>3. PICK m \in 1 .. N : at(order[k]) = p[m]
      BY <2>2
    <2>4. at(order[k]) = p[k]
      BY <1>6, <2>1, <2>2, <2>3
    <2>5. order[k] \in {bytes[i] : i \in places}
      BY <1>0, <1>10
    <2>6. Options(bytes)[order[k]] = Place(at(order[k]) + 2, bytes[at(order[k]) + 1])
      BY <1>9, <2>5
    <2>7. QED
      BY <1>5, <2>4, <2>6
  <1>12. DOMAIN Options(bytes) = DOMAIN packet.options
    BY <1>9, <1>10
  <1>13. QED
    BY <1>11, <1>12 DEF OptionsFound

(***************************************************************************)
(* What ParsePacket returns is within the bytes.                           *)
(***************************************************************************)
LEMMA OptionPlaces ==
    ASSUME NEW data \in Seq(Byte), NEW code \in DOMAIN Options(data)
    PROVE  \E i \in DOMAIN data : /\ Options(data)[code] = Place(i + 2, data[i + 1])
                                  /\ Fits(data, i)
  <1> DEFINE from[i \in Nat] ==
               IF i > Len(data) \/ data[i] = OptionEnd THEN {}
               ELSE {i} \cup CASE data[i] = OptionPad -> from[i + 1]
                               [] data[i] # OptionPad /\ Fits(data, i)
                                    -> from[i + 2 + data[i + 1]]
                               [] OTHER -> {}
             visited == from[OptionsAt]
  <1> HIDE DEF from, visited
  <1> DEFINE found == {i \in DOMAIN data :
                          i \in visited /\ data[i] # OptionPad /\ Fits(data, i)}
             last == {i \in found : \A j \in found : data[j] = data[i] => j <= i}
             chosen(c) == CHOOSE i \in last : data[i] = c
  <1>1. Options(data) = [c \in {data[i] : i \in last} |->
                            Place(chosen(c) + 2, data[chosen(c) + 1])]
    BY DEF Options, from, visited
  <1>2. PICK k \in last : data[k] = code
    BY <1>1
  <1>3. chosen(code) \in last
    BY <1>2
  <1>4. chosen(code) \in DOMAIN data /\ Fits(data, chosen(code))
    BY <1>3
  <1>5. Options(data)[code] = Place(chosen(code) + 2, data[chosen(code) + 1])
    BY <1>1
  <1>6. QED
    BY <1>4, <1>5

\* A place of the data, which may be empty: behind the data's last byte at most.
Inside(place, data) ==
    place.at >= 1 /\ place.len >= 0 /\ place.at + place.len <= Len(data) + 1

LEMMA BehindLast ==
    ASSUME NEW a \in Nat, NEW n \in Nat, NEW l \in Nat, a + 1 + n <= l
    PROVE  a + 2 >= 1 /\ n >= 0 /\ a + 2 + n <= l + 1
  OBVIOUS

\* Every place that ParsePacket returns, of an address or of an option, is within the
\* bytes it was given: parseOptions makes no slice that reaches beyond what was read.
\* (The places of the header are fixed; HwLen, the length of the hardware address, is
\* not modelled.)
THEOREM ParsedWithin ==
    ASSUME NEW data \in Seq(Byte), Parseable(data)
    PROVE  LET parsed == ParsePacket(data)
           IN  /\ Inside(parsed.ciaddr, data) /\ Inside(parsed.yiaddr, data)
               /\ Inside(parsed.giaddr, data) /\ Inside(parsed.chaddr, data)
               /\ \A c \in DOMAIN parsed.options : Inside(parsed.options[c], data)
  <1> DEFINE options == ParsePacket(data).options
  <1>1. Len(data) \in Nat /\ Len(data) >= 5
    BY DEF Parseable, HeaderLen
  <1>2. ASSUME NEW c \in DOMAIN options PROVE Inside(options[c], data)
    <2>1. options = Options(data) \/ options = <<>>
      BY DEF ParsePacket
    <2>2. c \in DOMAIN Options(data) /\ options[c] = Options(data)[c]
      BY <2>1
    <2>3. PICK i \in DOMAIN data : options[c] = Place(i + 2, data[i + 1]) /\ Fits(data, i)
      BY <2>2, OptionPlaces
    <2>4. i \in 1 .. Len(data) /\ i + 1 \in 1 .. Len(data)
      BY <1>1, <2>3 DEF Fits
    <2>5. data[i + 1] \in Byte
      BY <2>4, ElementOfSeq, Zenon
    <2>6. PICK a \in Nat, n \in Nat, l \in Nat :
               a = i /\ n = data[i + 1] /\ l = Len(data)
      <3>1. i \in Nat
        BY <1>1
      <3>2. data[i + 1] \in Nat
        BY <2>5, Bytes, Zenon
      <3>3. QED
        BY <1>1, <3>1, <3>2, Zenon
    <2>7. options[c].at = a + 2 /\ options[c].len = n /\ a + 1 + n <= l
      BY <2>3, <2>6 DEF Place, Fits
    <2>8. a + 2 >= 1 /\ n >= 0 /\ a + 2 + n <= l + 1
      BY <2>7, BehindLast, Zenon
    <2>9. QED
      BY <2>6, <2>7, <2>8 DEF Inside
  <1>3. /\ Inside(Place(2, 1), data) /\ Inside(Place(3, 1), data)
        /\ Inside(Place(4, 1), data) /\ Inside(Place(5, 1), data)
    BY <1>1 DEF Inside, Place
  <1>4. QED
    BY <1>2, <1>3 DEF ParsePacket

(***************************************************************************)
(* What ParsePacket makes of the bytes that ToBytes wrote is the packet,   *)
(* in whatever order Go ranged over the map of options, and for options of *)
(* any codes and any values that their length byte can tell.               *)
(***************************************************************************)
THEOREM RoundTrip ==
    ASSUME NEW packet, Writable(packet), NEW bytes \in ToBytes(packet)
    PROVE  Readable(packet, bytes)
  <1>1. PICK order \in SetToSeqs(DOMAIN packet.options) :
             bytes = ToBytesInOrder(packet, order)
    BY DEF ToBytes
  <1>2. IsFiniteSet(DOMAIN packet.options)
    BY DEF Writable
  <1>3. PICK N \in Nat : Enumerates(order, N, DOMAIN packet.options)
    BY <1>1, <1>2, OrderOnto
  <1>4. PICK p \in [1 .. N + 1 -> Nat] : LaidOut(bytes, packet, order, N, p)
    BY <1>1, <1>3, Written DEF Enumerates
  <1>5. OptionsFound(Options(bytes), packet, order, N, p)
    BY <1>3, <1>4, OptionsRead, Zenon
  <1>6. ParsePacket(bytes) =
            [flags |-> bytes[1], ciaddr |-> Place(2, 1), yiaddr |-> Place(3, 1),
             giaddr |-> Place(4, 1), chaddr |-> Place(5, 1), options |-> Options(bytes)]
    <2>1. Len(bytes) > HeaderLen /\ bytes[HeaderLen + 1] = MagicCookie
      BY <1>4 DEF LaidOut, HeaderLen
    <2>2. QED
      BY <2>1 DEF ParsePacket
  <1>7. ASSUME NEW c \in DOMAIN packet.options
        PROVE  At(bytes, Options(bytes)[c]) = packet.options[c]
    <2>1. PICK k \in 1 .. N : order[k] = c
      BY <1>3 DEF Enumerates
    <2> DEFINE v == packet.options[c]
               place == Place(p[k] + 2, Len(v))
    <2>2. v \in Seq(Byte) /\ Len(v) \in Nat
      BY DEF Writable
    <2>3. Options(bytes)[c] = place /\ place.at = p[k] + 2 /\ place.len = Len(v)
      BY <1>5, <2>1 DEF Place, OptionsFound
    <2>4. /\ p[k + 1] = p[k] + 2 + Len(v) /\ p[k + 1] <= Len(bytes)
          /\ Len(bytes) \in Nat /\ OptionIn(bytes, p[k], c, v, Len(v))
      BY <1>4, <2>1 DEF LaidOut
    <2>5. p[k] \in Nat
      OBVIOUS
    <2> HIDE DEF v, place
    <2>6. ASSUME NEW i \in 1 .. Len(v)
          PROVE  /\ place.at + i - 1 = p[k] + 1 + i /\ place.at + i - 1 <= Len(bytes)
                 /\ bytes[p[k] + 1 + i] = v[i]
      <3>1. PICK a \in Nat, l \in Nat : a = p[k] /\ l = Len(v)
        BY <2>2, <2>5
      <3>2. /\ place.at = a + 2 /\ a + 2 + l <= Len(bytes) /\ i \in 1 .. l
            /\ bytes[a + 1 + i] = v[i]
        BY <2>3, <2>4, <3>1 DEF OptionIn
      <3>3. QED
        BY <2>4, <3>1, <3>2, SMTT(30)
    <2>7. At(bytes, place) = [i \in 1 .. Len(v) |-> v[i]]
      BY <2>3, <2>6 DEF At
    <2>8. v = [i \in 1 .. Len(v) |-> v[i]]
      BY <2>2
    <2>9. QED
      BY <2>3, <2>7, <2>8 DEF v
  <1>8. /\ At(bytes, Place(2, 1)) = <<packet.ciaddr>>
        /\ At(bytes, Place(3, 1)) = <<packet.yiaddr>>
        /\ At(bytes, Place(4, 1)) = <<packet.giaddr>>
        /\ At(bytes, Place(5, 1)) = <<packet.chaddr>>
        /\ bytes[1] = packet.flags
    <2>1. /\ Len(bytes) \in Nat /\ Len(bytes) > 6
          /\ bytes[1] = packet.flags /\ bytes[2] = packet.ciaddr
          /\ bytes[3] = packet.yiaddr /\ bytes[4] = packet.giaddr
          /\ bytes[5] = packet.chaddr
      BY <1>4 DEF LaidOut, HeaderLen
    <2>2. ASSUME NEW q \in 1 .. 6 PROVE At(bytes, Place(q, 1)) = <<bytes[q]>>
      BY <2>1 DEF At, Place
    <2>3. QED
      BY <2>1, <2>2
  <1>9. QED
    BY <1>5, <1>6, <1>7, <1>8 DEF Readable, OptionsFound

\* Writable asks no more of an option's length than is needed: what a reader finds in
\* the bytes is shorter than 256, so it is not a value that is longer, whose length
\* ToBytes cuts to one byte.
THEOREM LongValueLost ==
    ASSUME NEW packet, NEW bytes \in Seq(Byte), Readable(packet, bytes),
           NEW c \in DOMAIN packet.options
    PROVE  Len(packet.options[c]) < 256
  <1> DEFINE options == ParsePacket(bytes).options
  <1>1. c \in DOMAIN options /\ At(bytes, options[c]) = packet.options[c]
    BY DEF Readable
  <1>2. options = Options(bytes) \/ options = <<>>
    BY DEF ParsePacket
  <1>3. c \in DOMAIN Options(bytes) /\ options[c] = Options(bytes)[c]
    BY <1>1, <1>2
  <1>4. PICK i \in DOMAIN bytes : options[c] = Place(i + 2, bytes[i + 1]) /\ Fits(bytes, i)
    BY <1>3, OptionPlaces
  <1>5. i \in Nat /\ i + 1 \in 1 .. Len(bytes)
    BY <1>4 DEF Fits
  <1>6. bytes[i + 1] \in 0 .. 255
    BY <1>5, ElementOfSeq DEF Byte
  <1>7. PICK n \in 0 .. 255 : n = bytes[i + 1]
    BY <1>6
  <1> DEFINE v == At(bytes, options[c])
  <1>8. v = [k \in 1 .. n |-> IF i + 1 + k <= Len(bytes) THEN bytes[i + 1 + k] ELSE 0]
    <2>1. \A k \in 1 .. n : i + 2 + k - 1 = i + 1 + k
      BY <1>5
    <2>2. QED
      BY <1>4, <1>7, <2>1 DEF At, Place
  <1> HIDE DEF v, options
  <1>9. ASSUME NEW k \in 1 .. n PROVE v[k] \in Byte
    <2>1. v[k] = IF i + 1 + k <= Len(bytes) THEN bytes[i + 1 + k] ELSE 0
      BY <1>8
    <2>2. i + 1 + k <= Len(bytes) => i + 1 + k \in 1 .. Len(bytes)
      BY <1>5
    <2>3. i + 1 + k <= Len(bytes) => bytes[i + 1 + k] \in Byte
      BY <2>2, ElementOfSeq
    <2>4. 0 \in Byte
      BY DEF Byte
    <2>5. QED
      BY <2>1, <2>3, <2>4
  <1>10. v \in [1 .. n -> Byte]
    BY <1>8, <1>9
  <1>11. v \in Seq(Byte) /\ Len(v) = n
    BY <1>10
  <1>12. packet.options[c] = v
    BY <1>1 DEF v
  <1>13. n < 256
    OBVIOUS
  <1>14. QED
    BY <1>11, <1>12, <1>13, Zenon
=============================================================================
