-------------------------- MODULE ProofStages_proofs --------------------------
(***************************************************************************)
(* Invariants of ProofStages, for every configuration of the program, the  *)
(* one-hot polynomials and the advice: ClaimWeightsMatch, TrueOpenings and *)
(* OwnMatrix.                                                              *)
(*                                                                         *)
(* ClaimWeightsMatch says of every instance of every batch that the powers *)
(* of two of its messages and of its final claim agree with the one its    *)
(* input claim was multiplied by, TrueOpenings of every claim that its     *)
(* polynomial was bound to the point recorded with it.  The proof goes     *)
(* from the points and the orders in which variables are bound, to the     *)
(* schedule of the advice reductions, to the instances one by one, to a    *)
(* batch, to the stages, and to the inductive invariant WeightsInv: until  *)
(* stage 7 only the instances with a gap are exceptions, every claim of    *)
(* the accumulator is true, and what stage 6 keeps for the advice has the  *)
(* proof's layout and the challenges of the rounds so far.                 *)
(*                                                                         *)
(* OwnMatrix follows from MatrixInv: while no other proof has run on the   *)
(* prover's thread its main shape is that of this proof.                   *)
(*                                                                         *)
(* The lemmas after these say what a side knows (Knows, SideKnows), and    *)
(* what a batch does to it whose instances find their claims and leave     *)
(* claims with keys of their own; ProofStages_claims goes on from there.   *)
(***************************************************************************)
EXTENDS ProofStages, SequenceFacts, FiniteSetTheorems, TLAPS

\* A member that is at least every other is the maximum.
LEMMA MaxIs ==
    ASSUME NEW S \in SUBSET Int, NEW m \in S, \A y \in S : y <= m
    PROVE  Max(S) = m
<1>1. \A x \in S : (\A y \in S : x >= y) => x = m
  OBVIOUS
<1>2. m \in S /\ \A y \in S : m >= y
  OBVIOUS
<1> QED
  BY <1>1, <1>2 DEF Max

\* The same for the least member.
LEMMA MinIs ==
    ASSUME NEW S \in SUBSET Int, NEW m \in S, \A y \in S : m <= y
    PROVE  Min(S) = m
<1>1. \A x \in S : (\A y \in S : x =< y) => x = m
  OBVIOUS
<1>2. m \in S /\ \A y \in S : m =< y
  OBVIOUS
<1> QED
  BY <1>1, <1>2 DEF Min

\* The smaller and the greater of two numbers.
LEMMA OfTwo ==
    ASSUME NEW a \in Int, NEW b \in Int
    PROVE  /\ Min({a, b}) = IF a <= b THEN a ELSE b
           /\ Max({a, b}) = IF a <= b THEN b ELSE a
<1> DEFINE S == {a, b}
<1>1. S \in SUBSET Int
  OBVIOUS
<1>2. CASE a <= b
  <2>1. a \in S /\ (\A y \in S : a <= y) /\ b \in S /\ (\A y \in S : y <= b)
    BY <1>2
  <2> HIDE DEF S
  <2>2. Min(S) = a /\ Max(S) = b
    BY <1>1, <2>1, MinIs, MaxIs
  <2> QED
    BY <1>2, <2>2 DEF S
<1>3. CASE ~(a <= b)
  <2>1. b \in S /\ (\A y \in S : b <= y) /\ a \in S /\ (\A y \in S : y <= a)
    BY <1>3
  <2> HIDE DEF S
  <2>2. Min(S) = b /\ Max(S) = a
    BY <1>1, <2>1, MinIs, MaxIs
  <2> QED
    BY <1>3, <2>2 DEF S
<1> QED
  BY <1>2, <1>3

\* Finitely many numbers, one for each place of a list, have a greatest.
LEMMA GreatestOf ==
    ASSUME NEW n \in Nat \ {0}, NEW f, \A i \in 1 .. n : f[i] \in Nat
    PROVE  \E i \in 1 .. n : \A j \in 1 .. n : f[j] <= f[i]
<1> DEFINE P == {k \in Nat : k + 1 <= n => \E i \in 1 .. k + 1 : \A j \in 1 .. k + 1 : f[j] <= f[i]}
<1>1. 0 \in P
  OBVIOUS
<1>2. ASSUME NEW k \in Nat, k \in P PROVE k + 1 \in P
  <2>1. SUFFICES ASSUME (k + 1) + 1 <= n
                 PROVE  \E i \in 1 .. (k + 1) + 1 : \A j \in 1 .. (k + 1) + 1 : f[j] <= f[i]
    OBVIOUS
  <2>2. PICK i \in 1 .. k + 1 : \A j \in 1 .. k + 1 : f[j] <= f[i]
    BY <1>2, <2>1
  <2>3. f[i] \in Nat /\ f[k + 2] \in Nat
    BY <2>1
  <2>4. \A j \in 1 .. (k + 1) + 1 : j \in 1 .. k + 1 \/ j = k + 2
    OBVIOUS
  <2>5. CASE f[k + 2] <= f[i]
    <3>1. \A j \in 1 .. (k + 1) + 1 : f[j] <= f[i]
      BY <2>2, <2>4, <2>5
    <3> QED
      BY <3>1
  <2>6. CASE ~(f[k + 2] <= f[i])
    <3>1. ASSUME NEW j \in 1 .. (k + 1) + 1 PROVE f[j] <= f[k + 2]
      <4>1. f[j] \in Nat
        BY <2>1
      <4> QED
        BY <2>2, <2>3, <2>4, <2>6, <4>1
    <3>2. k + 2 \in 1 .. (k + 1) + 1
      OBVIOUS
    <3> QED
      BY <3>1, <3>2
  <2> QED
    BY <2>5, <2>6
<1> HIDE DEF P
<1>3. \A k \in Nat : k \in P
  BY <1>1, <1>2, NatSetInduction
<1>4. n - 1 \in Nat /\ (n - 1) + 1 = n
  OBVIOUS
<1> QED
  BY <1>3, <1>4 DEF P

----------------------------------------------------------------------------
(* Points. *)

\* A part of a point is a point.
LEMMA PartOfPoint ==
    ASSUME NEW s \in Points, NEW m \in Nat \ {0}, NEW n \in Int, n <= Len(s)
    PROVE  SubSeq(s, m, n) \in Points /\ Len(SubSeq(s, m, n)) = IF m <= n THEN n - m + 1 ELSE 0
<1>1. s \in Seq(Coordinate) /\ Len(s) \in Nat
  BY DEF Points
<1>2. CASE m <= n
  <2>1. \A i \in m .. n : s[i] \in Coordinate
    BY <1>1
  <2> QED
    BY <1>1, <1>2, <2>1 DEF Points
<1>3. CASE ~(m <= n)
  <2>1. SubSeq(s, m, n) = <<>>
    BY <1>1, <1>3
  <2> QED
    BY <1>3, <2>1 DEF Points
<1> QED
  BY <1>2, <1>3

\* The first coordinates of a point, or all of them.
LEMMA FirstFacts ==
    ASSUME NEW s \in Points, NEW n \in Nat
    PROVE  /\ First(s, n) \in Points
           /\ Len(First(s, n)) = IF n <= Len(s) THEN n ELSE Len(s)
<1>1. Len(s) \in Nat
  BY DEF Points
<1> DEFINE k == Min({n, Len(s)})
<1>2. k = IF n <= Len(s) THEN n ELSE Len(s)
  BY <1>1, OfTwo
<1>3. k \in Int /\ k <= Len(s) /\ 1 \in Nat \ {0}
  BY <1>1, <1>2
<1> HIDE DEF k
<1>4. SubSeq(s, 1, k) \in Points /\ Len(SubSeq(s, 1, k)) = IF 1 <= k THEN k - 1 + 1 ELSE 0
  BY <1>3, PartOfPoint, Zenon
<1>5. k \in Nat
  BY <1>1, <1>2
<1>6. Len(SubSeq(s, 1, k)) = k
  BY <1>4, <1>5
<1>7. First(s, n) = SubSeq(s, 1, k)
  BY DEF First, k
<1> QED
  BY <1>2, <1>4, <1>6, <1>7

\* The coordinates after the first n.
LEMMA FromFacts ==
    ASSUME NEW s \in Points, NEW n \in Nat
    PROVE  /\ From(s, n) \in Points
           /\ Len(From(s, n)) = IF n <= Len(s) THEN Len(s) - n ELSE 0
<1>1. Len(s) \in Nat /\ n + 1 \in Nat \ {0}
  BY DEF Points
<1> DEFINE t == SubSeq(s, n + 1, Len(s))
<1>2. t \in Points /\ Len(t) = IF n + 1 <= Len(s) THEN Len(s) - (n + 1) + 1 ELSE 0
  BY <1>1, PartOfPoint
<1>3. From(s, n) = t
  BY DEF From
<1> HIDE DEF t
<1>4. Len(t) = IF n <= Len(s) THEN Len(s) - n ELSE 0
  BY <1>1, <1>2
<1> QED
  BY <1>2, <1>3, <1>4

\* A point in the other order.
LEMMA ReversePoint ==
    ASSUME NEW s \in Points
    PROVE  Reverse(s) \in Points /\ Len(Reverse(s)) = Len(s)
<1>1. s \in Seq(Coordinate) /\ Len(s) \in Nat
  BY DEF Points
<1>2. \A i \in 1 .. Len(s) : s[(Len(s) - i) + 1] \in Coordinate
  BY <1>1
<1> QED
  BY <1>1, <1>2 DEF Reverse, Points

\* Two points in a row.
LEMMA JoinPoints ==
    ASSUME NEW s \in Points, NEW t \in Points
    PROVE  s \o t \in Points /\ Len(s \o t) = Len(s) + Len(t) /\ Len(s) \in Nat
  BY DEF Points

\* A point without its first coordinate.
LEMMA TailPoint ==
    ASSUME NEW s \in Points, s # <<>>
    PROVE  Tail(s) \in Points
  BY HeadAndTail DEF Points

\* The last coordinates of a point.
LEMMA LastOfPoint ==
    ASSUME NEW s \in Points, NEW n \in Nat
    PROVE  LastOf(s, n) \in Points
<1>1. Len(s) \in Nat
  BY DEF Points
<1> DEFINE d == Len(s) - n
           k == Max({0, d})
<1>2. k \in Nat
  <2>1. d \in Int
    BY <1>1
  <2> HIDE DEF d
  <2>2. Max({0, d}) = IF 0 <= d THEN d ELSE 0
    BY <2>1, OfTwo
  <2> QED
    BY <2>1, <2>2
<1> HIDE DEF k
<1>3. From(s, k) \in Points
  BY <1>2, FromFacts
<1>4. LastOf(s, n) = From(s, k)
  BY DEF LastOf, k, d
<1> QED
  BY <1>3, <1>4

\* The chunks of an address, the last of which ends with it.
LEMMA ChunkBounds ==
    ASSUME NEW L \in Nat, NEW K \in Nat \ {0}, NEW i \in 1 .. L \div K
    PROVE  i * K \in Nat /\ i * K <= L /\ (i - 1) * K + 1 \in Nat \ {0}
<1>1. L \div K \in Nat /\ (L \div K) * K <= L
  OBVIOUS
<1>2. i * K <= (L \div K) * K
  BY <1>1
<1>3. i * K \in Nat /\ (i - 1) * K \in Nat
  OBVIOUS
<1> QED
  BY <1>1, <1>2, <1>3

\* A length that is filled up to whole chunks.
LEMMA PaddedLength ==
    ASSUME NEW L \in Nat, NEW K \in Nat \ {0}
    PROVE  /\ L % K = 0 => L \div K = (L + K - 1) \div K
           /\ L % K # 0 => (L + K - (L % K)) \div K = (L + K - 1) \div K
<1> DEFINE q == L \div K
           m == L % K
<1>1. q \in Nat /\ m \in 0 .. K - 1 /\ L = q * K + m
  OBVIOUS
<1> HIDE DEF q, m
<1>2. CASE m = 0
  <2>1. L + K - 1 = q * K + (K - 1)
    BY <1>1, <1>2
  <2>2. (q * K + (K - 1)) \div K = q
    BY <1>1
  <2> QED
    BY <1>2, <2>1, <2>2 DEF q, m
<1>3. CASE m # 0
  <2>1. L + K - 1 = (q + 1) * K + (m - 1) /\ L + K - m = (q + 1) * K
    BY <1>1, <1>3
  <2>2. ((q + 1) * K + (m - 1)) \div K = q + 1 /\ ((q + 1) * K) \div K = q + 1
    BY <1>1, <1>3
  <2> QED
    BY <1>3, <2>1, <2>2 DEF q, m
<1> QED
  BY <1>2, <1>3

\* compute_r_address_chunks returns as many points as OneHotParams counts chunks, of the length of a chunk.
LEMMA AddressChunksAre ==
    ASSUME NEW s \in Points
    PROVE  /\ DOMAIN AddressChunks(s) = 1 .. ChunksOf(Len(s))
           /\ ChunksOf(Len(s)) \in Nat
           /\ \A i \in 1 .. ChunksOf(Len(s)) :
                 AddressChunks(s)[i] \in Points /\ Len(AddressChunks(s)[i]) = LogKChunk
<1> DEFINE K == LogKChunk
           L == Len(s)
           over == L % K
           pad == [i \in 1 .. K - over |-> ZeroCoordinate]
           padded == IF over = 0 THEN s ELSE pad \o s
<1>1. K \in Nat \ {0} /\ L \in Nat /\ over \in 0 .. K - 1
  <2>1. K \in Nat \ {0} /\ L \in Nat
    BY OneHotAssumption DEF Points
  <2> QED
    BY <2>1
<1>2. pad \in Points /\ Len(pad) = K - over
  <2> DEFINE n == K - over
  <2>1. n \in Nat /\ ZeroCoordinate \in Coordinate
    BY <1>1 DEF Coordinate, ZeroCoordinate
  <2> HIDE DEF n
  <2>2. [i \in 1 .. n |-> ZeroCoordinate] \in Seq(Coordinate) /\ Len([i \in 1 .. n |-> ZeroCoordinate]) = n
    BY <2>1
  <2> QED
    BY <2>2 DEF Points, n
<1> HIDE DEF pad
<1>3. padded \in Points /\ Len(padded) = IF over = 0 THEN L ELSE L + K - over
  <2>1. CASE over = 0
    BY <2>1
  <2>2. CASE over # 0
    <3>1. pad \o s \in Points /\ Len(pad \o s) = Len(pad) + Len(s)
      BY <1>2, JoinPoints
    <3> QED
      BY <1>1, <1>2, <2>2, <3>1
  <2> QED
    BY <2>1, <2>2
<1> HIDE DEF padded
<1>4. Len(padded) \in Nat
  BY <1>3 DEF Points
<1>5. Len(padded) \div K = ChunksOf(L)
  <2> HIDE DEF K, L
  <2>1. Len(padded) \div K = (L + K - 1) \div K
    <3>1. /\ L % K = 0 => L \div K = (L + K - 1) \div K
          /\ L % K # 0 => (L + K - (L % K)) \div K = (L + K - 1) \div K
      BY <1>1, PaddedLength, Zenon
    <3>2. CASE over = 0
      BY <1>3, <3>1, <3>2
    <3>3. CASE over # 0
      <4>1. Len(padded) = L + K - (L % K) /\ L % K # 0
        <5>1. over = L % K
          OBVIOUS
        <5> HIDE DEF over
        <5>2. Len(padded) = L + K - over /\ over # 0
          BY <1>3, <3>3
        <5> QED
          BY <5>1, <5>2, Zenon
      <4>2. (L + K - (L % K)) \div K = (L + K - 1) \div K
        BY <3>1, <4>1, Zenon
      <4> QED
        BY <4>1, <4>2, Zenon
    <3> QED
      BY <3>2, <3>3
  <2> QED
    BY <2>1 DEF ChunksOf, K, L
<1>6. AddressChunks(s) = [i \in 1 .. Len(padded) \div K |-> SubSeq(padded, (i - 1) * K + 1, i * K)]
  BY DEF AddressChunks, padded, pad
<1>7. Len(padded) \div K \in Nat
  BY <1>1, <1>4
<1>8. ASSUME NEW i \in 1 .. Len(padded) \div K
      PROVE  /\ SubSeq(padded, (i - 1) * K + 1, i * K) \in Points
             /\ Len(SubSeq(padded, (i - 1) * K + 1, i * K)) = K
  <2>1. i * K \in Nat /\ i * K <= Len(padded) /\ (i - 1) * K + 1 \in Nat \ {0}
    BY <1>1, <1>4, ChunkBounds
  <2> DEFINE a == (i - 1) * K + 1
             b == i * K
  <2>2. a \in Nat \ {0} /\ b \in Int /\ b <= Len(padded)
    BY <2>1
  <2>4. a <= b /\ b - a + 1 = K
    <3>1. i \in Nat /\ K \in Nat \ {0} /\ b = (i - 1) * K + K
      BY <1>1, <1>7
    <3> DEFINE e == (i - 1) * K
    <3>2. e \in Int /\ a = e + 1 /\ b = e + K
      BY <3>1
    <3> HIDE DEF a, b, e
    <3> QED
      BY <3>1, <3>2
  <2> HIDE DEF a, b
  <2>3. SubSeq(padded, a, b) \in Points /\ Len(SubSeq(padded, a, b)) = K
    BY <1>3, <2>2, <2>4, PartOfPoint
  <2> QED
    BY <2>3 DEF a, b
<1> HIDE DEF L, K
<1>9. DOMAIN AddressChunks(s) = 1 .. ChunksOf(L)
  BY <1>5, <1>6, Zenon
<1>10. \A i \in 1 .. ChunksOf(L) : AddressChunks(s)[i] \in Points /\ Len(AddressChunks(s)[i]) = K
  BY <1>5, <1>6, <1>8
<1> QED
  BY <1>5, <1>7, <1>9, <1>10 DEF L, K

\* The chunks are points.
LEMMA AddressChunksFacts ==
    ASSUME NEW s \in Points
    PROVE  /\ DOMAIN AddressChunks(s) = 1 .. ChunksOf(Len(s))
           /\ ChunksOf(Len(s)) \in Nat
           /\ \A i \in 1 .. ChunksOf(Len(s)) : AddressChunks(s)[i] \in Points
  BY AddressChunksAre

\* The recursion of Without over the first n rounds.
KeepOne(r, dummies, i, x) == IF i \in dummies THEN x ELSE Append(x, r[i])
Keeping(r, dummies, n, f) ==
    f = [i \in 0 .. n |-> IF i = 0 THEN <<>> ELSE KeepOne(r, dummies, i, f[i - 1])]

\* Some function satisfies it.
LEMMA KeepingExists == \A r, dummies : \A n \in Nat : \E f : Keeping(r, dummies, n, f)
<1> SUFFICES ASSUME NEW r, NEW dummies PROVE \A n \in Nat : \E f : Keeping(r, dummies, n, f)
  OBVIOUS
<1> DEFINE S == {n \in Nat : \E f : Keeping(r, dummies, n, f)}
<1>1. 0 \in S
  <2> DEFINE f == [i \in 0 .. 0 |-> <<>>]
  <2>1. f = [i \in 0 .. 0 |-> IF i = 0 THEN <<>> ELSE KeepOne(r, dummies, i, f[i - 1])]
    OBVIOUS
  <2> QED
    BY <2>1 DEF Keeping
<1>2. ASSUME NEW n \in Nat, n \in S PROVE n + 1 \in S
  <2>1. PICK f : Keeping(r, dummies, n, f)
    BY <1>2
  <2> DEFINE g == [i \in 0 .. n + 1 |-> IF i \in 0 .. n THEN f[i] ELSE KeepOne(r, dummies, i, f[i - 1])]
             h == [i \in 0 .. n + 1 |-> IF i = 0 THEN <<>> ELSE KeepOne(r, dummies, i, g[i - 1])]
  <2>2. ASSUME NEW i \in 0 .. n + 1 PROVE g[i] = h[i]
    <3>1. CASE i \in 0 .. n
      <4>1. f[i] = IF i = 0 THEN <<>> ELSE KeepOne(r, dummies, i, f[i - 1])
        BY <2>1, <3>1 DEF Keeping
      <4>2. i # 0 => g[i - 1] = f[i - 1]
        BY <3>1
      <4> QED
        BY <3>1, <4>1, <4>2
    <3>2. CASE i = n + 1
      <4>1. g[i - 1] = f[i - 1] /\ i # 0 /\ i \notin 0 .. n
        BY <3>2
      <4> QED
        BY <3>2, <4>1
    <3> QED
      BY <3>1, <3>2
  <2>3. g = h
    BY <2>2
  <2>4. Keeping(r, dummies, n + 1, g)
    BY <2>3 DEF Keeping
  <2> HIDE DEF g
  <2> QED
    BY <2>4
<1> HIDE DEF S
<1>3. \A n \in Nat : n \in S
  BY <1>1, <1>2, NatSetInduction
<1> QED
  BY <1>3 DEF S

\* The challenges that are kept are challenges.
LEMMA WithoutPoint ==
    ASSUME NEW r \in Points, NEW dummies
    PROVE  Without(r, dummies) \in Points
<1> DEFINE E(f) == [i \in 0 .. Len(r) |-> IF i = 0 THEN <<>> ELSE KeepOne(r, dummies, i, f[i - 1])]
           kept == CHOOSE f : f = E(f)
<1>1. Len(r) \in Nat /\ \A i \in 1 .. Len(r) : r[i] \in Coordinate
  BY DEF Points
<1>2. Without(r, dummies) = kept[Len(r)]
  BY DEF Without, KeepOne
<1>3. \E f : f = E(f)
  <2>1. \E f : Keeping(r, dummies, Len(r), f)
    BY <1>1, KeepingExists, Zenon
  <2> QED
    BY <2>1 DEF Keeping
<1>4. kept = E(kept)
  BY <1>3
<1> HIDE DEF kept
<1> DEFINE S == {n \in Nat : n <= Len(r) => kept[n] \in Points}
<1>5. 0 \in S
  <2>1. kept[0] = <<>>
    BY <1>1, <1>4
  <2>2. <<>> \in Points
    BY DEF Points
  <2> QED
    BY <2>1, <2>2
<1>6. ASSUME NEW n \in Nat, n \in S PROVE n + 1 \in S
  <2>1. SUFFICES ASSUME n + 1 <= Len(r) PROVE kept[n + 1] \in Points
    OBVIOUS
  <2>2. kept[n] \in Points /\ r[n + 1] \in Coordinate
    BY <1>1, <1>6, <2>1
  <2>3. kept[n + 1] = KeepOne(r, dummies, n + 1, kept[n])
    BY <1>1, <1>4, <2>1
  <2>4. Append(kept[n], r[n + 1]) \in Points
    BY <2>2 DEF Points
  <2> QED
    BY <2>2, <2>3, <2>4 DEF KeepOne
<1> HIDE DEF S
<1>7. \A n \in Nat : n \in S
  BY <1>5, <1>6, NatSetInduction
<1> QED
  BY <1>1, <1>2, <1>7 DEF S

----------------------------------------------------------------------------
(* The order variables are bound in. *)

\* Two lists in a row, place by place.
PlacesOf(s, n) == s = [i \in 1 .. n |-> s[i]]
Joined(s, n, t, m) ==
    /\ DOMAIN (s \o t) = 1 .. n + m
    /\ \A i \in 1 .. n : (s \o t)[i] = s[i]
    /\ \A i \in 1 .. m : (s \o t)[n + i] = t[i]

\* What has places 1 .. n is a sequence of n elements.
LEMMA PlacesAreSeq ==
    ASSUME NEW n \in Nat, NEW s, PlacesOf(s, n)
    PROVE  Len(s) = n /\ DOMAIN s = 1 .. n /\ \E S : s \in Seq(S) /\ \A i \in 1 .. n : s[i] \in S
<1> DEFINE S == {s[i] : i \in 1 .. n}
<1>1. \A i \in 1 .. n : s[i] \in S
  OBVIOUS
<1> HIDE DEF S
<1>2. [i \in 1 .. n |-> s[i]] \in Seq(S) /\ Len([i \in 1 .. n |-> s[i]]) = n
  BY <1>1
<1>3. s \in Seq(S) /\ Len(s) = n
  BY <1>2, Zenon DEF PlacesOf
<1>4. DOMAIN s = 1 .. n
  BY <1>3
<1> QED
  BY <1>1, <1>3, <1>4

\* Places of the first list, then of the second.
LEMMA JoinPlaces ==
    ASSUME NEW n \in Nat, NEW m \in Nat, NEW s, NEW t, PlacesOf(s, n), PlacesOf(t, m)
    PROVE  Joined(s, n, t, m)
<1> DEFINE S == {s[i] : i \in 1 .. n} \cup {t[i] : i \in 1 .. m}
<1>1. (\A i \in 1 .. n : s[i] \in S) /\ (\A i \in 1 .. m : t[i] \in S)
  OBVIOUS
<1> HIDE DEF S
<1>2. s \in Seq(S) /\ Len(s) = n
  <2>1. [i \in 1 .. n |-> s[i]] \in Seq(S) /\ Len([i \in 1 .. n |-> s[i]]) = n
    BY <1>1
  <2> QED
    BY <2>1, Zenon DEF PlacesOf
<1>3. t \in Seq(S) /\ Len(t) = m
  <2>1. [i \in 1 .. m |-> t[i]] \in Seq(S) /\ Len([i \in 1 .. m |-> t[i]]) = m
    BY <1>1
  <2> QED
    BY <2>1, Zenon DEF PlacesOf
<1>4. Len(s \o t) = n + m /\ s \o t \in Seq(S)
  BY <1>2, <1>3
<1>5. \A i \in 1 .. m : (s \o t)[n + i] = t[i]
  BY <1>2, <1>3, ConcatAt
<1>6. \A i \in 1 .. n : (s \o t)[i] = s[i]
  BY <1>2, <1>3
<1> QED
  BY <1>4, <1>5, <1>6 DEF Joined

\* Lists with the same places.
LEMMA SamePlaces ==
    ASSUME NEW n \in Nat, NEW s, NEW t, PlacesOf(s, n), PlacesOf(t, n), \A i \in 1 .. n : s[i] = t[i]
    PROVE  s = t
<1>1. [i \in 1 .. n |-> s[i]] = [i \in 1 .. n |-> t[i]]
  OBVIOUS
<1> QED
  BY <1>1, Zenon DEF PlacesOf

\* Two lists in a row are a list.
LEMMA JoinedPlaces ==
    ASSUME NEW n \in Nat, NEW m \in Nat, NEW s, NEW t, PlacesOf(s, n), PlacesOf(t, m)
    PROVE  PlacesOf(s \o t, n + m)
<1>1. PICK S : s \in Seq(S)
  BY PlacesAreSeq
<1>2. PICK T : t \in Seq(T)
  BY PlacesAreSeq
<1>3. s \in Seq(S \cup T) /\ t \in Seq(S \cup T)
  BY <1>1, <1>2
<1>4. s \o t \in Seq(S \cup T)
  BY <1>3
<1>5. DOMAIN (s \o t) = 1 .. n + m
  BY JoinPlaces DEF Joined
<1> DEFINE x == s \o t
<1>6. x = [i \in DOMAIN x |-> x[i]]
  <2>1. x \in Seq(S \cup T)
    BY <1>4
  <2> HIDE DEF x
  <2> QED
    BY <2>1
<1> HIDE DEF x
<1>7. x = [i \in 1 .. n + m |-> x[i]]
  BY <1>5, <1>6, Zenon DEF x
<1> QED
  BY <1>7 DEF PlacesOf, x

\* Four lists in a row.
FourParts(all, s1, n1, s2, n2, s3, n3, s4, n4) ==
    /\ PlacesOf(all, n1 + n2 + n3 + n4)
    /\ \A i \in 1 .. n1 : all[i] = s1[i]
    /\ \A i \in 1 .. n2 : all[n1 + i] = s2[i]
    /\ \A i \in 1 .. n3 : all[n1 + n2 + i] = s3[i]
    /\ \A i \in 1 .. n4 : all[n1 + n2 + n3 + i] = s4[i]

\* Four lists in a row.
LEMMA FourJoined ==
    ASSUME NEW n1 \in Nat, NEW n2 \in Nat, NEW n3 \in Nat, NEW n4 \in Nat,
           NEW s1, NEW s2, NEW s3, NEW s4,
           PlacesOf(s1, n1), PlacesOf(s2, n2), PlacesOf(s3, n3), PlacesOf(s4, n4),
           NEW all, all = s1 \o s2 \o s3 \o s4
    PROVE  FourParts(all, s1, n1, s2, n2, s3, n3, s4, n4)
<1> DEFINE a == s1 \o s2
           b == a \o s3
           na == n1 + n2
           nb == na + n3
<1>1. na \in Nat /\ nb \in Nat
  OBVIOUS
<1>2. PlacesOf(a, na) /\ Joined(s1, n1, s2, n2)
  BY JoinedPlaces, JoinPlaces
<1> HIDE DEF a, na
<1>3. PlacesOf(b, nb) /\ Joined(a, na, s3, n3)
  BY <1>1, <1>2, JoinedPlaces, JoinPlaces
<1> HIDE DEF b, nb
<1>4. PlacesOf(b \o s4, nb + n4) /\ Joined(b, nb, s4, n4)
  BY <1>1, <1>3, JoinedPlaces, JoinPlaces
<1>5. all = b \o s4
  BY DEF a, b
<1>6. /\ \A i \in 1 .. n1 : a[i] = s1[i]
      /\ \A i \in 1 .. n2 : a[n1 + i] = s2[i]
  BY <1>2 DEF Joined, a
<1>7. /\ \A i \in 1 .. na : b[i] = a[i]
      /\ \A i \in 1 .. n3 : b[na + i] = s3[i]
  BY <1>3 DEF Joined, b
<1>8. /\ \A i \in 1 .. nb : all[i] = b[i]
      /\ \A i \in 1 .. n4 : all[nb + i] = s4[i]
  BY <1>4, <1>5 DEF Joined
<1>9. na = n1 + n2 /\ nb = n1 + n2 + n3
  BY DEF na, nb
<1>10. PlacesOf(all, n1 + n2 + n3 + n4)
  BY <1>4, <1>5, <1>9
<1>11. ASSUME NEW i \in 1 .. n1 PROVE all[i] = s1[i]
  <2>1. i \in 1 .. na /\ i \in 1 .. nb
    BY <1>9
  <2> QED
    BY <1>6, <1>7, <1>8, <2>1
<1>12. ASSUME NEW i \in 1 .. n2 PROVE all[n1 + i] = s2[i]
  <2>1. n1 + i \in 1 .. na /\ n1 + i \in 1 .. nb
    BY <1>9
  <2> QED
    BY <1>6, <1>7, <1>8, <2>1
<1>13. ASSUME NEW i \in 1 .. n3 PROVE all[n1 + n2 + i] = s3[i]
  <2>1. na + i \in 1 .. nb
    BY <1>1, <1>9
  <2>2. all[na + i] = s3[i]
    BY <1>7, <1>8, <2>1
  <2> QED
    BY <1>9, <2>2
<1>14. \A i \in 1 .. n4 : all[n1 + n2 + n3 + i] = s4[i]
  BY <1>8, <1>9
<1> QED
  BY <1>10, <1>11, <1>12, <1>13, <1>14 DEF FourParts

\* A variable's coordinate is the challenge of the round that binds it.
LEMMA BoundAt ==
    ASSUME NEW n \in Nat, NEW order, PlacesOf(order, n), NEW r, NEW round,
           \A v \in 1 .. n : round[v] \in 1 .. n /\ order[round[v]] = v,
           \A i \in 1 .. n : order[i] \in 1 .. n /\ round[order[i]] = i
    PROVE  PlacesOf(Bound(order, r), n) /\ \A v \in 1 .. n : Bound(order, r)[v] = r[round[v]]
<1>1. Len(order) = n /\ DOMAIN order = 1 .. n
  BY PlacesAreSeq
<1>2. ASSUME NEW v \in 1 .. n PROVE r[CHOOSE j \in DOMAIN order : order[j] = v] = r[round[v]]
  <2>1. round[v] \in DOMAIN order /\ order[round[v]] = v
    BY <1>1
  <2>2. \A j \in DOMAIN order : order[j] = v => j = round[v]
    BY <1>1
  <2>3. (CHOOSE j \in DOMAIN order : order[j] = v) = round[v]
    BY <2>1, <2>2
  <2> QED
    BY <2>3
<1>3. Bound(order, r) = [v \in 1 .. n |-> r[CHOOSE j \in DOMAIN order : order[j] = v]]
  BY <1>1 DEF Bound
<1>4. PlacesOf(Bound(order, r), n)
  BY <1>3, Zenon DEF PlacesOf
<1> QED
  BY <1>2, <1>3, <1>4

\* A point that is bound from its last variable is reversed, from its first it is not.
LEMMA BoundInOrder ==
    ASSUME NEW r \in Points
    PROVE  LowToHigh(r) = Reverse(r) /\ HighToLow(r) = r
<1> DEFINE n == Len(r)
           down == Down(n, 0)
           up == [j \in 1 .. n |-> j]
           f == [v \in 1 .. n |-> n + 1 - v]
<1>1. n \in Nat /\ r = [i \in 1 .. n |-> r[i]] /\ DOMAIN r = 1 .. n
  BY DEF Points
<1> HIDE DEF n
<1>2. PlacesOf(Bound(down, r), n) /\ \A v \in 1 .. n : Bound(down, r)[v] = r[f[v]]
  <2>1. down = [j \in 1 .. n |-> n + 1 - j]
    <3>1. n - 0 = n
      BY <1>1
    <3> QED
      BY <3>1, Zenon DEF Down
  <2>2. PlacesOf(down, n)
    BY <2>1, Zenon DEF PlacesOf
  <2>3. \A v \in 1 .. n : f[v] \in 1 .. n /\ down[f[v]] = v
    BY <1>1, <2>1
  <2>4. \A i \in 1 .. n : down[i] \in 1 .. n /\ f[down[i]] = i
    BY <1>1, <2>1
  <2> HIDE DEF down, f
  <2> QED
    BY <1>1, <2>2, <2>3, <2>4, BoundAt, SMTT(30)
<1>3. PlacesOf(Bound(up, r), n) /\ \A v \in 1 .. n : Bound(up, r)[v] = r[up[v]]
  <2>1. PlacesOf(up, n)
    BY DEF PlacesOf
  <2>2. \A v \in 1 .. n : up[v] \in 1 .. n /\ up[up[v]] = v
    OBVIOUS
  <2> DEFINE round == up
  <2>3. \A v \in 1 .. n : round[v] \in 1 .. n /\ up[round[v]] = v
    BY <2>2
  <2>4. \A i \in 1 .. n : up[i] \in 1 .. n /\ round[up[i]] = i
    BY <2>2
  <2> HIDE DEF up
  <2> HIDE DEF round
  <2>5. PlacesOf(Bound(up, r), n) /\ \A v \in 1 .. n : Bound(up, r)[v] = r[round[v]]
    BY <1>1, <2>1, <2>3, <2>4, BoundAt, SMTT(30)
  <2> QED
    BY <2>5 DEF round
<1>4. LowToHigh(r) = Bound(down, r)
  BY DEF LowToHigh, n
<1>5. PlacesOf(Reverse(r), n) /\ \A v \in 1 .. n : Reverse(r)[v] = r[f[v]]
  <2>1. Reverse(r) = [v \in 1 .. n |-> r[(n - v) + 1]]
    BY DEF Reverse, n
  <2>2. \A v \in 1 .. n : f[v] = (n - v) + 1
    BY <1>1
  <2>3. PlacesOf(Reverse(r), n)
    BY <2>1, Zenon DEF PlacesOf
  <2> QED
    BY <2>1, <2>2, <2>3
<1>6. HighToLow(r) = Bound(up, r)
  BY <1>1, Zenon DEF HighToLow
<1>7. \A v \in 1 .. n : up[v] = v
  OBVIOUS
<1>8. PlacesOf(r, n)
  BY <1>1, Zenon DEF PlacesOf
<1> HIDE DEF down, up, f
<1>9. Bound(down, r) = Reverse(r)
  BY <1>1, <1>2, <1>5, SamePlaces
<1>10. Bound(up, r) = r
  BY <1>1, <1>3, <1>7, <1>8, SamePlaces
<1> QED
  BY <1>4, <1>6, <1>9, <1>10

----------------------------------------------------------------------------
(* Challenges that are kept. *)

\* A part that grows by one.
LEMMA PartGrows ==
    ASSUME NEW S, NEW r \in Seq(S), NEW s \in Nat \ {0}, NEW n \in Nat, s <= n + 1, n + 1 <= Len(r)
    PROVE  /\ SubSeq(r, s, n + 1) = Append(SubSeq(r, s, n), r[n + 1])
           /\ SubSeq(r, s, n) \in Seq(S) /\ r[n + 1] \in S
<1> DEFINE t == SubSeq(r, s, n)
           u == SubSeq(r, s, n + 1)
<1>1. r[n + 1] \in S /\ Len(r) \in Nat
  OBVIOUS
<1>2. t \in Seq(S) /\ Len(t) = n + 1 - s /\ \A i \in 1 .. n + 1 - s : t[i] = r[s + i - 1]
  OBVIOUS
<1>3. u \in Seq(S) /\ Len(u) = n + 2 - s /\ \A i \in 1 .. n + 2 - s : u[i] = r[s + i - 1]
  OBVIOUS
<1> HIDE DEF t, u
<1> DEFINE w == Append(t, r[n + 1])
<1>4. w \in Seq(S) /\ Len(w) = n + 2 - s
  BY <1>1, <1>2
<1>5. ASSUME NEW i \in 1 .. n + 2 - s PROVE u[i] = w[i]
  <2>0. i <= n + 1 - s \/ i = n + 2 - s
    OBVIOUS
  <2>1. CASE i <= n + 1 - s
    BY <1>1, <1>2, <1>3, <2>1
  <2>2. CASE i = n + 2 - s
    <3>1. w[i] = r[n + 1]
      BY <1>1, <1>2, <2>2
    <3>2. s + i - 1 = n + 1
      BY <2>2
    <3> QED
      BY <1>3, <3>1, <3>2
  <2> QED
    BY <2>0, <2>1, <2>2
<1> HIDE DEF w
<1>6. u = w
  BY <1>3, <1>4, <1>5, SeqEqual
<1> QED
  BY <1>1, <1>2, <1>6 DEF t, u, w

\* The rounds 1 .. a and b + 1 .. e are kept.
LEMMA WithoutTwo ==
    ASSUME NEW r \in Points, NEW dummies, NEW a \in Nat, NEW b \in Nat, NEW e \in Nat,
           a <= b, b <= e, e <= Len(r),
           \A n \in 1 .. Len(r) : n \in dummies <=> ~(n <= a \/ (b < n /\ n <= e))
    PROVE  Without(r, dummies) = SubSeq(r, 1, a) \o SubSeq(r, b + 1, e)
<1> DEFINE E(f) == [i \in 0 .. Len(r) |-> IF i = 0 THEN <<>> ELSE KeepOne(r, dummies, i, f[i - 1])]
           kept == CHOOSE f : f = E(f)
<1>1. Len(r) \in Nat /\ r \in Seq(Coordinate)
  BY DEF Points
<1>2. Without(r, dummies) = kept[Len(r)]
  BY DEF Without, KeepOne
<1>3. \E f : f = E(f)
  <2>1. \E f : Keeping(r, dummies, Len(r), f)
    BY <1>1, KeepingExists, Zenon
  <2> QED
    BY <2>1 DEF Keeping
<1>4. kept = E(kept)
  BY <1>3
<1> HIDE DEF kept
<1> DEFINE P(n) == SubSeq(r, 1, IF n <= a THEN n ELSE a)
           Q(n) == SubSeq(r, b + 1, IF n <= e THEN n ELSE e)
           S == {n \in Nat : n <= Len(r) => kept[n] = P(n) \o Q(n)}
<1>5. \A n \in Nat : n <= b => Q(n) = <<>>
  BY <1>1
<1>6. 0 \in S
  <2>1. kept[0] = <<>>
    BY <1>1, <1>4
  <2>2. P(0) = <<>> /\ Q(0) = <<>>
    BY <1>1, <1>5
  <2> HIDE DEF P, Q
  <2>3. <<>> \o <<>> = <<>>
    <3>1. <<>> \in Seq(Coordinate)
      OBVIOUS
    <3> QED
      BY <3>1, ConcatEmptySeq
  <2> QED
    BY <2>1, <2>2, <2>3
<1>7. ASSUME NEW n \in Nat, n \in S PROVE n + 1 \in S
  <2> DEFINE m == n + 1
  <2>0. SUFFICES ASSUME m <= Len(r) PROVE kept[m] = P(m) \o Q(m)
    <3>1. m \in Nat
      OBVIOUS
    <3>2. kept[m] = P(m) \o Q(m) => m \in S
      <4> HIDE DEF m, P, Q
      <4> QED
        BY <3>1
    <3>3. ~(m <= Len(r)) => m \in S
      <4> HIDE DEF m, P, Q
      <4> QED
        BY <3>1
    <3> HIDE DEF S, P, Q
    <3> QED
      BY <3>2, <3>3
  <2>1. n + 1 <= Len(r)
    BY <2>0
  <2>2. kept[n] = P(n) \o Q(n)
    BY <1>1, <1>7, <2>1
  <2>3. kept[n + 1] = KeepOne(r, dummies, n + 1, kept[n])
    BY <1>1, <1>4, <2>1
  <2>4. n + 1 \in 1 .. Len(r)
    BY <1>1, <2>1
  <2>5. CASE n + 1 <= a
    <3>1. P(n) = SubSeq(r, 1, n) /\ P(n + 1) = SubSeq(r, 1, n + 1)
      BY <2>5
    <3>2. Q(n) = <<>> /\ Q(n + 1) = <<>>
      BY <1>5, <2>5
    <3> HIDE DEF P, Q
    <3> DEFINE one == 1
    <3>3. one \in Nat \ {0} /\ one <= n + 1 /\ one = 1
      OBVIOUS
    <3> HIDE DEF one
    <3>4. /\ SubSeq(r, one, n + 1) = Append(SubSeq(r, one, n), r[n + 1])
          /\ SubSeq(r, one, n) \in Seq(Coordinate) /\ r[n + 1] \in Coordinate
      BY <1>1, <2>1, <3>3, PartGrows
    <3>5. P(n + 1) = Append(P(n), r[n + 1]) /\ P(n) \in Seq(Coordinate) /\ r[n + 1] \in Coordinate
      BY <3>1, <3>3, <3>4, Zenon
    <3>6. P(n) \o <<>> = P(n) /\ P(n + 1) \o <<>> = P(n + 1)
      BY <3>5
    <3>7. n + 1 \notin dummies
      BY <2>4, <2>5
    <3>8. kept[n + 1] = Append(kept[n], r[n + 1])
      BY <2>3, <3>7, Zenon DEF KeepOne
    <3> QED
      BY <2>2, <3>2, <3>5, <3>6, <3>8, Zenon
  <2>6. CASE b < n + 1 /\ n + 1 <= e
    <3>1. P(n) = SubSeq(r, 1, a) /\ P(n + 1) = SubSeq(r, 1, a)
      <4>1. ~(n + 1 <= a) /\ (n <= a => n = a)
        BY <2>6
      <4> QED
        BY <4>1
    <3>2. Q(n) = SubSeq(r, b + 1, n) /\ Q(n + 1) = SubSeq(r, b + 1, n + 1)
      BY <2>6
    <3>3. SubSeq(r, 1, a) \in Seq(Coordinate)
      BY <1>1
    <3> HIDE DEF P, Q
    <3> DEFINE s == b + 1
    <3>4. s \in Nat \ {0} /\ s <= n + 1
      BY <2>6
    <3> HIDE DEF s
    <3>5. /\ SubSeq(r, s, n + 1) = Append(SubSeq(r, s, n), r[n + 1])
          /\ SubSeq(r, s, n) \in Seq(Coordinate) /\ r[n + 1] \in Coordinate
      BY <1>1, <2>1, <3>4, PartGrows
    <3>6. Q(n + 1) = Append(Q(n), r[n + 1]) /\ Q(n) \in Seq(Coordinate) /\ r[n + 1] \in Coordinate
      BY <3>2, <3>5, Zenon DEF s
    <3>7. P(n) \in Seq(Coordinate) /\ P(n + 1) = P(n)
      BY <3>1, <3>3
    <3>8. P(n) \o Append(Q(n), r[n + 1]) = Append(P(n) \o Q(n), r[n + 1])
      <4> DEFINE p == P(n)
                 q == Q(n)
                 x == r[n + 1]
      <4>1. p \in Seq(Coordinate) /\ q \in Seq(Coordinate) /\ x \in Coordinate
        BY <3>6, <3>7
      <4> HIDE DEF p, q, x
      <4>2. p \o Append(q, x) = Append(p \o q, x)
        BY <4>1
      <4> QED
        BY <4>2 DEF p, q, x
    <3>9. n + 1 \notin dummies
      BY <2>4, <2>6
    <3>10. kept[n + 1] = Append(kept[n], r[n + 1])
      BY <2>3, <3>9, Zenon DEF KeepOne
    <3> QED
      BY <2>2, <3>6, <3>7, <3>8, <3>10, Zenon
  <2>7. CASE ~(n + 1 <= a) /\ ~(b < n + 1 /\ n + 1 <= e)
    <3>1. n + 1 \in dummies
      BY <2>4, <2>7
    <3>2. kept[n + 1] = kept[n]
      BY <2>3, <3>1, Zenon DEF KeepOne
    <3>3. P(n + 1) = P(n)
      <4>1. n <= a => n = a
        BY <2>7
      <4> QED
        BY <2>7, <4>1
    <3>4. Q(n + 1) = Q(n)
      <4>1. CASE n + 1 <= b
        <5>1. Q(n + 1) = <<>> /\ Q(n) = <<>>
          BY <1>5, <4>1
        <5> QED
          BY <5>1
      <4>2. CASE ~(n + 1 <= b)
        <5>1. ~(n + 1 <= e) /\ (n <= e => n = e)
          BY <2>7, <4>2
        <5> QED
          BY <5>1
      <4> QED
        BY <4>1, <4>2
    <3> HIDE DEF P, Q
    <3> QED
      BY <2>2, <3>2, <3>3, <3>4, Zenon
  <2> QED
    BY <2>5, <2>6, <2>7
<1> HIDE DEF S
<1>8. \A n \in Nat : n \in S
  BY <1>6, <1>7, NatSetInduction
<1>9. kept[Len(r)] = P(Len(r)) \o Q(Len(r))
  <2> HIDE DEF P, Q
  <2> QED
    BY <1>1, <1>8 DEF S
<1>10. P(Len(r)) = SubSeq(r, 1, a) /\ Q(Len(r)) = SubSeq(r, b + 1, e)
  <2>1. (Len(r) <= a => Len(r) = a) /\ (Len(r) <= e => Len(r) = e)
    BY <1>1
  <2> QED
    BY <2>1
<1> HIDE DEF P, Q
<1> QED
  BY <1>2, <1>9, <1>10, Zenon

\* The places of the parts that orders and points are put together from.
LEMMA DownPlaces ==
    ASSUME NEW hi \in Nat, NEW lo \in Nat, lo <= hi
    PROVE  PlacesOf(Down(hi, lo), hi - lo) /\ \A j \in 1 .. hi - lo : Down(hi, lo)[j] = hi + 1 - j
<1> DEFINE d == Down(hi, lo)
<1>1. d = [j \in 1 .. hi - lo |-> hi + 1 - j]
  BY DEF Down
<1>2. \A j \in 1 .. hi - lo : d[j] = hi + 1 - j
  BY <1>1
<1>3. d = [j \in 1 .. hi - lo |-> d[j]]
  BY <1>1
<1> QED
  BY <1>2, <1>3 DEF PlacesOf

\* The places of a point in the other order.
LEMMA ReversePlaces ==
    ASSUME NEW s \in Points, NEW n, n = Len(s)
    PROVE  PlacesOf(Reverse(s), n) /\ \A j \in 1 .. n : Reverse(s)[j] = s[n + 1 - j]
<1> DEFINE d == Reverse(s)
<1>1. d = [j \in 1 .. n |-> s[(n - j) + 1]] /\ n \in Nat
  BY DEF Reverse, Points
<1>2. ASSUME NEW j \in 1 .. n PROVE d[j] = s[n + 1 - j]
  <2>1. (n - j) + 1 = n + 1 - j
    BY <1>1
  <2> QED
    BY <1>1, <2>1
<1>3. d = [j \in 1 .. n |-> d[j]]
  BY <1>1
<1> QED
  BY <1>2, <1>3 DEF PlacesOf

\* n coordinates of a point, after the first a.
PartOf(s, r, a, n) ==
    s \in Points /\ Len(s) = n /\ PlacesOf(s, n) /\ \A j \in 1 .. n : s[j] = r[a + j]

\* A part of a point.
LEMMA PartPlaces ==
    ASSUME NEW r \in Points, NEW a \in Nat, NEW b \in Nat, a <= b, b <= Len(r), NEW n, n = b - a,
           NEW s, s = SubSeq(r, a + 1, b)
    PROVE  PartOf(s, r, a, n)
<1>1. r \in Seq(Coordinate) /\ Len(r) \in Nat
  BY DEF Points
<1>2. s \in Seq(Coordinate) /\ Len(s) = n /\ \A j \in 1 .. n : s[j] = r[a + j]
  BY <1>1, SMTT(30)
<1>3. s = [j \in 1 .. n |-> s[j]]
  BY <1>2, SMTT(30)
<1> QED
  BY <1>2, <1>3 DEF PlacesOf, Points, PartOf

\* A point has places 1, 2 and so on.
LEMMA PointPlaces ==
    ASSUME NEW s \in Points, NEW n, n = Len(s)
    PROVE  n \in Nat /\ PlacesOf(s, n)
<1>1. n \in Nat /\ s = [j \in 1 .. n |-> s[j]]
  BY DEF Points
<1> QED
  BY <1>1, Zenon DEF PlacesOf

\* First and From are parts.
LEMMA FirstFromParts ==
    ASSUME NEW r \in Points, NEW a \in Nat, a <= Len(r)
    PROVE  First(r, a) = SubSeq(r, 0 + 1, a) /\ From(r, a) = SubSeq(r, a + 1, Len(r))
<1>1. Len(r) \in Nat
  BY DEF Points
<1>2. Min({a, Len(r)}) = a
  <2> DEFINE l == Len(r)
  <2>1. l \in Int /\ a \in Int
    BY <1>1
  <2> HIDE DEF l
  <2>2. Min({a, l}) = IF a <= l THEN a ELSE l
    BY <2>1, OfTwo
  <2> QED
    BY <2>2 DEF l
<1>3. 0 + 1 = 1
  OBVIOUS
<1> QED
  BY <1>2, <1>3, Zenon DEF First, From

----------------------------------------------------------------------------
(* Read-write checking's three phases. *)

\* Where the challenge of a variable stands among those of the three phases.
RoundOf(K, T, p1, p2, v) ==
    IF v <= K - p2 \/ v > K + T - p1 THEN K + T + 1 - v
    ELSE IF v <= K THEN K + 1 + p1 - v ELSE K + T + p2 + 1 - v

\* The order of n variables and their rounds are each other's inverse.
RoundsOf(order, K, T, p1, p2, n) ==
    /\ PlacesOf(order, n)
    /\ \A i \in 1 .. n : order[i] \in 1 .. n /\ RoundOf(K, T, p1, p2, order[i]) = i
    /\ \A v \in 1 .. n : /\ RoundOf(K, T, p1, p2, v) \in 1 .. n
                         /\ order[RoundOf(K, T, p1, p2, v)] = v

\* The rounds that bind the variables of read-write checking.
LEMMA ReadWriteOrderPlaces ==
    ASSUME NEW K \in Nat, NEW T \in Nat, NEW p1 \in 0 .. T, NEW p2 \in 0 .. K, NEW n, n = K + T,
           NEW order, order = ReadWriteOrder(K, T, p1, p2)
    PROVE  RoundsOf(order, K, T, p1, p2, n)
<1> DEFINE s1 == Down(n, n - p1)
           s2 == Down(K, K - p2)
           s3 == Down(n - p1, K)
           s4 == Down(K - p2, 0)
           m1 == p1
           m2 == p2
           m3 == T - p1
           m4 == K - p2
<1>1. order = s1 \o s2 \o s3 \o s4
  BY DEF ReadWriteOrder
<1>2. /\ m1 \in Nat /\ m2 \in Nat /\ m3 \in Nat /\ m4 \in Nat
      /\ p1 \in Nat /\ p2 \in Nat /\ p1 <= T /\ p2 <= K /\ n \in Nat
  OBVIOUS
<1>3. PlacesOf(s1, m1) /\ \A j \in 1 .. m1 : s1[j] = n + 1 - j
  <2> DEFINE lo == n - p1
  <2>1. lo \in Nat /\ lo <= n /\ n - lo = m1
    BY <1>2
  <2> HIDE DEF lo, m1
  <2>2. PlacesOf(Down(n, lo), n - lo) /\ \A j \in 1 .. n - lo : Down(n, lo)[j] = n + 1 - j
    BY <1>2, <2>1, DownPlaces
  <2> QED
    BY <2>1, <2>2 DEF lo
<1>4. PlacesOf(s2, m2) /\ \A j \in 1 .. m2 : s2[j] = K + 1 - j
  <2> DEFINE lo == K - p2
  <2>1. lo \in Nat /\ lo <= K /\ K - lo = m2
    BY <1>2
  <2> HIDE DEF lo, m2
  <2>2. PlacesOf(Down(K, lo), K - lo) /\ \A j \in 1 .. K - lo : Down(K, lo)[j] = K + 1 - j
    BY <2>1, DownPlaces
  <2> QED
    BY <2>1, <2>2 DEF lo
<1>5. PlacesOf(s3, m3) /\ \A j \in 1 .. m3 : s3[j] = n - p1 + 1 - j
  <2> DEFINE hi == n - p1
  <2>1. hi \in Nat /\ K <= hi /\ hi - K = m3
    BY <1>2
  <2> HIDE DEF hi, m3
  <2>2. PlacesOf(Down(hi, K), hi - K) /\ \A j \in 1 .. hi - K : Down(hi, K)[j] = hi + 1 - j
    BY <2>1, DownPlaces
  <2> QED
    BY <2>1, <2>2 DEF hi
<1>6. PlacesOf(s4, m4) /\ \A j \in 1 .. m4 : s4[j] = K - p2 + 1 - j
  <2> DEFINE hi == K - p2
             lo == 0
  <2>1. hi \in Nat /\ lo \in Nat /\ lo <= hi /\ hi - lo = m4 /\ hi = K - p2
    BY <1>2
  <2> HIDE DEF hi, lo, m4
  <2>2. PlacesOf(Down(hi, lo), hi - lo) /\ \A j \in 1 .. hi - lo : Down(hi, lo)[j] = hi + 1 - j
    BY <2>1, DownPlaces
  <2>3. PlacesOf(Down(hi, lo), m4) /\ \A j \in 1 .. m4 : Down(hi, lo)[j] = hi + 1 - j
    BY <2>1, <2>2
  <2> QED
    BY <2>3 DEF hi, lo
<1> HIDE DEF s1, s2, s3, s4, m1, m2, m3, m4
<1>7. /\ PlacesOf(order, m1 + m2 + m3 + m4)
      /\ \A i \in 1 .. m1 : order[i] = s1[i]
      /\ \A i \in 1 .. m2 : order[m1 + i] = s2[i]
      /\ \A i \in 1 .. m3 : order[m1 + m2 + i] = s3[i]
      /\ \A i \in 1 .. m4 : order[m1 + m2 + m3 + i] = s4[i]
  <2>1. PlacesOf(s1, m1) /\ PlacesOf(s2, m2) /\ PlacesOf(s3, m3) /\ PlacesOf(s4, m4)
    BY <1>3, <1>4, <1>5, <1>6
  <2>2. m1 \in Nat /\ m2 \in Nat /\ m3 \in Nat /\ m4 \in Nat
    BY <1>2
  <2>3. FourParts(order, s1, m1, s2, m2, s3, m3, s4, m4)
    BY <1>1, <2>1, <2>2, FourJoined
  <2> QED
    BY <2>3 DEF FourParts
<1>8. m1 = p1 /\ m2 = p2 /\ m3 = T - p1 /\ m4 = K - p2 /\ m1 + m2 + m3 + m4 = n
  BY <1>2 DEF m1, m2, m3, m4
<1>9. ASSUME NEW i \in 1 .. p1 PROVE order[i] = n + 1 - i
  BY <1>3, <1>7, <1>8
<1>10. ASSUME NEW i \in p1 + 1 .. p1 + p2 PROVE order[i] = K + 1 + p1 - i
  <2> DEFINE j == i - p1
  <2>1. j \in 1 .. m2 /\ m1 + j = i
    BY <1>2, <1>8
  <2>2. order[m1 + j] = s2[j] /\ s2[j] = K + 1 - j
    BY <1>4, <1>7, <2>1
  <2> QED
    BY <1>2, <2>1, <2>2
<1>11. ASSUME NEW i \in p1 + p2 + 1 .. p2 + T PROVE order[i] = n + 1 + p2 - i
  <2> DEFINE j == i - (p1 + p2)
  <2>1. j \in 1 .. m3 /\ m1 + m2 + j = i
    BY <1>2, <1>8
  <2>2. order[m1 + m2 + j] = s3[j] /\ s3[j] = n - p1 + 1 - j
    BY <1>5, <1>7, <2>1
  <2> QED
    BY <1>2, <2>1, <2>2
<1>12. ASSUME NEW i \in p2 + T + 1 .. n PROVE order[i] = n + 1 - i
  <2> DEFINE j == i - (p2 + T)
  <2>1. j \in 1 .. m4 /\ m1 + m2 + m3 + j = i
    BY <1>2, <1>8
  <2>2. order[m1 + m2 + m3 + j] = s4[j] /\ s4[j] = K - p2 + 1 - j
    BY <1>6, <1>7, <2>1
  <2> QED
    BY <1>2, <2>1, <2>2
<1>13. PlacesOf(order, n)
  BY <1>7, <1>8
<1>14. ASSUME NEW i \in 1 .. n PROVE order[i] \in 1 .. n /\ RoundOf(K, T, p1, p2, order[i]) = i
  <2>1. CASE i \in 1 .. p1
    BY <1>2, <1>9, <2>1 DEF RoundOf
  <2>2. CASE i \in p1 + 1 .. p1 + p2
    BY <1>2, <1>10, <2>2 DEF RoundOf
  <2>3. CASE i \in p1 + p2 + 1 .. p2 + T
    BY <1>2, <1>11, <2>3 DEF RoundOf
  <2>4. CASE i \in p2 + T + 1 .. n
    BY <1>2, <1>12, <2>4 DEF RoundOf
  <2> QED
    BY <1>2, <2>1, <2>2, <2>3, <2>4
<1>15. ASSUME NEW v \in 1 .. n
       PROVE  RoundOf(K, T, p1, p2, v) \in 1 .. n /\ order[RoundOf(K, T, p1, p2, v)] = v
  <2> DEFINE i == RoundOf(K, T, p1, p2, v)
  <2>1. CASE v <= K - p2
    <3>1. i = n + 1 - v /\ i \in p2 + T + 1 .. n
      BY <1>2, <2>1 DEF RoundOf
    <3> HIDE DEF i
    <3>2. i \in 1 .. n /\ order[i] = v
      BY <1>2, <1>12, <3>1
    <3> QED
      BY <3>2 DEF i
  <2>2. CASE ~(v <= K - p2) /\ v <= K
    <3>1. i = K + 1 + p1 - v /\ i \in p1 + 1 .. p1 + p2
      BY <1>2, <2>2 DEF RoundOf
    <3> HIDE DEF i
    <3>2. i \in 1 .. n /\ order[i] = v
      BY <1>2, <1>10, <3>1
    <3> QED
      BY <3>2 DEF i
  <2>3. CASE v > K /\ ~(v > n - p1)
    <3>1. i = n + p2 + 1 - v /\ i \in p1 + p2 + 1 .. p2 + T
      BY <1>2, <2>3 DEF RoundOf
    <3> HIDE DEF i
    <3>2. i \in 1 .. n /\ order[i] = v
      BY <1>2, <1>11, <3>1
    <3> QED
      BY <3>2 DEF i
  <2>4. CASE v > n - p1
    <3>1. i = n + 1 - v /\ i \in 1 .. p1
      BY <1>2, <2>4 DEF RoundOf
    <3> HIDE DEF i
    <3>2. i \in 1 .. n /\ order[i] = v
      BY <1>2, <1>9, <3>1
    <3> QED
      BY <3>2 DEF i
  <2> QED
    BY <1>2, <2>1, <2>2, <2>3, <2>4
<1> QED
  BY <1>13, <1>14, <1>15 DEF RoundsOf

\* The point of read-write checking, place by place.
PlacedBy(point, r, K, T, p1, p2, n) ==
    PlacesOf(point, n) /\ \A v \in 1 .. n : point[v] = r[RoundOf(K, T, p1, p2, v)]

\* The point of read-write checking, coordinate by coordinate.
LEMMA ReadWritePlaces ==
    ASSUME NEW K \in Nat, NEW T \in Nat, NEW p1 \in 0 .. T, NEW p2 \in 0 .. K, NEW n, n = K + T,
           NEW r \in Points, Len(r) = n, NEW point, point = ReadWritePoint(T, p1, p2, r)
    PROVE  PlacedBy(point, r, K, T, p1, p2, n)
<1> DEFINE q == p1 + p2
           phase1 == First(r, p1)
           phase2 == SubSeq(r, p1 + 1, q)
           phase3 == From(r, q)
           cycle3 == First(phase3, T - p1)
           address3 == From(phase3, T - p1)
           m1 == K - p2
           m2 == p2
           m3 == T - p1
           m4 == p1
           s1 == Reverse(address3)
           s2 == Reverse(phase2)
           s3 == Reverse(cycle3)
           s4 == Reverse(phase1)
<1>1. point = s1 \o s2 \o s3 \o s4
  BY DEF ReadWritePoint
<1>2. /\ m1 \in Nat /\ m2 \in Nat /\ m3 \in Nat /\ m4 \in Nat /\ n \in Nat
      /\ p1 \in Nat /\ p2 \in Nat /\ p1 <= T /\ p2 <= K
      /\ q \in Nat /\ q = p1 + p2 /\ p1 <= q /\ q <= n /\ p1 <= n
  OBVIOUS
<1> HIDE DEF q
<1>3. phase1 \in Points /\ Len(phase1) = m4 /\ \A j \in 1 .. m4 : phase1[j] = r[j]
  <2> DEFINE a == 0
  <2>1. a \in Nat /\ a <= p1 /\ p1 <= Len(r) /\ m4 = p1 - a
    BY <1>2
  <2>2. phase1 = SubSeq(r, a + 1, p1)
    BY <1>2, FirstFromParts
  <2> HIDE DEF a, phase1, m4
  <2>3. PartOf(phase1, r, a, m4)
    BY <1>2, <2>1, <2>2, PartPlaces
  <2>4. \A j \in 1 .. m4 : a + j = j
    BY DEF a
  <2> QED
    BY <2>3, <2>4 DEF PartOf
<1>4. phase2 \in Points /\ Len(phase2) = m2 /\ \A j \in 1 .. m2 : phase2[j] = r[p1 + j]
  <2>1. p1 <= q /\ q <= Len(r) /\ m2 = q - p1
    BY <1>2
  <2> HIDE DEF m2
  <2>2. PartOf(phase2, r, p1, m2)
    BY <1>2, <2>1, PartPlaces
  <2> QED
    BY <2>2 DEF PartOf
<1>5. phase3 \in Points /\ Len(phase3) = n - q /\ \A j \in 1 .. n - q : phase3[j] = r[q + j]
  <2> DEFINE d == n - q
             e == Len(r)
  <2>1. q <= e /\ e <= Len(r) /\ d = e - q /\ e \in Nat
    BY <1>2
  <2>2. phase3 = SubSeq(r, q + 1, e)
    BY <1>2, FirstFromParts
  <2> HIDE DEF d, e, phase3
  <2>3. PartOf(phase3, r, q, d)
    BY <1>2, <2>1, <2>2, PartPlaces
  <2> QED
    BY <2>3 DEF PartOf, d
<1> HIDE DEF phase1, phase2, phase3
<1>6. cycle3 \in Points /\ Len(cycle3) = m3 /\ \A j \in 1 .. m3 : cycle3[j] = phase3[j]
  <2> DEFINE a == 0
             b == T - p1
  <2>1. a \in Nat /\ b \in Nat /\ a <= b /\ b <= Len(phase3) /\ m3 = b - a
    BY <1>2, <1>5
  <2>2. cycle3 = SubSeq(phase3, a + 1, b)
    BY <1>5, <2>1, FirstFromParts
  <2> HIDE DEF a, b, cycle3, m3
  <2>3. PartOf(cycle3, phase3, a, m3)
    BY <1>5, <2>1, <2>2, PartPlaces
  <2>4. \A j \in 1 .. m3 : a + j = j
    BY DEF a
  <2> QED
    BY <2>3, <2>4 DEF PartOf
<1>7. address3 \in Points /\ Len(address3) = m1 /\ \A j \in 1 .. m1 : address3[j] = phase3[m3 + j]
  <2> DEFINE l == Len(phase3)
  <2>1. m3 \in Nat /\ l \in Nat /\ m3 <= l /\ l <= Len(phase3) /\ m1 = l - m3
    BY <1>2, <1>5
  <2>2. address3 = SubSeq(phase3, m3 + 1, l)
    BY <1>5, <2>1, FirstFromParts
  <2> HIDE DEF l, address3, m1, m3
  <2>3. PartOf(address3, phase3, m3, m1)
    BY <1>5, <2>1, <2>2, PartPlaces
  <2> QED
    BY <2>3 DEF PartOf
<1> HIDE DEF cycle3, address3, m1, m2, m3, m4
<1>8. PlacesOf(s1, m1) /\ \A j \in 1 .. m1 : s1[j] = address3[m1 + 1 - j]
  BY <1>7, ReversePlaces
<1>9. PlacesOf(s2, m2) /\ \A j \in 1 .. m2 : s2[j] = phase2[m2 + 1 - j]
  BY <1>4, ReversePlaces
<1>10. PlacesOf(s3, m3) /\ \A j \in 1 .. m3 : s3[j] = cycle3[m3 + 1 - j]
  BY <1>6, ReversePlaces
<1>11. PlacesOf(s4, m4) /\ \A j \in 1 .. m4 : s4[j] = phase1[m4 + 1 - j]
  BY <1>3, ReversePlaces
<1> HIDE DEF s1, s2, s3, s4
<1>12. FourParts(point, s1, m1, s2, m2, s3, m3, s4, m4)
  <2>1. PlacesOf(s1, m1) /\ PlacesOf(s2, m2) /\ PlacesOf(s3, m3) /\ PlacesOf(s4, m4)
    BY <1>8, <1>9, <1>10, <1>11
  <2>2. m1 \in Nat /\ m2 \in Nat /\ m3 \in Nat /\ m4 \in Nat
    BY <1>2
  <2> QED
    BY <1>1, <2>1, <2>2, FourJoined
<1>13. m1 = K - p2 /\ m2 = p2 /\ m3 = T - p1 /\ m4 = p1 /\ m1 + m2 + m3 + m4 = n
  BY <1>2 DEF m1, m2, m3, m4
<1>14. PlacesOf(point, n)
  BY <1>12, <1>13, Zenon DEF FourParts
<1>15. ASSUME NEW j \in 1 .. m1 PROVE point[j] = r[n + 1 - j]
  <2>1. point[j] = s1[j] /\ s1[j] = address3[m1 + 1 - j]
    BY <1>8, <1>12 DEF FourParts
  <2>2. m1 + 1 - j \in 1 .. m1 /\ m3 + (m1 + 1 - j) \in 1 .. n - q
    BY <1>2, <1>13
  <2>3. address3[m1 + 1 - j] = r[q + (m3 + (m1 + 1 - j))]
    BY <1>5, <1>7, <2>2
  <2>4. q + (m3 + (m1 + 1 - j)) = n + 1 - j
    BY <1>2, <1>13
  <2> QED
    BY <2>1, <2>3, <2>4
<1>16. ASSUME NEW j \in 1 .. m2 PROVE point[m1 + j] = r[p1 + p2 + 1 - j]
  <2>1. point[m1 + j] = s2[j] /\ s2[j] = phase2[m2 + 1 - j]
    BY <1>9, <1>12 DEF FourParts
  <2>2. m2 + 1 - j \in 1 .. m2
    BY <1>2
  <2>3. phase2[m2 + 1 - j] = r[p1 + (m2 + 1 - j)]
    BY <1>4, <2>2
  <2>4. p1 + (m2 + 1 - j) = p1 + p2 + 1 - j
    BY <1>2, <1>13
  <2> QED
    BY <2>1, <2>3, <2>4
<1>17. ASSUME NEW j \in 1 .. m3 PROVE point[m1 + m2 + j] = r[p2 + T + 1 - j]
  <2>1. point[m1 + m2 + j] = s3[j] /\ s3[j] = cycle3[m3 + 1 - j]
    BY <1>10, <1>12 DEF FourParts
  <2>2. m3 + 1 - j \in 1 .. m3 /\ m3 + 1 - j \in 1 .. n - q
    BY <1>2, <1>13
  <2>3. cycle3[m3 + 1 - j] = r[q + (m3 + 1 - j)]
    BY <1>5, <1>6, <2>2
  <2>4. q + (m3 + 1 - j) = p2 + T + 1 - j
    BY <1>2, <1>13
  <2> QED
    BY <2>1, <2>3, <2>4
<1>18. ASSUME NEW j \in 1 .. m4 PROVE point[m1 + m2 + m3 + j] = r[p1 + 1 - j]
  <2>1. point[m1 + m2 + m3 + j] = s4[j] /\ s4[j] = phase1[m4 + 1 - j]
    BY <1>11, <1>12 DEF FourParts
  <2>2. m4 + 1 - j \in 1 .. m4
    BY <1>2
  <2>3. phase1[m4 + 1 - j] = r[m4 + 1 - j]
    BY <1>3, <2>2
  <2> QED
    BY <1>13, <2>1, <2>3
<1>19. ASSUME NEW v \in 1 .. n PROVE point[v] = r[RoundOf(K, T, p1, p2, v)]
  <2>1. CASE v <= K - p2
    <3>1. v \in 1 .. m1 /\ RoundOf(K, T, p1, p2, v) = n + 1 - v
      BY <1>2, <1>13, <2>1 DEF RoundOf
    <3> QED
      BY <1>15, <3>1
  <2>2. CASE ~(v <= K - p2) /\ v <= K
    <3> DEFINE j == v - m1
    <3>1. j \in 1 .. m2 /\ m1 + j = v /\ RoundOf(K, T, p1, p2, v) = p1 + p2 + 1 - j
      BY <1>2, <1>13, <2>2 DEF RoundOf
    <3> HIDE DEF j
    <3>2. point[m1 + j] = r[p1 + p2 + 1 - j]
      BY <1>16, <3>1
    <3> QED
      BY <3>1, <3>2
  <2>3. CASE v > K /\ ~(v > n - p1)
    <3> DEFINE j == v - (m1 + m2)
    <3>1. j \in 1 .. m3 /\ m1 + m2 + j = v /\ RoundOf(K, T, p1, p2, v) = p2 + T + 1 - j
      BY <1>2, <1>13, <2>3 DEF RoundOf
    <3> HIDE DEF j
    <3>2. point[m1 + m2 + j] = r[p2 + T + 1 - j]
      BY <1>17, <3>1
    <3> QED
      BY <3>1, <3>2
  <2>4. CASE v > n - p1
    <3> DEFINE j == v - (m1 + m2 + m3)
    <3>1. j \in 1 .. m4 /\ m1 + m2 + m3 + j = v /\ RoundOf(K, T, p1, p2, v) = p1 + 1 - j
      BY <1>2, <1>13, <2>4 DEF RoundOf
    <3> HIDE DEF j
    <3>2. point[m1 + m2 + m3 + j] = r[p1 + 1 - j]
      BY <1>18, <3>1
    <3> QED
      BY <3>1, <3>2
  <2> QED
    BY <1>2, <2>1, <2>2, <2>3, <2>4
<1> QED
  BY <1>14, <1>19 DEF PlacedBy

\* A matrix is opened where it was bound, whatever its phases.
LEMMA ReadWriteBound ==
    ASSUME NEW K \in Nat, NEW T \in Nat, NEW p1 \in 0 .. T, NEW p2 \in 0 .. K,
           NEW r \in Points, Len(r) = K + T
    PROVE  Bound(ReadWriteOrder(K, T, p1, p2), r) = ReadWritePoint(T, p1, p2, r)
<1> DEFINE n == K + T
           order == ReadWriteOrder(K, T, p1, p2)
           point == ReadWritePoint(T, p1, p2, r)
           round == [v \in 1 .. n |-> RoundOf(K, T, p1, p2, v)]
<1>1. RoundsOf(order, K, T, p1, p2, n)
  <2>1. n = K + T /\ order = ReadWriteOrder(K, T, p1, p2)
    OBVIOUS
  <2> HIDE DEF order, n
  <2> QED
    BY <2>1, ReadWriteOrderPlaces
<1>2. PlacedBy(point, r, K, T, p1, p2, n)
  <2>1. n = K + T /\ point = ReadWritePoint(T, p1, p2, r) /\ Len(r) = n
    OBVIOUS
  <2> HIDE DEF point, n
  <2> QED
    BY <2>1, ReadWritePlaces
<1> HIDE DEF order, point
<1>3. \A v \in 1 .. n : round[v] = RoundOf(K, T, p1, p2, v)
  OBVIOUS
<1>4. n \in Nat
  OBVIOUS
<1> HIDE DEF round, n
<1>5. PlacesOf(Bound(order, r), n) /\ \A v \in 1 .. n : Bound(order, r)[v] = r[round[v]]
  <2>1. /\ \A v \in 1 .. n : round[v] \in 1 .. n /\ order[round[v]] = v
        /\ \A i \in 1 .. n : order[i] \in 1 .. n /\ round[order[i]] = i
    BY <1>1, <1>3 DEF RoundsOf
  <2>2. PlacesOf(order, n)
    BY <1>1 DEF RoundsOf
  <2> QED
    BY <1>4, <2>1, <2>2, BoundAt, SMTT(30)
<1>6. \A v \in 1 .. n : Bound(order, r)[v] = point[v]
  BY <1>2, <1>3, <1>5 DEF PlacedBy
<1>7. Bound(order, r) = point
  <2> DEFINE bound == Bound(order, r)
  <2>1. PlacesOf(bound, n) /\ PlacesOf(point, n) /\ \A v \in 1 .. n : bound[v] = point[v]
    BY <1>2, <1>5, <1>6 DEF PlacedBy
  <2> HIDE DEF bound
  <2>2. bound = point
    BY <1>4, <2>1, SamePlaces
  <2> QED
    BY <2>2 DEF bound
<1> QED
  BY <1>7 DEF order, point

\* The point of read-write checking: its three phases.
LEMMA ReadWritePointFacts ==
    ASSUME NEW r \in Points, NEW log_T \in Nat, NEW p1 \in 0 .. log_T, NEW p2 \in Nat, p1 + p2 <= Len(r)
    PROVE  ReadWritePoint(log_T, p1, p2, r) \in Points
<1> DEFINE phase1 == First(r, p1)
           phase2 == SubSeq(r, p1 + 1, p1 + p2)
           phase3 == From(r, p1 + p2)
           cycle3 == First(phase3, log_T - p1)
           address3 == From(phase3, log_T - p1)
<1>1. p1 \in Nat /\ p1 + p2 \in Nat /\ p1 + 1 \in Nat \ {0} /\ log_T - p1 \in Nat
  OBVIOUS
<1>2. phase1 \in Points /\ phase2 \in Points /\ phase3 \in Points
  <2>1. phase1 \in Points /\ phase3 \in Points
    BY <1>1, FirstFacts, FromFacts
  <2>2. ASSUME NEW m \in Nat \ {0}, NEW n \in Nat, n <= Len(r) PROVE SubSeq(r, m, n) \in Points
    BY <2>2, PartOfPoint
  <2> QED
    BY <1>1, <2>1, <2>2
<1> HIDE DEF phase1, phase2, phase3
<1>3. cycle3 \in Points /\ address3 \in Points
  BY <1>1, <1>2, FirstFacts, FromFacts
<1> HIDE DEF cycle3, address3
<1>4. /\ Reverse(address3) \in Points /\ Reverse(phase2) \in Points
      /\ Reverse(cycle3) \in Points /\ Reverse(phase1) \in Points
  BY <1>2, <1>3, ReversePoint
<1>5. Reverse(address3) \o Reverse(phase2) \in Points
  BY <1>4, JoinPoints
<1>6. Reverse(address3) \o Reverse(phase2) \o Reverse(cycle3) \in Points
  BY <1>4, <1>5, JoinPoints
<1>7. Reverse(address3) \o Reverse(phase2) \o Reverse(cycle3) \o Reverse(phase1) \in Points
  BY <1>4, <1>6, JoinPoints
<1> QED
  BY <1>7 DEF ReadWritePoint, phase1, phase2, phase3, cycle3, address3

\* The places of the first coordinates of a point and of those that follow.
LEMMA FirstPart ==
    ASSUME NEW r \in Points, NEW n \in Nat, n <= Len(r), NEW s, s = First(r, n)
    PROVE  s \in Points /\ Len(s) = n /\ \A j \in 1 .. n : s[j] = r[j]
<1> DEFINE a == 0
<1>1. a \in Nat /\ a <= n /\ n = n - a /\ a = 0
  OBVIOUS
<1>2. s = SubSeq(r, a + 1, n)
  BY FirstFromParts
<1> HIDE DEF a
<1>3. PartOf(s, r, a, n)
  BY <1>1, <1>2, PartPlaces
<1>4. \A j \in 1 .. n : a + j = j
  BY <1>1
<1> QED
  BY <1>3, <1>4 DEF PartOf

\* The part from a place on.
LEMMA LastPart ==
    ASSUME NEW r \in Points, NEW a \in Nat, a <= Len(r), NEW n, n = Len(r) - a, NEW s, s = From(r, a)
    PROVE  PartOf(s, r, a, n)
<1> DEFINE e == Len(r)
<1>1. e \in Nat /\ a <= e /\ e <= Len(r) /\ n = e - a
  BY DEF Points
<1>2. s = SubSeq(r, a + 1, e)
  BY FirstFromParts
<1> HIDE DEF e
<1> QED
  BY <1>1, <1>2, PartPlaces

\* The cycle variables of a matrix alone are opened where they were bound.
LEMMA CycleBound ==
    ASSUME NEW K \in Nat, NEW T \in Nat, NEW p1 \in 0 .. T, NEW p2 \in 0 .. K,
           NEW r \in Points, Len(r) = K + T, NEW d, d = DOMAIN r \ CycleRounds(T, p1, p2)
    PROVE  LowToHigh(Without(r, d)) = From(ReadWritePoint(T, p1, p2, r), K)
<1> DEFINE n == K + T
           b == p1 + p2
           e == p2 + T
           w == Without(r, d)
           point == ReadWritePoint(T, p1, p2, r)
           s == From(point, K)
           m == T - p1
           w1 == SubSeq(r, 1, p1)
           w2 == SubSeq(r, b + 1, e)
<1>1. /\ n \in Nat /\ b \in Nat /\ e \in Nat /\ p1 \in Nat /\ p2 \in Nat /\ m \in Nat
      /\ p1 <= b /\ b <= e /\ e <= Len(r) /\ b <= Len(r) /\ p1 <= Len(r) /\ p1 <= T /\ m = e - b
  OBVIOUS
<1>2. \A i \in 1 .. Len(r) : i \in d <=> ~(i <= p1 \/ (b < i /\ i <= e))
  <2>1. DOMAIN r = 1 .. Len(r)
    BY DEF Points
  <2> QED
    BY <2>1 DEF CycleRounds
<1>3. w = w1 \o w2
  <2>1. w1 \o w2 = SubSeq(r, 1, p1) \o SubSeq(r, b + 1, e)
    OBVIOUS
  <2> HIDE DEF b, e, w1, w2
  <2>2. Without(r, d) = SubSeq(r, 1, p1) \o SubSeq(r, b + 1, e)
    <3> DEFINE a == p1
               x == d
    <3>1. /\ a \in Nat /\ b \in Nat /\ e \in Nat /\ a <= b /\ b <= e /\ e <= Len(r)
          /\ \A i \in 1 .. Len(r) : i \in x <=> ~(i <= a \/ (b < i /\ i <= e))
          /\ SubSeq(r, 1, p1) = SubSeq(r, 1, a) /\ Without(r, d) = Without(r, x)
      BY <1>1, <1>2
    <3> HIDE DEF a, x
    <3>2. Without(r, x) = SubSeq(r, 1, a) \o SubSeq(r, b + 1, e)
      BY <3>1, WithoutTwo, ZenonT(40)
    <3> QED
      BY <3>1, <3>2
  <2> QED
    BY <2>1, <2>2
<1>4. w1 \in Points /\ Len(w1) = p1 /\ PlacesOf(w1, p1) /\ \A j \in 1 .. p1 : w1[j] = r[j]
  <2> DEFINE a == 0
  <2>1. a \in Nat /\ a <= p1 /\ p1 = p1 - a /\ w1 = SubSeq(r, a + 1, p1) /\ \A j \in 1 .. p1 : a + j = j
    BY <1>1
  <2> HIDE DEF a, w1
  <2>2. PartOf(w1, r, a, p1)
    BY <1>1, <2>1, PartPlaces
  <2> QED
    BY <2>1, <2>2 DEF PartOf
<1>5. w2 \in Points /\ Len(w2) = m /\ PlacesOf(w2, m) /\ \A j \in 1 .. m : w2[j] = r[b + j]
  <2>1. w2 = SubSeq(r, b + 1, e)
    OBVIOUS
  <2> HIDE DEF b, e, m, w2
  <2>2. PartOf(w2, r, b, m)
    BY <1>1, <2>1, PartPlaces
  <2> QED
    BY <2>2 DEF PartOf
<1>6. b = p1 + p2 /\ m = T - p1 /\ p1 + m = T /\ n = K + T
  OBVIOUS
<1> HIDE DEF w1, w2, w, m, b, e, n
<1>7. Joined(w1, p1, w2, m)
  BY <1>1, <1>4, <1>5, JoinPlaces
<1>8. w \in Points /\ Len(w) = T
  BY <1>3, <1>4, <1>5, <1>6, JoinPoints
<1>9. /\ \A j \in 1 .. p1 : w[j] = r[j]
      /\ \A j \in 1 .. m : w[p1 + j] = r[b + j]
  BY <1>3, <1>4, <1>5, <1>7 DEF Joined
<1>10. LowToHigh(w) = Reverse(w) /\ PlacesOf(Reverse(w), T) /\ \A j \in 1 .. T : Reverse(w)[j] = w[T + 1 - j]
  BY <1>8, BoundInOrder, ReversePlaces
<1>11. PlacedBy(point, r, K, T, p1, p2, n)
  <2>1. Len(r) = n
    BY <1>6
  <2> HIDE DEF point
  <2>2. point = ReadWritePoint(T, p1, p2, r)
    BY DEF point
  <2> QED
    BY <1>6, <2>1, <2>2, ReadWritePlaces
<1>12. point \in Points /\ Len(point) = n
  <2>1. point \in Points
    <3>1. p1 + p2 <= Len(r)
      BY <1>1, <1>6
    <3> QED
      BY <1>1, <3>1, ReadWritePointFacts
  <2>2. Len(point) = n
    BY <1>1, <1>11, PlacesAreSeq DEF PlacedBy
  <2> QED
    BY <2>1, <2>2
<1> HIDE DEF point
<1>13. PartOf(s, point, K, T)
  <2>1. K <= Len(point) /\ T = Len(point) - K /\ s = From(point, K)
    BY <1>6, <1>12
  <2> HIDE DEF s
  <2> QED
    BY <1>12, <2>1, LastPart
<1>14. ASSUME NEW j \in 1 .. T PROVE s[j] = w[T + 1 - j]
  <2>1. s[j] = r[RoundOf(K, T, p1, p2, K + j)]
    <3>1. s[j] = point[K + j]
      BY <1>13 DEF PartOf
    <3>2. K + j \in 1 .. n
      BY <1>6
    <3> QED
      BY <1>11, <3>1, <3>2 DEF PlacedBy
  <2>2. CASE j > T - p1
    <3>1. RoundOf(K, T, p1, p2, K + j) = T + 1 - j /\ T + 1 - j \in 1 .. p1
      BY <1>1, <2>2 DEF RoundOf
    <3> QED
      BY <1>9, <2>1, <3>1
  <2>3. CASE ~(j > T - p1)
    <3> DEFINE i == T - p1 + 1 - j
    <3>1. RoundOf(K, T, p1, p2, K + j) = b + i /\ i \in 1 .. m /\ p1 + i = T + 1 - j
      BY <1>1, <1>6, <2>3 DEF RoundOf
    <3> HIDE DEF i
    <3>2. w[p1 + i] = r[b + i]
      BY <1>9, <3>1
    <3> QED
      BY <2>1, <3>1, <3>2
  <2> QED
    BY <2>2, <2>3
<1>15. s = Reverse(w)
  <2> DEFINE v == Reverse(w)
  <2>1. PlacesOf(s, T) /\ PlacesOf(v, T) /\ \A j \in 1 .. T : s[j] = v[j]
    BY <1>10, <1>13, <1>14 DEF PartOf
  <2> HIDE DEF s, v
  <2>2. s = v
    BY <2>1, SamePlaces
  <2> QED
    BY <2>2 DEF v
<1> QED
  BY <1>10, <1>15 DEF s, w, point

\* The RAF and the output check bind the address in the rounds around the gap.
LEMMA GappedBound ==
    ASSUME NEW c \in Configs, NEW r \in Points, Len(r) = GappedRounds(c)
    PROVE  LowToHigh(Without(r, GapRounds(c))) = GappedAddress(c, r)
<1> DEFINE a == c.p2
           b == c.p2 + Gap(c)
           e == Len(r)
           d == GapRounds(c)
           w == Without(r, d)
<1>1. a \in Nat /\ b \in Nat /\ e \in Nat /\ a <= b /\ b <= e /\ e <= Len(r) /\ a <= Len(r)
  <2>1. /\ c.log_T \in Nat /\ c.ram_log_K \in Nat
        /\ c.p1 \in 0 .. c.log_T /\ c.p2 \in 0 .. c.ram_log_K
    BY ConfigAssumption
  <2>2. Len(r) = c.log_T + c.ram_log_K - c.p1 /\ b = c.p2 + (c.log_T - c.p1)
    BY DEF Gap, GappedRounds
  <2> HIDE DEF b
  <2> QED
    BY <2>1, <2>2, SMTT(30)
<1>2. \A i \in 1 .. Len(r) : i \in d <=> ~(i <= a \/ (b < i /\ i <= e))
  BY <1>1 DEF GapRounds
<1>4. GappedAddress(c, r) = Reverse(First(r, a) \o From(r, b))
  BY DEF GappedAddress
<1>3. First(r, a) = SubSeq(r, 1, a) /\ From(r, b) = SubSeq(r, b + 1, e)
  <2> HIDE DEF a, b
  <2> QED
    BY <1>1, FirstFromParts
<1> HIDE DEF a, b, e, d
<1>5. w = SubSeq(r, 1, a) \o SubSeq(r, b + 1, e)
  BY <1>1, <1>2, WithoutTwo
<1>6. w = First(r, a) \o From(r, b)
  BY <1>3, <1>5
<1>7. First(r, a) \in Points /\ From(r, b) \in Points
  BY <1>1, FirstFacts, FromFacts
<1>8. w \in Points
  BY <1>6, <1>7, JoinPoints
<1>9. LowToHigh(w) = Reverse(w)
  BY <1>8, BoundInOrder
<1> QED
  BY <1>4, <1>6, <1>9 DEF d

----------------------------------------------------------------------------
(* Advice reductions. *)

\* saturating_sub, by cases.
LEMMA SaturatingSubIs ==
    ASSUME NEW a \in Int, NEW b \in Int
    PROVE  SaturatingSub(a, b) = IF a <= b THEN 0 ELSE a - b
<1> DEFINE d == a - b
<1>1. d \in Int
  OBVIOUS
<1> HIDE DEF d
<1>2. Max({0, d}) = IF 0 <= d THEN d ELSE 0
  BY <1>1, OfTwo
<1>3. SaturatingSub(a, b) = Max({0, d})
  BY DEF SaturatingSub, d
<1> QED
  BY <1>1, <1>2, <1>3 DEF d

\* The sizes of the matrices.
LEMMA AdviceSizes ==
    ASSUME NEW c \in Configs, NEW kind \in AdviceKinds
    PROVE  /\ c.log_T \in Nat /\ LogKChunk \in Nat \ {0} /\ c.layout \in Layouts
           /\ AdviceVars(c, kind) \in Nat
           /\ AdviceCols(c, kind) \in Nat /\ AdviceRows(c, kind) \in Nat /\ MainCols(c) \in Nat
           /\ AdviceVars(c, kind) = AdviceCols(c, kind) + AdviceRows(c, kind)
           /\ AdviceCols(c, kind) = 0 => AdviceRows(c, kind) = 0
           /\ AdviceCols(c, kind) <= MainCols(c)
           /\ AdviceRows(c, kind) + MainCols(c) <= LogKChunk + c.log_T
<1>1. c.log_T \in Nat /\ LogKChunk \in Nat \ {0} /\ c.layout \in Layouts /\ FitsMatrix(c, kind)
  BY ConfigAssumption, OneHotAssumption
<1>2. AdviceVars(c, kind) \in Nat
  BY ConfigAssumption DEF AdviceVars
<1>3. \A v \in Nat : /\ (v + 1) \div 2 \in Nat /\ v - ((v + 1) \div 2) \in Nat
                     /\ ((v + 1) \div 2 = 0 => v = 0)
  OBVIOUS
<1>4. \A v \in Nat : /\ Sigma(v) \in Nat /\ Nu(v) \in Nat /\ Sigma(v) + Nu(v) = v
                     /\ Sigma(v) = 0 => Nu(v) = 0
  BY <1>3 DEF Sigma, Nu
<1>5. LogKChunk + c.log_T \in Nat
  BY <1>1
<1>6. /\ Sigma(LogKChunk + c.log_T) \in Nat /\ Nu(LogKChunk + c.log_T) \in Nat
      /\ Sigma(LogKChunk + c.log_T) + Nu(LogKChunk + c.log_T) = LogKChunk + c.log_T
  BY <1>4, <1>5
<1>7. AdviceCols(c, kind) <= MainCols(c) /\ AdviceRows(c, kind) <= Nu(LogKChunk + c.log_T)
  BY <1>1 DEF FitsMatrix
<1>8. /\ AdviceCols(c, kind) \in Nat /\ AdviceRows(c, kind) \in Nat
      /\ AdviceVars(c, kind) = AdviceCols(c, kind) + AdviceRows(c, kind)
      /\ AdviceCols(c, kind) = 0 => AdviceRows(c, kind) = 0
  BY <1>2, <1>4 DEF AdviceCols, AdviceRows
<1>9. MainCols(c) = Sigma(LogKChunk + c.log_T)
  BY DEF MainCols
<1> QED
  BY <1>1, <1>2, <1>6, <1>7, <1>8, <1>9

\* The schedule of a reduction: column rounds, a gap, and row rounds, none after the
\* last cycle.  The variables that are left fit the address, and rows without columns
\* stand after a gap only where the exceptions say so.
ScheduleOf(c, kind, layout, a, b, e) ==
    /\ a <= b /\ b <= e /\ e <= c.log_T
    /\ ColRounds(c, kind, layout) = 1 .. a
    /\ RowRounds(c, kind, layout) = b + 1 .. e
    /\ a + (e - b) <= AdviceVars(c, kind)
    /\ AdviceVars(c, kind) - (a + (e - b)) <= LogKChunk
    /\ (a = 0 /\ 0 < b /\ b < e) =>
          layout = "AddressMajor" /\ AdviceCols(c, kind) <= LogKChunk /\ AdviceRows(c, kind) > 0

\* Every schedule is of that form.
LEMMA ScheduleExists ==
    ASSUME NEW c \in Configs, NEW kind \in AdviceKinds, NEW layout \in Layouts
    PROVE  \E a, b, e \in Nat : ScheduleOf(c, kind, layout, a, b, e)
<1> DEFINE T == c.log_T
           K == LogKChunk
           V == AdviceVars(c, kind)
           C == AdviceCols(c, kind)
           R == AdviceRows(c, kind)
           M == MainCols(c)
<1>1. /\ T \in Nat /\ K \in Nat \ {0} /\ V \in Nat /\ C \in Nat /\ R \in Nat /\ M \in Nat
      /\ V = C + R /\ (C = 0 => R = 0) /\ C <= M /\ R + M <= K + T
  BY AdviceSizes
<1>2. CASE layout = "CycleMajor"
  <2> DEFINE a == IF T <= C THEN T ELSE C
             b == IF T <= M THEN T ELSE M
             e == IF T <= M + R THEN T ELSE M + R
  <2>1. /\ ColRounds(c, kind, layout) = 1 .. Min({T, C})
        /\ RowRounds(c, kind, layout) = Min({T, M}) + 1 .. Min({T, M + R})
    BY <1>2 DEF ColRounds, RowRounds
  <2> HIDE DEF T, K, V, C, R, M
  <2>2. Min({T, C}) = a /\ Min({T, M}) = b /\ Min({T, M + R}) = e
    <3> DEFINE S == M + R
    <3>1. S \in Int /\ T \in Int /\ C \in Int /\ M \in Int
      BY <1>1
    <3> HIDE DEF S
    <3>2. Min({T, S}) = IF T <= S THEN T ELSE S
      BY <3>1, OfTwo
    <3>3. Min({T, C}) = a /\ Min({T, M}) = b
      BY <3>1, OfTwo
    <3> QED
      BY <3>2, <3>3 DEF S
  <2>3. a \in Nat /\ b \in Nat /\ e \in Nat /\ a <= b /\ b <= e /\ e <= T
    BY <1>1
  <2>4. a + (e - b) <= V
    BY <1>1
  <2>5. V - (a + (e - b)) <= K
    <3>1. CASE T <= M
      <4>1. b = T /\ e = T
        BY <1>1, <3>1
      <4> QED
        BY <1>1, <3>1, <4>1
    <3>2. CASE ~(T <= M)
      <4>1. b = M /\ a = C
        BY <1>1, <3>2
      <4> QED
        BY <1>1, <3>2, <4>1
    <3> QED
      BY <3>1, <3>2
  <2>6. ~(a = 0 /\ 0 < b /\ b < e)
    BY <1>1
  <2> HIDE DEF a, b, e
  <2>7. ColRounds(c, kind, layout) = 1 .. a /\ RowRounds(c, kind, layout) = b + 1 .. e
    BY <2>1, <2>2
  <2>8. ScheduleOf(c, kind, layout, a, b, e)
    BY <2>3, <2>4, <2>5, <2>6, <2>7 DEF ScheduleOf, T, K, V
  <2> QED
    BY <2>3, <2>8
<1>3. CASE layout # "CycleMajor"
  <2> DEFINE a == IF C <= K THEN 0 ELSE C - K
             f == IF M <= K THEN 0 ELSE M - K
             b == IF T <= f THEN T ELSE f
             e == IF T <= f + R THEN T ELSE f + R
  <2>1. /\ ColRounds(c, kind, layout) = 1 .. SaturatingSub(C, K)
        /\ RowRounds(c, kind, layout) = Min({T, SaturatingSub(M, K)}) + 1 .. Min({T, SaturatingSub(M, K) + R})
    BY <1>3 DEF ColRounds, RowRounds
  <2> HIDE DEF T, K, V, C, R, M
  <2>2. SaturatingSub(C, K) = a /\ SaturatingSub(M, K) = f
    BY <1>1, SaturatingSubIs
  <2>3. Min({T, f}) = b /\ Min({T, f + R}) = e
    <3> DEFINE S == f + R
    <3>1. S \in Int /\ T \in Int /\ f \in Int
      BY <1>1
    <3> HIDE DEF S, f
    <3>2. Min({T, S}) = IF T <= S THEN T ELSE S
      BY <3>1, OfTwo
    <3>3. Min({T, f}) = b
      BY <3>1, OfTwo
    <3> QED
      BY <3>2, <3>3 DEF S
  <2>4. a \in Nat /\ b \in Nat /\ e \in Nat /\ a <= b /\ b <= e /\ e <= T
    BY <1>1
  <2>5. a + (e - b) <= V
    BY <1>1
  <2>6. V - (a + (e - b)) <= K
    <3>1. CASE M <= K
      <4>1. a = 0 /\ b = 0 /\ f = 0
        BY <1>1, <3>1
      <4> QED
        BY <1>1, <3>1, <4>1
    <3>2. CASE ~(M <= K)
      <4>1. b = M - K /\ e = b + R
        BY <1>1, <3>2
      <4> QED
        BY <1>1, <3>2, <4>1
    <3> QED
      BY <3>1, <3>2
  <2>7. (a = 0 /\ 0 < b /\ b < e) => C <= K /\ R > 0
    BY <1>1
  <2>8. layout = "AddressMajor"
    BY <1>3 DEF Layouts
  <2>9. ColRounds(c, kind, layout) = 1 .. a /\ RowRounds(c, kind, layout) = b + 1 .. e
    BY <2>1, <2>2, <2>3, Zenon
  <2> HIDE DEF a, b, e
  <2>10. ScheduleOf(c, kind, layout, a, b, e)
    BY <2>4, <2>5, <2>6, <2>7, <2>8, <2>9 DEF ScheduleOf, T, K, V, C, R
  <2> QED
    BY <2>4, <2>10
<1> QED
  BY <1>2, <1>3

\* What the schedule says of the rounds of both phases.
LEMMA ScheduleCounts ==
    ASSUME NEW c \in Configs, NEW kind \in AdviceKinds, NEW layout \in Layouts,
           NEW a \in Nat, NEW b \in Nat, NEW e \in Nat, ScheduleOf(c, kind, layout, a, b, e)
    PROVE  /\ CyclePhaseRounds(c, kind, layout) = IF b < e THEN e ELSE a
           /\ b < e => DummyRounds(c, kind, layout) = a + 1 .. b
           /\ ~(b < e) => DummyRounds(c, kind, layout) = {}
           /\ IsFiniteSet(DummyRounds(c, kind, layout))
           /\ Cardinality(DummyRounds(c, kind, layout)) = IF b < e THEN b - a ELSE 0
           /\ AddressPhaseRounds(c, kind, layout) = AdviceVars(c, kind) - (a + (e - b))
           /\ GapLength(c, kind, layout) = IF a = 0 \/ e <= b THEN 0 ELSE b - a
<1>1. /\ a <= b /\ b <= e
      /\ ColRounds(c, kind, layout) = 1 .. a /\ RowRounds(c, kind, layout) = b + 1 .. e
  BY DEF ScheduleOf
<1>2. ActiveRounds(c, kind, layout) = (1 .. a) \cup (b + 1 .. e)
  BY <1>1, Zenon DEF ActiveRounds
<1> DEFINE S == (1 .. a) \cup (b + 1 .. e)
           m == IF b < e THEN e ELSE a
<1>3. CyclePhaseRounds(c, kind, layout) = m
  <2>1. CASE S = {}
    <3>1. m = 0
      <4>1. ~(b < e) /\ a = 0
        <5>1. e \notin b + 1 .. e
          BY <2>1
        <5>2. 1 \notin 1 .. a
          BY <2>1
        <5> QED
          BY <5>1, <5>2
      <4> QED
        BY <4>1
    <3> QED
      BY <1>2, <2>1, <3>1 DEF CyclePhaseRounds
  <2>2. CASE S # {}
    <3>1. m \in S /\ S \in SUBSET Int /\ \A y \in S : y <= m
      <4>1. S \in SUBSET Int /\ \A y \in S : y <= m
        BY <1>1
      <4>2. m \in S
        <5>1. CASE b < e
          BY <1>1, <5>1
        <5>2. CASE ~(b < e)
          <6>1. a # 0
            <7>1. PICK y \in S : TRUE
              BY <2>2
            <7>2. y \in 1 .. a
              BY <5>2, <7>1
            <7> QED
              BY <7>2
          <6> QED
            BY <5>2, <6>1
        <5> QED
          BY <5>1, <5>2
      <4> QED
        BY <4>1, <4>2
    <3> HIDE DEF S, m
    <3>2. Max(S) = m
      BY <3>1, MaxIs
    <3>3. ActiveRounds(c, kind, layout) = S
      BY <1>2 DEF S
    <3> QED
      BY <2>2, <3>2, <3>3 DEF CyclePhaseRounds
  <2> QED
    BY <2>1, <2>2
<1>4. DummyRounds(c, kind, layout) = IF b < e THEN a + 1 .. b ELSE {}
  <2>1. DummyRounds(c, kind, layout) = (1 .. m) \ S
    BY <1>2, <1>3, Zenon DEF DummyRounds
  <2>2. CASE b < e
    BY <1>1, <2>1, <2>2
  <2>3. CASE ~(b < e)
    BY <1>1, <2>1, <2>3
  <2> QED
    BY <2>2, <2>3
<1>5. IsFiniteSet(a + 1 .. b) /\ Cardinality(a + 1 .. b) = b - a
  <2>1. /\ IsFiniteSet(a + 1 .. b)
        /\ Cardinality(a + 1 .. b) = IF a + 1 > b THEN 0 ELSE b - (a + 1) + 1
    <3>1. a + 1 \in Int /\ b \in Int
      OBVIOUS
    <3> QED
      BY <3>1, FS_Interval, Zenon
  <2> QED
    BY <1>1, <2>1
<1>6. Cardinality(1 .. a) = a /\ Cardinality(b + 1 .. e) = e - b
  <2>1. /\ Cardinality(1 .. a) = IF 1 > a THEN 0 ELSE a - 1 + 1
        /\ Cardinality(b + 1 .. e) = IF b + 1 > e THEN 0 ELSE e - (b + 1) + 1
    <3>1. 1 \in Int /\ a \in Int /\ b + 1 \in Int /\ e \in Int
      OBVIOUS
    <3> QED
      BY <3>1, FS_Interval, Zenon
  <2> QED
    BY <1>1, <2>1
<1>7. AddressPhaseRounds(c, kind, layout) = AdviceVars(c, kind) - (a + (e - b))
  BY <1>1, <1>6 DEF AddressPhaseRounds
<1>8. GapLength(c, kind, layout) = IF a = 0 \/ e <= b THEN 0 ELSE b - a
  <2>1. (1 .. a = {}) = (a = 0) /\ (b + 1 .. e = {}) = (e <= b)
    <3>1. a = 0 => 1 .. a = {}
      OBVIOUS
    <3>2. a # 0 => 1 \in 1 .. a
      OBVIOUS
    <3>3. e <= b => b + 1 .. e = {}
      OBVIOUS
    <3>4. ~(e <= b) => e \in b + 1 .. e
      OBVIOUS
    <3> QED
      BY <3>1, <3>2, <3>3, <3>4
  <2>2. CASE a = 0 \/ e <= b
    BY <1>1, <2>1, <2>2 DEF GapLength
  <2>3. CASE ~(a = 0 \/ e <= b)
    <3> DEFINE X == 1 .. a
               Y == b + 1 .. e
    <3>1. a \in X /\ X \in SUBSET Int /\ \A y \in X : y <= a
      BY <2>3
    <3>2. b + 1 \in Y /\ Y \in SUBSET Int /\ \A y \in Y : b + 1 <= y
      BY <2>3
    <3> HIDE DEF X, Y
    <3>3. Max(X) = a
      BY <3>1, MaxIs
    <3>4. Min(Y) = b + 1
      <4> DEFINE k == b + 1
      <4>1. k \in Y /\ \A y \in Y : k <= y
        BY <3>2
      <4> HIDE DEF k
      <4> QED
        BY <3>2, <4>1, MinIs DEF k
    <3>5. GapLength(c, kind, layout) = Min(Y) - Max(X) - 1
      BY <1>1, <2>1, <2>3, Zenon DEF GapLength, X, Y
    <3> QED
      BY <2>3, <3>3, <3>4, <3>5
  <2> QED
    BY <2>2, <2>3
<1>9. /\ IsFiniteSet(DummyRounds(c, kind, layout))
      /\ Cardinality(DummyRounds(c, kind, layout)) = IF b < e THEN b - a ELSE 0
  <2>1. CASE b < e
    BY <1>4, <1>5, <2>1
  <2>2. CASE ~(b < e)
    BY <1>4, <2>2, FS_EmptySet
  <2> QED
    BY <2>1, <2>2
<1> QED
  BY <1>3, <1>4, <1>7, <1>8, <1>9

----------------------------------------------------------------------------
(* The order an advice polynomial's variables are bound in. *)

\* What SortedOrder sorts by.
Before(c, kind, layout, a, bit) ==
    IF IsCycleBit(c, kind, layout, a) = IsCycleBit(c, kind, layout, bit) THEN a < bit
    ELSE IsCycleBit(c, kind, layout, a)
PlaceOf(c, kind, layout, bit) ==
    Cardinality({a \in 0 .. AdviceVars(c, kind) - 1 : Before(c, kind, layout, a, bit)})

\* SortedOrder with the names above.
LEMMA SortedIs ==
    ASSUME NEW c, NEW kind, NEW layout
    PROVE  SortedOrder(c, kind, layout) =
             [j \in 1 .. AdviceVars(c, kind) |->
                AdviceVars(c, kind) - CHOOSE bit \in 0 .. AdviceVars(c, kind) - 1 :
                                         PlaceOf(c, kind, layout, bit) = j - 1]
  BY Zenon DEF SortedOrder, PlaceOf, Before

\* How many of the lowest bits are address variables: with them in front of the
\* others, the sort leaves the bits where they are.
Rotation(c, kind, layout) ==
    IF layout = "CycleMajor" THEN 0
    ELSE IF AdviceCols(c, kind) <= LogKChunk THEN AdviceCols(c, kind) ELSE LogKChunk

\* How many rounds the order is rotated by.
LEMMA RotationIs ==
    ASSUME NEW c \in Configs, NEW kind \in AdviceKinds, NEW layout \in Layouts
    PROVE  /\ Rotation(c, kind, layout) \in Nat
           /\ Rotation(c, kind, layout) <= AdviceVars(c, kind)
           /\ layout = "CycleMajor" => Rotation(c, kind, layout) = 0
           /\ layout = "AddressMajor" => LogKChunk <= MainCols(c)
<1>1. /\ c.log_T \in Nat /\ LogKChunk \in Nat \ {0}
      /\ AdviceVars(c, kind) \in Nat /\ AdviceCols(c, kind) \in Nat /\ AdviceRows(c, kind) \in Nat
      /\ AdviceVars(c, kind) = AdviceCols(c, kind) + AdviceRows(c, kind)
  BY AdviceSizes
<1>2. LogKChunk <= c.log_T
  BY ConfigAssumption
<1>3. LogKChunk <= MainCols(c)
  <2> DEFINE k == LogKChunk
             t == c.log_T
  <2>1. k \in Nat /\ t \in Nat /\ k <= t
    BY <1>1, <1>2
  <2>2. MainCols(c) = (k + t + 1) \div 2
    BY DEF MainCols, Sigma
  <2> HIDE DEF k, t
  <2>3. k <= (k + t + 1) \div 2
    BY <2>1
  <2>4. k <= MainCols(c)
    BY <2>2, <2>3
  <2> QED
    BY <2>4 DEF k
<1> QED
  BY <1>1, <1>3 DEF Rotation

\* The sort by bits: those from the rotation on come first.
LEMMA BeforeIs ==
    ASSUME NEW c \in Configs, NEW kind \in AdviceKinds, NEW layout \in Layouts,
           NEW m, m = Rotation(c, kind, layout),
           NEW a \in 0 .. AdviceVars(c, kind) - 1, NEW bit \in 0 .. AdviceVars(c, kind) - 1
    PROVE  Before(c, kind, layout, a, bit) <=>
             \/ m <= a /\ m <= bit /\ a < bit
             \/ a < m /\ bit < m /\ a < bit
             \/ m <= a /\ bit < m
<1> DEFINE T == c.log_T
           K == LogKChunk
           V == AdviceVars(c, kind)
           C == AdviceCols(c, kind)
           M == MainCols(c)
           At0(x) == IF x < C THEN x ELSE M + x - C
<1>1. /\ T \in Nat /\ K \in Nat \ {0} /\ V \in Nat /\ C \in Nat /\ M \in Nat /\ C <= M
      /\ a \in Nat /\ bit \in Nat
  BY AdviceSizes
<1>2. /\ MatrixBit(c, kind, a) = IF a < C THEN a ELSE M + a - C
      /\ MatrixBit(c, kind, bit) = IF bit < C THEN bit ELSE M + bit - C
  BY DEF MatrixBit
<1>3. CASE layout = "CycleMajor"
  <2>1. m = 0
    BY <1>3 DEF Rotation
  <2>2. /\ IsCycleBit(c, kind, layout, a) = (MatrixBit(c, kind, a) < T)
        /\ IsCycleBit(c, kind, layout, bit) = (MatrixBit(c, kind, bit) < T)
    BY <1>3 DEF IsCycleBit
  <2>3. Before(c, kind, layout, a, bit) <=>
          IF (MatrixBit(c, kind, a) < T) = (MatrixBit(c, kind, bit) < T) THEN a < bit
          ELSE MatrixBit(c, kind, a) < T
    BY <2>2 DEF Before
  <2> HIDE DEF T, K, V, C, M
  <2> QED
    BY <1>1, <1>2, <2>1, <2>3
<1>4. CASE layout # "CycleMajor"
  <2>1. m = IF C <= K THEN C ELSE K
    BY <1>4 DEF Rotation
  <2>2. K <= M
    BY <1>4, RotationIs DEF Layouts
  <2>3. /\ IsCycleBit(c, kind, layout, a) = (MatrixBit(c, kind, a) >= K)
        /\ IsCycleBit(c, kind, layout, bit) = (MatrixBit(c, kind, bit) >= K)
    BY <1>4 DEF IsCycleBit
  <2>4. Before(c, kind, layout, a, bit) <=>
          IF (MatrixBit(c, kind, a) >= K) = (MatrixBit(c, kind, bit) >= K) THEN a < bit
          ELSE MatrixBit(c, kind, a) >= K
    BY <2>3 DEF Before
  <2> HIDE DEF T, K, V, C, M
  <2>5. /\ MatrixBit(c, kind, a) >= K <=> m <= a
        /\ MatrixBit(c, kind, bit) >= K <=> m <= bit
    BY <1>1, <1>2, <2>1, <2>2
  <2> QED
    BY <1>1, <2>1, <2>4, <2>5
<1> QED
  BY <1>3, <1>4

\* An interval has as many elements as it is long.
LEMMA IntervalSize ==
    ASSUME NEW a \in Nat, NEW b \in Nat, a <= b
    PROVE  IsFiniteSet(a .. b - 1) /\ Cardinality(a .. b - 1) = b - a
<1>1. a \in Int /\ b - 1 \in Int
  OBVIOUS
<1>2. /\ IsFiniteSet(a .. b - 1)
      /\ Cardinality(a .. b - 1) = IF a > b - 1 THEN 0 ELSE (b - 1) - a + 1
  BY <1>1, FS_Interval, Zenon
<1> QED
  BY <1>2

\* So bit m stands first, and the lowest m bits stand last.
LEMMA PlaceIs ==
    ASSUME NEW c \in Configs, NEW kind \in AdviceKinds, NEW layout \in Layouts,
           NEW m, m = Rotation(c, kind, layout), NEW n, n = AdviceVars(c, kind),
           NEW bit \in 0 .. n - 1
    PROVE  PlaceOf(c, kind, layout, bit) = IF m <= bit THEN bit - m ELSE (n - m) + bit
<1> DEFINE S == {a \in 0 .. AdviceVars(c, kind) - 1 : Before(c, kind, layout, a, bit)}
           X == m .. bit - 1
           Y == m .. n - 1
           zero == 0
           Z == zero .. bit - 1
<1>1. n \in Nat /\ m \in Nat /\ m <= n /\ bit \in Nat /\ bit < n /\ zero \in Nat /\ zero = 0
  BY RotationIs, AdviceSizes
<1>2. \A a \in 0 .. n - 1 : a \in S <=>
             \/ m <= a /\ m <= bit /\ a < bit
             \/ a < m /\ bit < m /\ a < bit
             \/ m <= a /\ bit < m
  BY BeforeIs
<1>3. \A a \in S : a \in 0 .. n - 1
  OBVIOUS
<1>4. PlaceOf(c, kind, layout, bit) = Cardinality(S)
  BY DEF PlaceOf
<1> HIDE DEF S, zero
<1>5. CASE m <= bit
  <2>1. S = X
    <3>1. ASSUME NEW x \in S PROVE x \in X
      BY <1>1, <1>2, <1>3, <1>5, <3>1
    <3>2. ASSUME NEW x \in X PROVE x \in S
      <4>1. x \in 0 .. n - 1 /\ m <= x /\ x < bit
        BY <1>1, <3>2
      <4> QED
        BY <1>2, <1>5, <4>1
    <3> QED
      BY <3>1, <3>2, Zenon
  <2>2. Cardinality(X) = bit - m
    BY <1>1, <1>5, IntervalSize
  <2> QED
    BY <1>4, <1>5, <2>1, <2>2
<1>6. CASE ~(m <= bit)
  <2>1. S = Y \cup Z
    BY <1>1, <1>2, <1>3, <1>6
  <2>2. Y \cap Z = {}
    BY <1>1, <1>6
  <2>3. IsFiniteSet(Y) /\ Cardinality(Y) = n - m
    BY <1>1, IntervalSize
  <2>4. IsFiniteSet(Z) /\ Cardinality(Z) = bit - zero
    BY <1>1, IntervalSize
  <2> HIDE DEF Y, Z
  <2>5. Cardinality(Y \cup Z) = Cardinality(Y) + Cardinality(Z) - Cardinality(Y \cap Z)
    BY <2>3, <2>4, FS_Union
  <2>6. Cardinality(Y \cap Z) = 0
    BY <2>2, FS_EmptySet
  <2> QED
    BY <1>1, <1>4, <1>6, <2>1, <2>3, <2>4, <2>5, <2>6
<1> QED
  BY <1>5, <1>6

\* The order of the variables, and the coordinate each is bound to.
LEMMA OrderIs ==
    ASSUME NEW c \in Configs, NEW kind \in AdviceKinds, NEW layout \in Layouts,
           NEW m, m = Rotation(c, kind, layout), NEW n, n = AdviceVars(c, kind),
           NEW order, order = SortedOrder(c, kind, layout)
    PROVE  /\ PlacesOf(order, n)
           /\ \A j \in 1 .. n : order[j] = IF j <= n - m THEN n - m + 1 - j ELSE n + (n - m) + 1 - j
<1>1. n \in Nat /\ m \in Nat /\ m <= n
  BY RotationIs, AdviceSizes
<1>2. order = [j \in 1 .. n |-> n - CHOOSE bit \in 0 .. n - 1 : PlaceOf(c, kind, layout, bit) = j - 1]
  <2>1. SortedOrder(c, kind, layout) =
             [j \in 1 .. AdviceVars(c, kind) |->
                AdviceVars(c, kind) - CHOOSE bit \in 0 .. AdviceVars(c, kind) - 1 :
                                         PlaceOf(c, kind, layout, bit) = j - 1]
    BY SortedIs
  <2> QED
    BY <2>1, Zenon
<1>3. ASSUME NEW j \in 1 .. n
      PROVE  order[j] = IF j <= n - m THEN n - m + 1 - j ELSE n + (n - m) + 1 - j
  <2> DEFINE P(bit) == PlaceOf(c, kind, layout, bit) = j - 1
             x == IF j <= n - m THEN m + j - 1 ELSE j - 1 - (n - m)
             y == CHOOSE bit \in 0 .. n - 1 : P(bit)
  <2>1. x \in 0 .. n - 1 /\ (m <= x <=> j <= n - m)
    BY <1>1
  <2>2. \A bit \in 0 .. n - 1 : P(bit) <=> (IF m <= bit THEN bit - m ELSE (n - m) + bit) = j - 1
    <3> SUFFICES ASSUME NEW bit \in 0 .. n - 1
                 PROVE  P(bit) <=> (IF m <= bit THEN bit - m ELSE (n - m) + bit) = j - 1
      OBVIOUS
    <3>1. PlaceOf(c, kind, layout, bit) = IF m <= bit THEN bit - m ELSE (n - m) + bit
      BY PlaceIs
    <3> QED
      BY <3>1
  <2>3. order[j] = n - y
    BY <1>2
  <2> HIDE DEF P, y
  <2>4. P(x)
    BY <1>1, <2>1, <2>2
  <2> HIDE DEF x
  <2>5. y \in 0 .. n - 1 /\ P(y)
    BY <2>1, <2>4 DEF y
  <2>6. (IF m <= y THEN y - m ELSE (n - m) + y) = j - 1
    BY <2>2, <2>5
  <2> QED
    BY <1>1, <2>3, <2>5, <2>6
<1>4. order = [j \in 1 .. n |-> order[j]]
  BY <1>2
<1> QED
  BY <1>3, <1>4 DEF PlacesOf

\* The coordinates of what an advice polynomial is bound to.
AdviceBoundAt(bound, r, m, n) ==
    /\ PlacesOf(bound, n)
    /\ \A v \in 1 .. n : bound[v] = IF v <= n - m THEN r[n - m + 1 - v] ELSE r[n + (n - m) + 1 - v]

\* The coordinates by the place of their rounds.
LEMMA AdviceBound ==
    ASSUME NEW c \in Configs, NEW kind \in AdviceKinds, NEW layout \in Layouts,
           NEW m, m = Rotation(c, kind, layout), NEW n, n = AdviceVars(c, kind), NEW r
    PROVE  AdviceBoundAt(Bound(SortedOrder(c, kind, layout), r), r, m, n)
<1> DEFINE order == SortedOrder(c, kind, layout)
           round == [v \in 1 .. n |-> IF v <= n - m THEN n - m + 1 - v ELSE n + (n - m) + 1 - v]
           bound == Bound(SortedOrder(c, kind, layout), r)
<1>1. n \in Nat /\ m \in Nat /\ m <= n
  BY RotationIs, AdviceSizes
<1>2. /\ PlacesOf(order, n)
      /\ \A j \in 1 .. n : order[j] = IF j <= n - m THEN n - m + 1 - j ELSE n + (n - m) + 1 - j
  BY OrderIs
<1>3. \A v \in 1 .. n : round[v] = IF v <= n - m THEN n - m + 1 - v ELSE n + (n - m) + 1 - v
  OBVIOUS
<1>8. bound = Bound(order, r)
  OBVIOUS
<1> HIDE DEF round, order, bound
<1>4. /\ \A v \in 1 .. n : round[v] \in 1 .. n /\ order[round[v]] = v
      /\ \A i \in 1 .. n : order[i] \in 1 .. n /\ round[order[i]] = i
  <2>1. ASSUME NEW v \in 1 .. n PROVE round[v] \in 1 .. n /\ order[round[v]] = v
    <3> DEFINE j == round[v]
    <3>1. j = IF v <= n - m THEN n - m + 1 - v ELSE n + (n - m) + 1 - v
      BY <1>3
    <3> HIDE DEF j
    <3>2. j \in 1 .. n /\ (j <= n - m <=> v <= n - m)
      BY <1>1, <3>1
    <3>3. order[j] = IF j <= n - m THEN n - m + 1 - j ELSE n + (n - m) + 1 - j
      BY <1>2, <3>2
    <3>4. order[j] = v
      BY <1>1, <3>1, <3>2, <3>3
    <3> QED
      BY <3>2, <3>4 DEF j
  <2>2. ASSUME NEW i \in 1 .. n PROVE order[i] \in 1 .. n /\ round[order[i]] = i
    <3> DEFINE j == order[i]
    <3>1. j = IF i <= n - m THEN n - m + 1 - i ELSE n + (n - m) + 1 - i
      BY <1>2
    <3> HIDE DEF j
    <3>2. j \in 1 .. n /\ (j <= n - m <=> i <= n - m)
      BY <1>1, <3>1
    <3>3. round[j] = IF j <= n - m THEN n - m + 1 - j ELSE n + (n - m) + 1 - j
      BY <1>3, <3>2
    <3>4. round[j] = i
      BY <1>1, <3>1, <3>2, <3>3
    <3> QED
      BY <3>2, <3>4 DEF j
  <2> QED
    BY <2>1, <2>2
<1>5. PlacesOf(bound, n) /\ \A v \in 1 .. n : bound[v] = r[round[v]]
  <2> DEFINE l == n
  <2>1. /\ l \in Nat /\ PlacesOf(order, l) /\ l = n
        /\ \A v \in 1 .. l : round[v] \in 1 .. l /\ order[round[v]] = v
        /\ \A i \in 1 .. l : order[i] \in 1 .. l /\ round[order[i]] = i
    BY <1>1, <1>2, <1>4
  <2> HIDE DEF l
  <2>2. /\ PlacesOf(Bound(order, r), l)
        /\ \A v \in 1 .. l : Bound(order, r)[v] = r[round[v]]
    BY <2>1, BoundAt
  <2> QED
    BY <1>8, <2>1, <2>2
<1>6. ASSUME NEW v \in 1 .. n
      PROVE  bound[v] = IF v <= n - m THEN r[n - m + 1 - v] ELSE r[n + (n - m) + 1 - v]
  BY <1>3, <1>5
<1>7. PlacesOf(bound, n)
  BY <1>5
<1> QED
  BY <1>6, <1>7, Zenon DEF AdviceBoundAt, bound

\* The size of an interval from 1 on, and of one after another number.
LEMMA RangeSize ==
    ASSUME NEW a \in Nat, NEW b \in Nat, a <= b
    PROVE  Cardinality(a + 1 .. b) = b - a
<1>1. a + 1 \in Int /\ b \in Int
  OBVIOUS
<1>2. Cardinality(a + 1 .. b) = IF a + 1 > b THEN 0 ELSE b - (a + 1) + 1
  BY <1>1, FS_Interval, Zenon
<1> QED
  BY <1>2

\* In the layout by address, what is left for stage 7 are the rotated bits.
LEMMA RotationRounds ==
    ASSUME NEW c \in Configs, NEW kind \in AdviceKinds
    PROVE  AddressPhaseRounds(c, kind, "AddressMajor") = Rotation(c, kind, "AddressMajor")
<1> DEFINE T == c.log_T
           K == LogKChunk
           V == AdviceVars(c, kind)
           C == AdviceCols(c, kind)
           R == AdviceRows(c, kind)
           M == MainCols(c)
           zero == 0
           a == IF C <= K THEN 0 ELSE C - K
           b == M - K
           e == b + R
<1>1. /\ T \in Nat /\ K \in Nat \ {0} /\ V \in Nat /\ C \in Nat /\ R \in Nat /\ M \in Nat
      /\ V = C + R /\ C <= M /\ R + M <= K + T
  BY AdviceSizes
<1>2. K <= M
  BY RotationIs DEF Layouts
<1>3. /\ ColRounds(c, kind, "AddressMajor") = 1 .. SaturatingSub(C, K)
      /\ RowRounds(c, kind, "AddressMajor")
           = Min({T, SaturatingSub(M, K)}) + 1 .. Min({T, SaturatingSub(M, K) + R})
  BY DEF ColRounds, RowRounds
<1>4. Rotation(c, kind, "AddressMajor") = IF C <= K THEN C ELSE K
  BY DEF Rotation
<1>5. AddressPhaseRounds(c, kind, "AddressMajor")
        = V - (Cardinality(ColRounds(c, kind, "AddressMajor")) + Cardinality(RowRounds(c, kind, "AddressMajor")))
  BY DEF AddressPhaseRounds
<1> HIDE DEF T, K, V, C, R, M
<1>6. SaturatingSub(C, K) = a /\ SaturatingSub(M, K) = b
  BY <1>1, <1>2, SaturatingSubIs
<1>7. a \in Nat /\ b \in Nat /\ e \in Nat /\ b <= e /\ b <= T /\ e <= T /\ a + (e - b) = V - IF C <= K THEN C ELSE K
  BY <1>1, <1>2
<1>8. Min({T, b}) = b /\ Min({T, e}) = e
  <2>1. T \in Int /\ b \in Int /\ e \in Int
    BY <1>1, <1>7
  <2>2. \A x \in Int : Min({T, x}) = IF T <= x THEN T ELSE x
    BY <2>1, OfTwo
  <2> HIDE DEF b, e
  <2> QED
    BY <1>7, <2>1, <2>2
<1>9. Cardinality(1 .. a) = a
  <2>1. zero \in Nat /\ zero <= a /\ zero + 1 .. a = 1 .. a /\ a - zero = a
    BY <1>7
  <2> HIDE DEF zero, a
  <2>2. Cardinality(zero + 1 .. a) = a - zero
    BY <1>7, <2>1, RangeSize
  <2> QED
    BY <2>1, <2>2
<1>10. Cardinality(b + 1 .. e) = e - b
  <2> HIDE DEF b, e
  <2> QED
    BY <1>7, RangeSize
<1>11. /\ ColRounds(c, kind, "AddressMajor") = 1 .. a
       /\ RowRounds(c, kind, "AddressMajor") = b + 1 .. e
  BY <1>3, <1>6, <1>8, Zenon
<1>12. AddressPhaseRounds(c, kind, "AddressMajor") = V - (a + (e - b))
  BY <1>5, <1>9, <1>10, <1>11
<1> HIDE DEF a, b, e
<1> QED
  BY <1>1, <1>4, <1>7, <1>12

\* So the rotation is none, or the rounds of stage 7.
LEMMA RotatedRounds ==
    ASSUME NEW c \in Configs, NEW kind \in AdviceKinds, NEW layout \in Layouts
    PROVE  \/ layout = "CycleMajor" /\ Rotation(c, kind, layout) = 0
           \/ layout = "AddressMajor" /\ Rotation(c, kind, layout) = AddressPhaseRounds(c, kind, layout)
<1>1. CASE layout = "CycleMajor"
  BY <1>1, RotationIs
<1>2. CASE layout = "AddressMajor"
  BY <1>2, RotationRounds
<1> QED
  BY <1>1, <1>2 DEF Layouts

\* The challenges stage 6 hands on: one for each variable stage 7 does not bind.
LEMMA CycleChallengesFacts ==
    ASSUME NEW c \in Configs, NEW kind \in AdviceKinds, NEW layout \in Layouts, NEW r \in Points,
           Len(r) = CyclePhaseRounds(c, kind, layout)
    PROVE  /\ CycleVarChallenges(c, kind, layout, r) \in Points
           /\ Len(CycleVarChallenges(c, kind, layout, r))
                = AdviceVars(c, kind) - AddressPhaseRounds(c, kind, layout)
<1> DEFINE d == DOMAIN r \ ActiveRounds(c, kind, layout)
           x == Without(r, d)
<1>1. PICK a \in Nat, b \in Nat, e \in Nat : ScheduleOf(c, kind, layout, a, b, e)
  BY ScheduleExists
<1>2. /\ CyclePhaseRounds(c, kind, layout) = IF b < e THEN e ELSE a
      /\ AddressPhaseRounds(c, kind, layout) = AdviceVars(c, kind) - (a + (e - b))
  BY <1>1, ScheduleCounts
<1>3. a <= b /\ b <= e /\ ColRounds(c, kind, layout) = 1 .. a /\ RowRounds(c, kind, layout) = b + 1 .. e
  BY <1>1 DEF ScheduleOf
<1>4. \A i \in 1 .. Len(r) : i \in d <=> ~(i <= a \/ (b < i /\ i <= e))
  <2>1. DOMAIN r = 1 .. Len(r) /\ Len(r) \in Nat
    BY DEF Points
  <2>2. ActiveRounds(c, kind, layout) = (1 .. a) \cup (b + 1 .. e)
    BY <1>3 DEF ActiveRounds
  <2> QED
    BY <1>3, <2>1, <2>2
<1>5. CycleVarChallenges(c, kind, layout, r) = x
  BY DEF CycleVarChallenges
<1> DEFINE f == IF b < e THEN b ELSE a
           g == IF b < e THEN e ELSE a
<1>6. /\ a \in Nat /\ f \in Nat /\ g \in Nat /\ a <= f /\ f <= g /\ g <= Len(r)
      /\ a <= Len(r) /\ f <= Len(r) /\ a + (g - f) = a + (e - b)
  BY <1>2, <1>3
<1>7. \A i \in 1 .. Len(r) : i \in d <=> ~(i <= a \/ (f < i /\ i <= g))
  BY <1>2, <1>3, <1>4
<1> HIDE DEF d, f, g
<1>8. x = SubSeq(r, 1, a) \o SubSeq(r, f + 1, g)
  BY <1>6, <1>7, WithoutTwo
<1> DEFINE zero == 0
           na == a - zero
           nf == g - f
           xa == SubSeq(r, zero + 1, a)
           xf == SubSeq(r, f + 1, g)
<1>9. zero \in Nat /\ zero <= a /\ zero + 1 = 1 /\ na = a
  BY <1>6
<1>10. x = xa \o xf
  BY <1>8, <1>9
<1>11. xa \in Points /\ Len(xa) = na
  <2>1. xa = SubSeq(r, zero + 1, a) /\ na = a - zero
    OBVIOUS
  <2> HIDE DEF zero, xa, na
  <2>2. PartOf(xa, r, zero, na)
    BY <1>6, <1>9, <2>1, PartPlaces
  <2> QED
    BY <2>2 DEF PartOf
<1>12. xf \in Points /\ Len(xf) = nf
  <2>1. xf = SubSeq(r, f + 1, g) /\ nf = g - f
    OBVIOUS
  <2> HIDE DEF xf, nf
  <2>2. PartOf(xf, r, f, nf)
    BY <1>6, <2>1, PartPlaces
  <2> QED
    BY <2>2 DEF PartOf
<1>13. na + nf = a + (e - b)
  BY <1>6, <1>9
<1> HIDE DEF xa, xf, na, nf, zero, x
<1>14. x \in Points /\ Len(x) = na + nf
  BY <1>10, <1>11, <1>12, JoinPoints
<1>15. AdviceVars(c, kind) \in Nat
  BY AdviceSizes
<1> QED
  BY <1>2, <1>5, <1>6, <1>13, <1>14, <1>15

\* Without a rotation, the variables are bound in the order of their rounds.
LEMMA UnrotatedBound ==
    ASSUME NEW c \in Configs, NEW kind \in AdviceKinds, NEW layout \in Layouts,
           Rotation(c, kind, layout) = 0, NEW s \in Points, Len(s) = AdviceVars(c, kind)
    PROVE  Bound(SortedOrder(c, kind, layout), s) = Reverse(s)
<1> DEFINE n == AdviceVars(c, kind)
           m == Rotation(c, kind, layout)
           bound == Bound(SortedOrder(c, kind, layout), s)
           v == Reverse(s)
<1>1. n \in Nat /\ m = 0 /\ n = Len(s)
  BY AdviceSizes
<1>2. AdviceBoundAt(bound, s, m, n)
  <2>1. m = Rotation(c, kind, layout) /\ n = AdviceVars(c, kind) /\ bound = Bound(SortedOrder(c, kind, layout), s)
    OBVIOUS
  <2> HIDE DEF m, n, bound
  <2>2. AdviceBoundAt(Bound(SortedOrder(c, kind, layout), s), s, m, n)
    BY <2>1, AdviceBound
  <2> QED
    BY <2>1, <2>2
<1>3. PlacesOf(v, n) /\ \A j \in 1 .. n : v[j] = s[n + 1 - j]
  BY <1>1, ReversePlaces
<1> HIDE DEF n, m, bound, v
<1>4. PlacesOf(bound, n) /\ \A j \in 1 .. n : bound[j] = IF j <= n - m THEN s[n - m + 1 - j] ELSE s[n + (n - m) + 1 - j]
  BY <1>2 DEF AdviceBoundAt
<1>5. \A j \in 1 .. n : bound[j] = v[j]
  BY <1>1, <1>3, <1>4
<1>6. bound = v
  BY <1>1, <1>3, <1>4, <1>5, SamePlaces
<1> QED
  BY <1>6 DEF bound, v

\* Advice that stage 6 has bound is opened where it is bound.
LEMMA AdviceCycleBound ==
    ASSUME NEW c \in Configs, NEW kind \in AdviceKinds, NEW layout \in Layouts, NEW s \in Points,
           Len(s) = AdviceVars(c, kind), AddressPhaseRounds(c, kind, layout) = 0
    PROVE  Bound(SortedOrder(c, kind, layout), s) = Reverse(s)
<1>1. Rotation(c, kind, layout) = 0
  BY RotatedRounds
<1> QED
  BY <1>1, UnrotatedBound

\* And so is what stage 7 binds the rest of.
LEMMA AdviceAddressBound ==
    ASSUME NEW c \in Configs, NEW kind \in AdviceKinds, NEW layout \in Layouts,
           NEW s \in Points, NEW r \in Points,
           Len(s) = AdviceVars(c, kind) - AddressPhaseRounds(c, kind, layout),
           Len(r) = AddressPhaseRounds(c, kind, layout)
    PROVE  Bound(SortedOrder(c, kind, layout), s \o r) = AddressPhasePoint(layout, s, r)
<1> DEFINE n == AdviceVars(c, kind)
           m == Rotation(c, kind, layout)
           l == n - m
           p == AddressPhaseRounds(c, kind, layout)
           x == s \o r
           y == r \o s
           bound == Bound(SortedOrder(c, kind, layout), x)
           v == Reverse(y)
<1>1. n \in Nat /\ m \in Nat /\ m <= n
  BY AdviceSizes, RotationIs
<1>2. Len(s) \in Nat /\ Len(r) \in Nat
  BY DEF Points
<1>3. x \in Points /\ Len(x) = n
  <2>1. s \o r \in Points /\ Len(s \o r) = Len(s) + Len(r)
    BY JoinPoints
  <2>2. Len(s) + Len(r) = n
    BY <1>1, <1>2
  <2> QED
    BY <2>1, <2>2
<1>4. CASE layout = "CycleMajor"
  <2>1. Rotation(c, kind, layout) = 0
    BY <1>4, RotationIs
  <2>2. Bound(SortedOrder(c, kind, layout), x) = Reverse(x)
    <3>1. x \in Points /\ Len(x) = AdviceVars(c, kind)
      BY <1>3
    <3> HIDE DEF x
    <3> QED
      BY <2>1, <3>1, UnrotatedBound
  <2> QED
    BY <1>4, <2>2 DEF AddressPhasePoint
<1>5. CASE layout # "CycleMajor"
  <2>1. m = p
    BY <1>5, RotatedRounds
  <2>2. Len(s) = l /\ Len(r) = m /\ l \in Nat /\ l + m = n /\ l = n - m
    BY <1>1, <2>1
  <2>3. y \in Points /\ Len(y) = n
    <3>1. r \o s \in Points /\ Len(r \o s) = Len(r) + Len(s)
      BY JoinPoints
    <3>2. Len(r) + Len(s) = n
      BY <1>1, <1>2, <2>2
    <3> QED
      BY <3>1, <3>2
  <2>4. AdviceBoundAt(bound, x, m, n)
    <3>1. m = Rotation(c, kind, layout) /\ n = AdviceVars(c, kind) /\ bound = Bound(SortedOrder(c, kind, layout), x)
      OBVIOUS
    <3> HIDE DEF m, n, bound, x
    <3>2. AdviceBoundAt(Bound(SortedOrder(c, kind, layout), x), x, m, n)
      BY <3>1, AdviceBound
    <3> QED
      BY <3>1, <3>2
  <2>5. PlacesOf(v, n) /\ \A j \in 1 .. n : v[j] = y[n + 1 - j]
    <3>1. y \in Points /\ n = Len(y) /\ v = Reverse(y)
      BY <2>3
    <3> HIDE DEF n, y, v
    <3>2. PlacesOf(Reverse(y), n) /\ \A j \in 1 .. n : Reverse(y)[j] = y[n + 1 - j]
      BY <3>1, ReversePlaces
    <3> QED
      BY <3>1, <3>2
  <2>6. Joined(s, l, r, m) /\ Joined(r, m, s, l)
    <3>1. Len(s) = l /\ Len(r) = m
      BY <2>2
    <3> HIDE DEF l, m
    <3>2. l \in Nat /\ m \in Nat /\ PlacesOf(s, l) /\ PlacesOf(r, m)
      BY <3>1, PointPlaces
    <3> QED
      BY <3>2, JoinPlaces
  <2>7. /\ \A i \in 1 .. l : x[i] = s[i] /\ y[m + i] = s[i]
        /\ \A i \in 1 .. m : x[l + i] = r[i] /\ y[i] = r[i]
    BY <2>6 DEF Joined
  <2>8. Reverse(IF layout = "CycleMajor" THEN s \o r ELSE r \o s) = v
    BY <1>5
  <2>9. l = n - m
    OBVIOUS
  <2> HIDE DEF n, m, l, p, x, y, bound, v
  <2>10. PlacesOf(bound, n) /\ \A j \in 1 .. n : bound[j] = IF j <= n - m THEN x[n - m + 1 - j] ELSE x[n + (n - m) + 1 - j]
    BY <2>4 DEF AdviceBoundAt
  <2>11. ASSUME NEW j \in 1 .. n PROVE bound[j] = v[j]
    <3>1. CASE j <= l
      <4> DEFINE i == l + 1 - j
      <4>1. i \in 1 .. l /\ m + i = n + 1 - j /\ i = n - m + 1 - j /\ j <= n - m
        BY <1>1, <2>2, <3>1
      <4> HIDE DEF i
      <4>2. bound[j] = x[i] /\ v[j] = y[m + i]
        BY <2>5, <2>10, <4>1
      <4> QED
        BY <2>7, <4>1, <4>2
    <3>2. CASE ~(j <= l)
      <4> DEFINE i == n + 1 - j
      <4>1. i \in 1 .. m /\ l + i = n + (n - m) + 1 - j /\ ~(j <= n - m) /\ i = n + 1 - j
        BY <1>1, <2>2, <3>2
      <4> HIDE DEF i
      <4>2. bound[j] = x[l + i] /\ v[j] = y[i]
        BY <2>5, <2>10, <4>1
      <4> QED
        BY <2>7, <4>1, <4>2
    <3> QED
      BY <3>1, <3>2
  <2>12. bound = v
    BY <1>1, <2>5, <2>10, <2>11, SamePlaces
  <2> QED
    BY <2>8, <2>12 DEF AddressPhasePoint, bound, x
<1> QED
  BY <1>4, <1>5

----------------------------------------------------------------------------
(* What the instances append. *)

\* The claims that need not be true: the sums that are left after stage 6, and
\* those on advice that is sorted on the pool in another layout than the proof's.
Untrue(c, k) ==
    \/ k \in CMids
    \/ \E kind \in Range(KindsOf(c)) :
          k = AdviceFinal(kind) /\ SortLayout(c, kind, c.layout) # c.layout

\* Claims in a list, each with a point and, but for those, on the polynomial at
\* that point.
Honest(c, x) == x.point \in Points /\ (x.claim = <<x.key.poly, x.point>> \/ Untrue(c, x.key))
Listed(c, out) == \E S : out \in Seq(S) /\ \A x \in S : Honest(c, x)

\* Functions over 1 .. n are lists.
LEMMA ListedFunction ==
    ASSUME NEW c, NEW n \in Nat, NEW f, f = [i \in 1 .. n |-> f[i]], \A i \in 1 .. n : Honest(c, f[i])
    PROVE  Listed(c, f)
<1> DEFINE S == {f[i] : i \in 1 .. n}
<1>1. \A x \in S : Honest(c, x)
  OBVIOUS
<1>2. \A i \in 1 .. n : f[i] \in S
  OBVIOUS
<1> HIDE DEF S
<1>3. f \in Seq(S)
  <2>1. [i \in 1 .. n |-> f[i]] \in [1 .. n -> S]
    BY <1>2
  <2>2. f \in [1 .. n -> S]
    BY <2>1, Zenon
  <2> QED
    BY <2>2, SeqDef
<1> QED
  BY <1>1, <1>3 DEF Listed

\* Two lists of claims in a row.
LEMMA ListedJoin ==
    ASSUME NEW c, NEW a, NEW b, Listed(c, a), Listed(c, b)
    PROVE  Listed(c, a \o b)
<1>1. PICK S : a \in Seq(S) /\ \A x \in S : Honest(c, x)
  BY DEF Listed
<1>2. PICK T : b \in Seq(T) /\ \A x \in T : Honest(c, x)
  BY DEF Listed
<1>3. a \in Seq(S \cup T) /\ b \in Seq(S \cup T)
  BY <1>1, <1>2
<1>4. a \o b \in Seq(S \cup T)
  BY <1>3
<1>5. \A x \in S \cup T : Honest(c, x)
  BY <1>1, <1>2
<1> QED
  BY <1>4, <1>5 DEF Listed

\* Lists of up to three claims.
LEMMA ListedFew ==
    ASSUME NEW c, NEW x, NEW y, NEW z, Honest(c, x), Honest(c, y), Honest(c, z)
    PROVE  Listed(c, <<>>) /\ Listed(c, <<x>>) /\ Listed(c, <<x, y>>) /\ Listed(c, <<x, y, z>>)
<1> DEFINE S == {x, y, z}
<1>1. x \in S /\ y \in S /\ z \in S /\ \A w \in S : Honest(c, w)
  OBVIOUS
<1> HIDE DEF S
<1>2. <<>> \in Seq(S) /\ <<x>> \in Seq(S) /\ <<x, y>> \in Seq(S) /\ <<x, y, z>> \in Seq(S)
  BY <1>1
<1> QED
  BY <1>1, <1>2, Zenon DEF Listed

\* A claim that is made where the polynomial was bound.
LEMMA OpenedHonest ==
    ASSUME NEW c, NEW k, NEW point \in Points, NEW bound, bound = point
    PROVE  Honest(c, Opened(k, point, bound))
  BY DEF Opened, Honest

\* A list of one claim.
LEMMA OpenedOne ==
    ASSUME NEW c, NEW k, NEW point \in Points, NEW bound, bound = point
    PROVE  Listed(c, <<Opened(k, point, bound)>>)
  BY OpenedHonest, ListedFew

\* Claims of a list of polynomials, at one point.
LEMMA OpenedEachListed ==
    ASSUME NEW c, NEW n \in Nat, NEW polys, DOMAIN polys = 1 .. n, NEW sumcheck,
           NEW point \in Points, NEW bound, bound = point
    PROVE  Listed(c, OpenedEach(polys, sumcheck, point, bound))
<1> DEFINE f == OpenedEach(polys, sumcheck, point, bound)
<1>1. f = [i \in 1 .. n |-> Opened(At(polys[i], sumcheck), point, bound)]
  BY DEF OpenedEach
<1>2. \A i \in 1 .. n : f[i] = Opened(At(polys[i], sumcheck), point, bound)
  BY <1>1
<1>3. f = [i \in 1 .. n |-> f[i]]
  BY <1>1
<1> HIDE DEF f
<1>4. \A i \in 1 .. n : Honest(c, f[i])
  BY <1>2, OpenedHonest
<1>5. Listed(c, f)
  BY <1>3, <1>4, ListedFunction
<1> QED
  BY <1>5 DEF f

\* The same for the short lists the sumchecks have.
LEMMA OpenedEachFew ==
    ASSUME NEW c, NEW a, NEW b, NEW g, NEW d, NEW e, NEW s, NEW t, NEW u,
           NEW sumcheck, NEW point \in Points, NEW bound, bound = point
    PROVE  /\ Listed(c, OpenedEach(<<a, b>>, sumcheck, point, bound))
           /\ Listed(c, OpenedEach(<<a, b, g>>, sumcheck, point, bound))
           /\ Listed(c, OpenedEach(<<a, b, g, d, e>>, sumcheck, point, bound))
           /\ Listed(c, OpenedEach(<<a, b, g, d, e, s, t, u>>, sumcheck, point, bound))
<1>1. Listed(c, OpenedEach(<<a, b>>, sumcheck, point, bound))
  <2>1. DOMAIN <<a, b>> = 1 .. 2
    OBVIOUS
  <2> QED
    BY <2>1, OpenedEachListed
<1>2. Listed(c, OpenedEach(<<a, b, g>>, sumcheck, point, bound))
  <2>1. DOMAIN <<a, b, g>> = 1 .. 3
    OBVIOUS
  <2> QED
    BY <2>1, OpenedEachListed
<1>3. Listed(c, OpenedEach(<<a, b, g, d, e>>, sumcheck, point, bound))
  <2>1. DOMAIN <<a, b, g, d, e>> = 1 .. 5
    OBVIOUS
  <2> QED
    BY <2>1, OpenedEachListed
<1>4. Listed(c, OpenedEach(<<a, b, g, d, e, s, t, u>>, sumcheck, point, bound))
  <2>1. DOMAIN <<a, b, g, d, e, s, t, u>> = 1 .. 8
    OBVIOUS
  <2> QED
    BY <2>1, OpenedEachListed
<1> QED
  BY <1>1, <1>2, <1>3, <1>4

\* Claims about one polynomial per chunk of an address.
LEMMA ChunkPointsFacts ==
    ASSUME NEW n \in Nat, NEW chunks, DOMAIN chunks = 1 .. n, \A i \in 1 .. n : chunks[i] \in Points,
           NEW r_cycle \in Points
    PROVE  \A i \in 1 .. n : ChunkPoints(chunks, r_cycle)[i] \in Points
<1>1. ASSUME NEW i \in 1 .. n PROVE ChunkPoints(chunks, r_cycle)[i] \in Points
  <2>1. chunks[i] \in Points
    OBVIOUS
  <2>2. chunks[i] \o r_cycle \in Points
    BY <2>1, JoinPoints
  <2>3. ChunkPoints(chunks, r_cycle)[i] = chunks[i] \o r_cycle
    BY DEF ChunkPoints
  <2> QED
    BY <2>2, <2>3
<1> QED
  BY <1>1

\* A claim for every place of a list, at a point of its own.
LEMMA OpenedAtPoints ==
    ASSUME NEW c, NEW n \in Nat, NEW keys, NEW points, NEW bounds,
           \A i \in 1 .. n : points[i] \in Points /\ bounds[i] = points[i],
           NEW f, f = [i \in 1 .. n |-> Opened(keys[i], points[i], bounds[i])]
    PROVE  Listed(c, f)
<1>1. f = [i \in 1 .. n |-> f[i]] /\ \A i \in 1 .. n : f[i] = Opened(keys[i], points[i], bounds[i])
  OBVIOUS
<1>2. \A i \in 1 .. n : Honest(c, f[i])
  BY <1>1, OpenedHonest
<1> QED
  BY <1>1, <1>2, ListedFunction

----------------------------------------------------------------------------
(* The instances. *)

\* The claims of an accumulator have points.
AccPoints(acc) == \A k \in DOMAIN acc.openings : acc.openings[k].point \in Points

\* The point looked up for a key is a point, also for a key that is not there.
LEMMA PointOfPoint ==
    ASSUME NEW acc, AccPoints(acc), NEW k
    PROVE  PointOf(acc, k) \in Points /\ Len(PointOf(acc, k)) \in Nat
<1>1. PointOf(acc, k) \in Points
  <2>1. <<>> \in Points
    BY DEF Points
  <2> QED
    BY <2>1 DEF PointOf, Has, AccPoints, Acc!Opening
<1> QED
  BY <1>1 DEF Points

\* An instance without rounds or powers of its own; what any appends.
Plain(x) ==
    /\ x.offset = RoundOffset(x.rounds)
    /\ x.pre = 0 /\ x.dummies = {} /\ x.scale = [j \in Nat |-> 0] /\ x.final = 0
Answers(c, x) == \A r \in Points : Len(r) = x.rounds => Listed(c, x.prover[r])

\* The first round of the outer sumcheck.
LEMMA OuterUniSkipFacts ==
    ASSUME NEW c
    PROVE  Plain(OuterUniSkip) /\ OuterUniSkip.rounds = 1 /\ Answers(c, OuterUniSkip)
<1>1. Plain(OuterUniSkip) /\ OuterUniSkip.rounds = 1
  BY DEF OuterUniSkip, Instance, Plain
<1>2. ASSUME NEW r \in Points PROVE Listed(c, OuterUniSkip.prover[r])
  <2>1. OuterUniSkip.prover[r] = OuterUniSkipProver(r)
    BY DEF OuterUniSkip, Instance
  <2> QED
    BY <2>1, OpenedOne DEF OuterUniSkipProver
<1> QED
  BY <1>1, <1>2 DEF Answers

\* Its other rounds: one for the halves of the constraints, and the cycles.
LEMMA OuterRemainingFacts ==
    ASSUME NEW acc, NEW c \in Configs
    PROVE  /\ Plain(OuterRemaining(acc, c)) /\ Answers(c, OuterRemaining(acc, c))
           /\ OuterRemaining(acc, c).rounds = 1 + c.log_T
<1>1. Plain(OuterRemaining(acc, c)) /\ OuterRemaining(acc, c).rounds = 1 + c.log_T
  BY DEF OuterRemaining, Instance, Plain
<1>2. ASSUME NEW r \in Points, Len(r) = 1 + c.log_T PROVE Listed(c, OuterRemaining(acc, c).prover[r])
  <2>1. OuterRemaining(acc, c).prover[r] = OuterProver(r)
    BY DEF OuterRemaining, Instance
  <2>2. c.log_T \in Nat
    BY ConfigAssumption
  <2>3. r # <<>>
    BY <1>2, <2>2
  <2>4. OuterPoint(r) \in Points
    BY <2>3, TailPoint, ReversePoint DEF OuterPoint
  <2>5. DOMAIN R1CSInputs = 1 .. 35
    BY DEF R1CSInputs
  <2> QED
    BY <2>1, <2>4, <2>5, OpenedEachListed DEF OuterProver
<1> QED
  BY <1>1, <1>2 DEF Answers

\* The first round of the product sumcheck.
LEMMA ProductUniSkipFacts ==
    ASSUME NEW acc, NEW c
    PROVE  /\ Plain(ProductUniSkip(acc)) /\ Answers(c, ProductUniSkip(acc))
           /\ ProductUniSkip(acc).rounds = 1
<1>1. Plain(ProductUniSkip(acc)) /\ ProductUniSkip(acc).rounds = 1
  BY DEF ProductUniSkip, Instance, Plain
<1>2. ASSUME NEW r \in Points PROVE Listed(c, ProductUniSkip(acc).prover[r])
  <2>1. ProductUniSkip(acc).prover[r] = ProductUniSkipProver(r)
    BY DEF ProductUniSkip, Instance
  <2> QED
    BY <2>1, OpenedOne DEF ProductUniSkipProver
<1> QED
  BY <1>1, <1>2 DEF Answers

\* The sumchecks that open several polynomials at the cycle they end with.
LEMMA CycleFacts ==
    ASSUME NEW acc, NEW c \in Configs
    PROVE  /\ Plain(ProductRemainder(acc, c)) /\ Answers(c, ProductRemainder(acc, c))
           /\ ProductRemainder(acc, c).rounds = c.log_T
           /\ Plain(InstructionReduction(acc, c)) /\ Answers(c, InstructionReduction(acc, c))
           /\ InstructionReduction(acc, c).rounds = c.log_T
           /\ Plain(Shift(acc, c)) /\ Answers(c, Shift(acc, c)) /\ Shift(acc, c).rounds = c.log_T
           /\ Plain(RegistersReduction(acc, c)) /\ Answers(c, RegistersReduction(acc, c))
           /\ RegistersReduction(acc, c).rounds = c.log_T
           /\ Plain(IncReduction(acc, c)) /\ Answers(c, IncReduction(acc, c))
           /\ IncReduction(acc, c).rounds = c.log_T
<1>1. Plain(ProductRemainder(acc, c)) /\ ProductRemainder(acc, c).rounds = c.log_T
  BY DEF ProductRemainder, Instance, Plain
<1>2. Plain(InstructionReduction(acc, c)) /\ InstructionReduction(acc, c).rounds = c.log_T
  BY DEF InstructionReduction, Instance, Plain
<1>3. Plain(Shift(acc, c)) /\ Shift(acc, c).rounds = c.log_T
  BY DEF Shift, Instance, Plain
<1>4. Plain(RegistersReduction(acc, c)) /\ RegistersReduction(acc, c).rounds = c.log_T
  BY DEF RegistersReduction, Instance, Plain
<1>5. Plain(IncReduction(acc, c)) /\ IncReduction(acc, c).rounds = c.log_T
  BY DEF IncReduction, Instance, Plain
<1>6. ASSUME NEW r \in Points
      PROVE  /\ Listed(c, ProductRemainder(acc, c).prover[r])
             /\ Listed(c, InstructionReduction(acc, c).prover[r])
             /\ Listed(c, Shift(acc, c).prover[r])
             /\ Listed(c, RegistersReduction(acc, c).prover[r])
             /\ Listed(c, IncReduction(acc, c).prover[r])
  <2>1. /\ ProductRemainder(acc, c).prover[r] = ProductProver(r)
        /\ InstructionReduction(acc, c).prover[r] = InstructionReductionProver(r)
        /\ Shift(acc, c).prover[r] = ShiftProver(r)
        /\ RegistersReduction(acc, c).prover[r] = RegistersReductionProver(r)
        /\ IncReduction(acc, c).prover[r] = IncProver(r)
    BY DEF ProductRemainder, InstructionReduction, Shift, RegistersReduction, IncReduction, Instance
  <2>2. Reverse(r) \in Points /\ LowToHigh(r) = Reverse(r)
    BY ReversePoint, BoundInOrder
  <2>4. Listed(c, ProductProver(r))
    <3>1. DOMAIN ProductFactors = 1 .. 8
      BY DEF ProductFactors
    <3> QED
      BY <2>2, <3>1, OpenedEachListed DEF ProductProver
  <2>5. Listed(c, InstructionReductionProver(r))
    BY <2>2, OpenedEachFew DEF InstructionReductionProver
  <2>6. Listed(c, ShiftProver(r))
    BY <2>2, OpenedEachFew DEF ShiftProver
  <2>7. Listed(c, RegistersReductionProver(r))
    BY <2>2, OpenedEachFew DEF RegistersReductionProver
  <2>8. Listed(c, IncProver(r))
    BY <2>2, OpenedEachFew DEF IncProver
  <2> QED
    BY <2>1, <2>4, <2>5, <2>6, <2>7, <2>8
<1> QED
  BY <1>1, <1>2, <1>3, <1>4, <1>5, <1>6 DEF Answers

\* Read-write checking of RAM has no powers of two, whatever its phases.
LEMMA RamReadWriteFacts ==
    ASSUME NEW acc, NEW c \in Configs
    PROVE  /\ Plain(RamReadWrite(acc, c)) /\ Answers(c, RamReadWrite(acc, c))
           /\ RamReadWrite(acc, c).rounds = c.ram_log_K + c.log_T
<1>1. Plain(RamReadWrite(acc, c)) /\ RamReadWrite(acc, c).rounds = c.ram_log_K + c.log_T
  BY DEF RamReadWrite, Instance, Plain
<1>2. ASSUME NEW r \in Points, Len(r) = c.ram_log_K + c.log_T PROVE Listed(c, RamReadWrite(acc, c).prover[r])
  <2>1. RamReadWrite(acc, c).prover[r] = RamReadWriteProver(c, r)
    BY DEF RamReadWrite, Instance
  <2>2. c.log_T \in Nat /\ c.ram_log_K \in Nat /\ c.p1 \in 0 .. c.log_T /\ c.p2 \in 0 .. c.ram_log_K
    BY ConfigAssumption
  <2> DEFINE point == ReadWritePoint(c.log_T, c.p1, c.p2, r)
             bound == Bound(ReadWriteOrder(c.ram_log_K, c.log_T, c.p1, c.p2), r)
             cycle == LowToHigh(Without(r, DOMAIN r \ CycleRounds(c.log_T, c.p1, c.p2)))
  <2>6. bound = point /\ cycle = From(point, c.ram_log_K)
    <3> DEFINE K == c.ram_log_K
               T == c.log_T
               p1 == c.p1
               p2 == c.p2
               d == DOMAIN r \ CycleRounds(T, p1, p2)
    <3>1. /\ K \in Nat /\ T \in Nat /\ p1 \in 0 .. T /\ p2 \in 0 .. K /\ Len(r) = K + T
          /\ d = DOMAIN r \ CycleRounds(T, p1, p2)
      BY <1>2, <2>2
    <3> HIDE DEF K, T, p1, p2, d
    <3>2. Bound(ReadWriteOrder(K, T, p1, p2), r) = ReadWritePoint(T, p1, p2, r)
      BY <3>1, ReadWriteBound
    <3>3. LowToHigh(Without(r, d)) = From(ReadWritePoint(T, p1, p2, r), K)
      BY <3>1, CycleBound
    <3> QED
      BY <3>2, <3>3 DEF K, T, p1, p2, d
  <2>3. point \in Points
    <3>1. c.p2 \in Nat /\ c.p1 + c.p2 <= Len(r)
      BY <1>2, <2>2
    <3> QED
      BY <2>2, <3>1, ReadWritePointFacts
  <2>7. RamReadWriteProver(c, r)
          = << Opened(RamRW("RamVal"), point, bound), Opened(RamRW("RamRa"), point, bound),
               Opened(RamInc("RamReadWriteChecking"), From(point, c.ram_log_K), cycle) >>
    BY DEF RamReadWriteProver
  <2> HIDE DEF point, bound, cycle
  <2>4. From(point, c.ram_log_K) \in Points
    BY <2>2, <2>3, FromFacts
  <2>5. ASSUME NEW k, NEW l, NEW m
        PROVE  Listed(c, << Opened(k, point, bound), Opened(l, point, bound),
                            Opened(m, From(point, c.ram_log_K), cycle) >>)
    <3> DEFINE tail == From(point, c.ram_log_K)
    <3>1. tail \in Points /\ cycle = tail
      BY <2>4, <2>6
    <3> HIDE DEF tail
    <3>2. /\ Honest(c, Opened(k, point, bound)) /\ Honest(c, Opened(l, point, bound))
          /\ Honest(c, Opened(m, tail, cycle))
      BY <2>3, <2>6, <3>1, OpenedHonest
    <3>3. Listed(c, << Opened(k, point, bound), Opened(l, point, bound), Opened(m, tail, cycle) >>)
      BY <3>2, ListedFew, Zenon
    <3> QED
      BY <3>3 DEF tail
  <2> QED
    BY <2>1, <2>5, <2>7
<1> QED
  BY <1>1, <1>2 DEF Answers

\* Three claims and two.
LEMMA FiveJoin ==
    \A x, y, z, v, w : <<x, y, z>> \o <<v, w>> = <<x, y, z, v, w>>
<1> SUFFICES ASSUME NEW x, NEW y, NEW z, NEW v, NEW w PROVE <<x, y, z>> \o <<v, w>> = <<x, y, z, v, w>>
  OBVIOUS
<1> DEFINE S == {x, y, z, v, w}
           s == <<x, y, z>>
           t == <<v, w>>
           u == <<x, y, z, v, w>>
<1>1. s \in Seq(S) /\ t \in Seq(S) /\ u \in Seq(S)
  OBVIOUS
<1>2. Len(s) = 3 /\ Len(t) = 2 /\ Len(u) = 5 /\ s \o t \in Seq(S) /\ Len(s \o t) = 5
  BY <1>1
<1>3. \A i \in 1 .. 5 : i = 1 \/ i = 2 \/ i = 3 \/ i = 4 \/ i = 5
  OBVIOUS
<1>4. /\ (s \o t)[1] = x /\ (s \o t)[2] = y /\ (s \o t)[3] = z
      /\ (s \o t)[4] = v /\ (s \o t)[5] = w
  BY <1>1, <1>2
<1>5. \A i \in 1 .. 5 : (s \o t)[i] = u[i]
  BY <1>3, <1>4
<1> HIDE DEF s, t, u
<1>6. s \o t = u
  BY <1>1, <1>2, <1>5, SeqEqual
<1> QED
  BY <1>6 DEF s, t, u

\* Neither has that of the registers.
LEMMA RegistersReadWriteFacts ==
    ASSUME NEW acc, NEW c \in Configs
    PROVE  /\ Plain(RegistersReadWrite(acc, c)) /\ Answers(c, RegistersReadWrite(acc, c))
           /\ RegistersReadWrite(acc, c).rounds = LogRegisters + c.log_T
<1>1. Plain(RegistersReadWrite(acc, c)) /\ RegistersReadWrite(acc, c).rounds = LogRegisters + c.log_T
  BY DEF RegistersReadWrite, Instance, Plain
<1>2. ASSUME NEW r \in Points, Len(r) = LogRegisters + c.log_T
      PROVE  Listed(c, RegistersReadWrite(acc, c).prover[r])
  <2>1. RegistersReadWrite(acc, c).prover[r] = RegistersReadWriteProver(c, r)
    BY DEF RegistersReadWrite, Instance
  <2>2. c.log_T \in Nat /\ LogRegisters \in Nat /\ c.q1 \in 0 .. c.log_T /\ c.q2 \in 0 .. LogRegisters
    BY ConfigAssumption, OneHotAssumption
  <2> DEFINE point == ReadWritePoint(c.log_T, c.q1, c.q2, r)
             bound == Bound(ReadWriteOrder(LogRegisters, c.log_T, c.q1, c.q2), r)
             cycle == LowToHigh(Without(r, DOMAIN r \ CycleRounds(c.log_T, c.q1, c.q2)))
             tail == From(point, LogRegisters)
  <2>6. bound = point /\ cycle = tail
    <3> DEFINE K == LogRegisters
               T == c.log_T
               p1 == c.q1
               p2 == c.q2
               d == DOMAIN r \ CycleRounds(T, p1, p2)
    <3>1. /\ K \in Nat /\ T \in Nat /\ p1 \in 0 .. T /\ p2 \in 0 .. K /\ Len(r) = K + T
          /\ d = DOMAIN r \ CycleRounds(T, p1, p2)
      BY <1>2, <2>2
    <3> HIDE DEF K, T, p1, p2, d
    <3>2. Bound(ReadWriteOrder(K, T, p1, p2), r) = ReadWritePoint(T, p1, p2, r)
      BY <3>1, ReadWriteBound
    <3>3. LowToHigh(Without(r, d)) = From(ReadWritePoint(T, p1, p2, r), K)
      BY <3>1, CycleBound
    <3> QED
      BY <3>2, <3>3 DEF K, T, p1, p2, d
  <2>3. point \in Points
    <3>1. c.q2 \in Nat /\ c.q1 + c.q2 <= Len(r)
      BY <1>2, <2>2
    <3> QED
      BY <2>2, <3>1, ReadWritePointFacts
  <2>7. RegistersReadWriteProver(c, r)
          = << Opened(RegRW("RegistersVal"), point, bound), Opened(RegRW("Rs1Ra"), point, bound),
               Opened(RegRW("Rs2Ra"), point, point), Opened(RegRW("RdWa"), point, bound),
               Opened(RdInc("RegistersReadWriteChecking"), tail, cycle) >>
    BY DEF RegistersReadWriteProver
  <2>4. tail \in Points
    <3> HIDE DEF point
    <3> QED
      BY <2>2, <2>3, FromFacts
  <2> HIDE DEF point, bound, cycle, tail
  <2>5. ASSUME NEW k, NEW l, NEW m, NEW n, NEW i
        PROVE  Listed(c, << Opened(k, point, bound), Opened(l, point, bound), Opened(m, point, point),
                            Opened(n, point, bound), Opened(i, tail, cycle) >>)
    <3> DEFINE s == << Opened(k, point, bound), Opened(l, point, bound), Opened(m, point, point) >>
               t == << Opened(n, point, bound), Opened(i, tail, cycle) >>
    <3>1. /\ Honest(c, Opened(k, point, bound)) /\ Honest(c, Opened(l, point, bound))
          /\ Honest(c, Opened(m, point, point)) /\ Honest(c, Opened(n, point, bound))
          /\ Honest(c, Opened(i, tail, cycle))
      BY <2>3, <2>4, <2>6, OpenedHonest
    <3>2. Listed(c, s)
      BY <3>1, ListedFew, Zenon
    <3>3. Listed(c, t)
      BY <3>1, ListedFew, Zenon
    <3>4. Listed(c, s \o t)
      BY <3>2, <3>3, ListedJoin
    <3> QED
      BY <3>4, FiveJoin, Zenon
  <2> QED
    BY <2>1, <2>5, <2>7
<1> QED
  BY <1>1, <1>2 DEF Answers

\* The RAF and the output check but for the powers of two.
LEMMA GappedFacts ==
    ASSUME NEW acc, AccPoints(acc), NEW c \in Configs, NEW x \in {RamRaf(acc, c), RamOutput(c)}
    PROVE  /\ Answers(c, x)
           /\ x.rounds = GappedRounds(c) /\ x.offset = GappedOffset(c) /\ x.pre = Gap(c)
           /\ x.dummies = GapRounds(c) /\ (\A j \in Nat : x.scale[j] = Gap(c)) /\ x.final = 0
<1>1. /\ x.rounds = GappedRounds(c) /\ x.offset = GappedOffset(c) /\ x.pre = Gap(c)
      /\ x.dummies = GapRounds(c) /\ (\A j \in Nat : x.scale[j] = Gap(c)) /\ x.final = 0
  <2>1. CASE x = RamRaf(acc, c)
    BY <2>1 DEF RamRaf, Gapped, Instance
  <2>2. CASE x = RamOutput(c)
    BY <2>2 DEF RamOutput, Gapped, Instance
  <2> QED
    BY <2>1, <2>2
<1>2. ASSUME NEW r \in Points, Len(r) = x.rounds PROVE Listed(c, x.prover[r])
  <2>1. c.log_T \in Nat /\ c.p1 \in 0 .. c.log_T /\ c.p2 \in Nat
    BY ConfigAssumption
  <2>2. GappedAddress(c, r) \in Points
    <3> DEFINE k == c.p2 + Gap(c)
    <3>1. k \in Nat
      BY <2>1 DEF Gap
    <3> HIDE DEF k
    <3>2. First(r, c.p2) \in Points /\ From(r, k) \in Points
      BY <2>1, <3>1, FirstFacts, FromFacts
    <3>3. First(r, c.p2) \o From(r, k) \in Points
      BY <3>2, JoinPoints
    <3>4. Reverse(First(r, c.p2) \o From(r, k)) \in Points
      BY <3>3, ReversePoint
    <3> QED
      BY <3>4 DEF GappedAddress, k
  <2> DEFINE bound == LowToHigh(Without(r, GapRounds(c)))
             address == GappedAddress(c, r)
  <2>5. bound = address
    BY <1>1, <1>2, GappedBound
  <2>3. CASE x = RamRaf(acc, c)
    <3> DEFINE r_cycle == PointOf(acc, Outer("RamAddress"))
    <3>1. x.prover[r] = << Opened(RamRa("RamRafEvaluation"), address \o r_cycle, bound \o r_cycle) >>
      BY <2>3 DEF RamRaf, Gapped, Instance, RamRafProver
    <3>2. r_cycle \in Points
      BY PointOfPoint
    <3> HIDE DEF r_cycle, bound
    <3>3. address \o r_cycle \in Points
      BY <2>2, <3>2, JoinPoints
    <3> HIDE DEF address
    <3>4. bound \o r_cycle = address \o r_cycle
      BY <2>5
    <3> QED
      BY <3>1, <3>3, <3>4, OpenedOne
  <2>4. CASE x = RamOutput(c)
    <3>1. x.prover[r] = << Opened(At(Virt("RamValFinal"), "RamOutputCheck"), address, bound) >>
      BY <2>4 DEF RamOutput, Gapped, Instance, RamOutputProver
    <3> HIDE DEF bound, address
    <3> QED
      BY <2>2, <2>5, <3>1, OpenedOne DEF address
  <2> QED
    BY <2>3, <2>4
<1> QED
  BY <1>1, <1>2 DEF Answers

\* The instruction inputs have as many rounds as the point of their claims.
LEMMA InstructionInputFacts ==
    ASSUME NEW c, NEW acc, AccPoints(acc)
    PROVE  /\ Plain(InstructionInput(acc)) /\ Answers(c, InstructionInput(acc))
           /\ InstructionInput(acc).rounds \in Nat
<1>1. /\ Plain(InstructionInput(acc))
      /\ InstructionInput(acc).rounds = Len(PointOf(acc, Product("LeftInstructionInput")))
  BY DEF InstructionInput, Instance, Plain
<1>2. ASSUME NEW r \in Points PROVE Listed(c, InstructionInput(acc).prover[r])
  <2>1. InstructionInput(acc).prover[r] = InstructionInputProver(r)
    BY DEF InstructionInput, Instance
  <2>2. Reverse(r) \in Points /\ LowToHigh(r) = Reverse(r)
    BY ReversePoint, BoundInOrder
  <2> QED
    BY <2>1, <2>2, OpenedEachFew DEF InstructionInputProver
<1> QED
  BY <1>1, <1>2, PointOfPoint DEF Answers

\* The check of the values of RAM and the reduction of its addresses run over the cycles.
LEMMA RamValFacts ==
    ASSUME NEW acc, AccPoints(acc), NEW c \in Configs
    PROVE  /\ Plain(RamVal(acc, c)) /\ Answers(c, RamVal(acc, c)) /\ RamVal(acc, c).rounds = c.log_T
           /\ Plain(RamRaReduction(acc, c)) /\ Answers(c, RamRaReduction(acc, c))
           /\ RamRaReduction(acc, c).rounds = c.log_T
<1>1. Plain(RamVal(acc, c)) /\ RamVal(acc, c).rounds = c.log_T
  BY DEF RamVal, Instance, Plain
<1>2. Plain(RamRaReduction(acc, c)) /\ RamRaReduction(acc, c).rounds = c.log_T
  BY DEF RamRaReduction, Instance, Plain
<1>3. ASSUME NEW r \in Points
      PROVE  Listed(c, RamVal(acc, c).prover[r]) /\ Listed(c, RamRaReduction(acc, c).prover[r])
  <2> DEFINE a == First(PointOf(acc, RamRW("RamVal")), c.ram_log_K)
             b == First(PointOf(acc, RamRa("RamRafEvaluation")), c.ram_log_K)
  <2>1. a \in Points /\ b \in Points
    <3>1. c.ram_log_K \in Nat
      BY ConfigAssumption
    <3> QED
      BY <3>1, PointOfPoint, FirstFacts
  <2>2. RamVal(acc, c).prover[r] = RamValProver(a, r)
    BY DEF RamVal, Instance
  <2>3. RamRaReduction(acc, c).prover[r] = RamRaReductionProver(b, r)
    BY DEF RamRaReduction, Instance
  <2> HIDE DEF a, b
  <2>4. Reverse(r) \in Points /\ LowToHigh(r) = Reverse(r)
    BY ReversePoint, BoundInOrder
  <2>5. /\ a \o Reverse(r) \in Points /\ b \o Reverse(r) \in Points
        /\ a \o LowToHigh(r) = a \o Reverse(r) /\ b \o LowToHigh(r) = b \o Reverse(r)
    BY <2>1, <2>4, JoinPoints
  <2>6. Listed(c, RamRaReductionProver(b, r))
    BY <2>5, OpenedOne DEF RamRaReductionProver
  <2>7. Listed(c, RamValProver(a, r))
    BY <2>4, <2>5, OpenedHonest, ListedFew DEF RamValProver
  <2> QED
    BY <2>2, <2>3, <2>6, <2>7
<1> QED
  BY <1>1, <1>2, <1>3 DEF Answers

\* The check of the values of the registers.
LEMMA RegistersValFacts ==
    ASSUME NEW c, NEW acc, AccPoints(acc)
    PROVE  /\ Plain(RegistersVal(acc)) /\ Answers(c, RegistersVal(acc)) /\ RegistersVal(acc).rounds \in Nat
<1> DEFINE point == PointOf(acc, RegRW("RegistersVal"))
<1>1. Plain(RegistersVal(acc)) /\ RegistersVal(acc).rounds = Len(From(point, LogRegisters))
  BY DEF RegistersVal, Instance, Plain
<1>2. point \in Points /\ LogRegisters \in Nat
  BY PointOfPoint, OneHotAssumption
<1>3. \A r \in Points : RegistersVal(acc).prover[r] = RegistersValProver(First(point, LogRegisters), r)
  BY DEF RegistersVal, Instance
<1> HIDE DEF point
<1> DEFINE a == First(point, LogRegisters)
           t == From(point, LogRegisters)
<1>4. a \in Points /\ t \in Points
  BY <1>2, FirstFacts, FromFacts
<1> HIDE DEF a, t
<1>5. ASSUME NEW r \in Points PROVE Listed(c, RegistersVal(acc).prover[r])
  <2>1. RegistersVal(acc).prover[r] = RegistersValProver(a, r)
    BY <1>3 DEF a
  <2>2. Reverse(r) \in Points /\ LowToHigh(r) = Reverse(r)
    BY ReversePoint, BoundInOrder
  <2>3. a \o Reverse(r) \in Points /\ a \o LowToHigh(r) = a \o Reverse(r)
    BY <1>4, <2>2, JoinPoints
  <2> QED
    BY <2>1, <2>2, <2>3, OpenedHonest, ListedFew DEF RegistersValProver
<1>6. Len(t) \in Nat
  BY <1>4 DEF Points
<1>7. RegistersVal(acc).rounds = Len(t)
  BY <1>1 DEF t
<1> QED
  BY <1>1, <1>5, <1>6, <1>7 DEF Answers

\* The one-hot polynomials are a list.
LEMMA ChunksAreMany ==
    /\ \A k \in Nat : ChunksOf(k) \in Nat
    /\ InstructionD \in Nat /\ VirtualD \in Nat
<1>1. LogKChunk \in Nat \ {0} /\ LogKVirtualChunk \in Nat \ {0} /\ LOG_K \in Nat
  BY OneHotAssumption
<1>2. ASSUME NEW n \in Nat, NEW k \in Nat \ {0} PROVE n \div k \in Nat
  OBVIOUS
<1>3. ASSUME NEW k \in Nat PROVE ChunksOf(k) \in Nat
  <2>1. k + LogKChunk - 1 \in Nat
    BY <1>1
  <2> QED
    BY <1>1, <1>2, <2>1 DEF ChunksOf
<1> QED
  BY <1>1, <1>2, <1>3 DEF InstructionD, VirtualD

\* What is built place by place is a list, and so are two of them in a row.
LEMMA DomainOfJoin ==
    ASSUME NEW S, NEW s \in Seq(S), NEW t \in Seq(S)
    PROVE  s \o t \in Seq(S) /\ \E n \in Nat : DOMAIN (s \o t) = 1 .. n
<1>1. s \o t \in Seq(S)
  OBVIOUS
<1> QED
  BY <1>1

\* The one-hot polynomials have places 1, 2 and so on.
LEMMA RaPolynomialsFacts ==
    ASSUME NEW c \in Configs
    PROVE  \E n \in Nat : DOMAIN RaPolynomials(c) = 1 .. n
<1> DEFINE a == [i \in 1 .. InstructionD |-> CommAt("InstructionRa", i)]
           b == [i \in 1 .. ChunksOf(c.bytecode_log_K) |-> CommAt("BytecodeRa", i)]
           d == [i \in 1 .. ChunksOf(c.ram_log_K) |-> CommAt("RamRa", i)]
           S == {CommAt(x, i) : x \in {"InstructionRa", "BytecodeRa", "RamRa"}, i \in Nat}
<1>1. InstructionD \in Nat /\ ChunksOf(c.bytecode_log_K) \in Nat /\ ChunksOf(c.ram_log_K) \in Nat
  BY ChunksAreMany, ConfigAssumption
<1>2. ASSUME NEW n \in Nat, NEW x \in {"InstructionRa", "BytecodeRa", "RamRa"}
      PROVE  [i \in 1 .. n |-> CommAt(x, i)] \in Seq(S)
  <2>1. \A i \in 1 .. n : CommAt(x, i) \in S
    OBVIOUS
  <2> HIDE DEF S
  <2> QED
    BY <2>1
<1> HIDE DEF S
<1>3. a \in Seq(S) /\ b \in Seq(S) /\ d \in Seq(S)
  BY <1>1, <1>2
<1> HIDE DEF a, b, d
<1>4. a \o b \in Seq(S)
  BY <1>3, DomainOfJoin
<1>5. \E n \in Nat : DOMAIN (a \o b \o d) = 1 .. n
  BY <1>3, <1>4, DomainOfJoin
<1> QED
  BY <1>5 DEF RaPolynomials, a, b, d

\* The read and address check of the lookups: the address, then the cycles.
LEMMA ReadRafFacts ==
    ASSUME NEW acc, NEW c \in Configs
    PROVE  /\ Plain(InstructionReadRaf(acc, c)) /\ Answers(c, InstructionReadRaf(acc, c))
           /\ InstructionReadRaf(acc, c).rounds = LOG_K + c.log_T
<1>1. Plain(InstructionReadRaf(acc, c)) /\ InstructionReadRaf(acc, c).rounds = LOG_K + c.log_T
  BY DEF InstructionReadRaf, Instance, Plain
<1>2. ASSUME NEW r \in Points, Len(r) = LOG_K + c.log_T
      PROVE  Listed(c, InstructionReadRaf(acc, c).prover[r])
  <2>1. InstructionReadRaf(acc, c).prover[r] = ReadRafProver(r)
    BY DEF InstructionReadRaf, Instance
  <2>2. LOG_K \in Nat /\ c.log_T \in Nat /\ LogKVirtualChunk \in Nat \ {0} /\ NumLookupTables \in Nat
    BY OneHotAssumption, ConfigAssumption
  <2> DEFINE address == First(r, LOG_K)
             cycle == From(r, LOG_K)
             chunks == VirtualChunks(address)
             points == ChunkPoints(chunks, Reverse(cycle))
             bounds == ChunkPoints(VirtualChunks(HighToLow(address)), LowToHigh(cycle))
             n == VirtualD
             flags == OpenedEach(TableFlags, "InstructionReadRaf", Reverse(cycle), Reverse(cycle))
             ras == [i \in 1 .. VirtualD |->
                       Opened(ReadRaf(VirtAt("InstructionRa", i)), points[i], bounds[i])]
             raf == << Opened(ReadRaf(Virt("InstructionRafFlag")), Reverse(cycle), Reverse(cycle)) >>
  <2>3. address \in Points /\ Len(address) = LOG_K /\ cycle \in Points
    <3>1. LOG_K <= Len(r)
      BY <1>2, <2>2
    <3>2. /\ First(r, LOG_K) \in Points /\ From(r, LOG_K) \in Points
          /\ Len(First(r, LOG_K)) = IF LOG_K <= Len(r) THEN LOG_K ELSE Len(r)
      BY <2>2, FirstFacts, FromFacts, Zenon
    <3> QED
      BY <3>1, <3>2
  <2> HIDE DEF cycle
  <2>4. Reverse(cycle) \in Points /\ LowToHigh(cycle) = Reverse(cycle)
    BY <2>3, ReversePoint, BoundInOrder
  <2>13. bounds = points
    <3> HIDE DEF address
    <3>1. HighToLow(address) = address
      BY <2>3, BoundInOrder
    <3> QED
      BY <2>4, <3>1
  <2>5. n \in Nat /\ DOMAIN chunks = 1 .. n /\ \A i \in 1 .. n : chunks[i] \in Points
    <3> HIDE DEF address
    <3>1. n \in Nat /\ n = LOG_K \div LogKVirtualChunk
      BY ChunksAreMany DEF VirtualD
    <3>2. ASSUME NEW i \in 1 .. n PROVE chunks[i] \in Points
      <4> DEFINE e == i * LogKVirtualChunk
                 s == (i - 1) * LogKVirtualChunk + 1
      <4>1. e \in Nat /\ e <= LOG_K /\ s \in Nat \ {0}
        BY <2>2, <3>1, ChunkBounds
      <4> HIDE DEF e, s
      <4>2. SubSeq(address, s, e) \in Points
        BY <2>3, <4>1, PartOfPoint
      <4> QED
        BY <4>2 DEF VirtualChunks, e, s
    <3>3. DOMAIN chunks = 1 .. n
      BY DEF VirtualChunks
    <3> QED
      BY <3>1, <3>2, <3>3
  <2> HIDE DEF address, chunks
  <2>6. \A i \in 1 .. n : points[i] \in Points
    BY <2>4, <2>5, ChunkPointsFacts
  <2> HIDE DEF points, bounds
  <2>14. \A i \in 1 .. n : points[i] \in Points /\ bounds[i] = points[i]
    BY <2>6, <2>13
  <2>7. Listed(c, ras)
    <3> DEFINE keys == [i \in 1 .. n |-> ReadRaf(VirtAt("InstructionRa", i))]
    <3>1. ASSUME NEW f, f = [i \in 1 .. n |-> Opened(keys[i], points[i], bounds[i])] PROVE Listed(c, f)
      <4> HIDE DEF keys, n
      <4> QED
        BY <2>5, <2>14, <3>1, OpenedAtPoints
    <3>2. ras = [i \in 1 .. n |-> Opened(keys[i], points[i], bounds[i])]
      OBVIOUS
    <3> QED
      BY <3>1, <3>2
  <2>8. Listed(c, flags)
    <3>1. DOMAIN TableFlags = 1 .. NumLookupTables
      BY DEF TableFlags
    <3> QED
      BY <2>2, <2>4, <3>1, OpenedEachListed
  <2>9. Listed(c, raf)
    BY <2>4, OpenedOne
  <2>10. ReadRafProver(r) = flags \o ras \o raf
    BY DEF ReadRafProver, address, cycle, chunks, points, bounds
  <2> HIDE DEF flags, ras, raf
  <2>11. Listed(c, flags \o ras)
    BY <2>7, <2>8, ListedJoin
  <2>12. Listed(c, flags \o ras \o raf)
    BY <2>9, <2>11, ListedJoin
  <2> QED
    BY <2>1, <2>10, <2>12
<1> QED
  BY <1>1, <1>2 DEF Answers

\* That of the bytecode.
LEMMA BytecodeFacts ==
    ASSUME NEW acc, NEW c \in Configs
    PROVE  /\ Plain(BytecodeReadRaf(acc, c)) /\ Answers(c, BytecodeReadRaf(acc, c))
           /\ BytecodeReadRaf(acc, c).rounds = c.bytecode_log_K + c.log_T
<1>1. Plain(BytecodeReadRaf(acc, c)) /\ BytecodeReadRaf(acc, c).rounds = c.bytecode_log_K + c.log_T
  BY DEF BytecodeReadRaf, Instance, Plain
<1>2. ASSUME NEW r \in Points, Len(r) = c.bytecode_log_K + c.log_T
      PROVE  Listed(c, BytecodeReadRaf(acc, c).prover[r])
  <2>1. BytecodeReadRaf(acc, c).prover[r] = BytecodeProver(c, r)
    BY DEF BytecodeReadRaf, Instance
  <2>2. c.log_T \in Nat /\ c.bytecode_log_K \in Nat
    BY ConfigAssumption
  <2> DEFINE address == First(r, c.bytecode_log_K)
             cycle == From(r, c.bytecode_log_K)
             chunks == AddressChunks(Reverse(address))
             points == ChunkPoints(chunks, Reverse(cycle))
             bounds == ChunkPoints(AddressChunks(LowToHigh(address)), LowToHigh(cycle))
             n == ChunksOf(c.bytecode_log_K)
             keys == [i \in 1 .. n |-> At(BytecodePolys(c)[i], "BytecodeReadRaf")]
  <2>3. address \in Points /\ Len(address) = c.bytecode_log_K /\ cycle \in Points
    <3>1. c.bytecode_log_K <= Len(r)
      BY <1>2, <2>2
    <3>2. /\ First(r, c.bytecode_log_K) \in Points /\ From(r, c.bytecode_log_K) \in Points
          /\ Len(First(r, c.bytecode_log_K)) = IF c.bytecode_log_K <= Len(r) THEN c.bytecode_log_K ELSE Len(r)
      BY <2>2, FirstFacts, FromFacts, Zenon
    <3> QED
      BY <3>1, <3>2
  <2> HIDE DEF address, cycle
  <2>4. /\ Reverse(cycle) \in Points /\ Reverse(address) \in Points
        /\ Len(Reverse(address)) = c.bytecode_log_K
    BY <2>3, ReversePoint
  <2>9. bounds = points
    <3>1. LowToHigh(address) = Reverse(address) /\ LowToHigh(cycle) = Reverse(cycle)
      BY <2>3, BoundInOrder
    <3> QED
      BY <3>1
  <2>5. n \in Nat /\ DOMAIN chunks = 1 .. n /\ \A i \in 1 .. n : chunks[i] \in Points
    BY <2>4, AddressChunksFacts
  <2>6. \A i \in 1 .. n : points[i] \in Points
    <3> HIDE DEF chunks, n
    <3> QED
      BY <2>4, <2>5, ChunkPointsFacts
  <2>7. BytecodeProver(c, r) = [i \in 1 .. n |-> Opened(keys[i], points[i], bounds[i])]
    BY DEF BytecodeProver, BytecodePolys, address, cycle
  <2> HIDE DEF points, bounds, keys, n
  <2>8. ASSUME NEW f, f = [i \in 1 .. n |-> Opened(keys[i], points[i], bounds[i])] PROVE Listed(c, f)
    <3>1. \A i \in 1 .. n : points[i] \in Points /\ bounds[i] = points[i]
      BY <2>6, <2>9
    <3> QED
      BY <2>5, <2>8, <3>1, OpenedAtPoints
  <2> QED
    BY <2>1, <2>7, <2>8, Zenon
<1> QED
  BY <1>1, <1>2 DEF Answers

\* Booleanity of the one-hot polynomials: the address of a chunk, then the cycles.
LEMMA BooleanityFacts ==
    ASSUME NEW acc, NEW c \in Configs
    PROVE  /\ Plain(Booleanity(acc, c)) /\ Answers(c, Booleanity(acc, c))
           /\ Booleanity(acc, c).rounds = LogKChunk + c.log_T
<1>1. Plain(Booleanity(acc, c)) /\ Booleanity(acc, c).rounds = LogKChunk + c.log_T
  BY DEF Booleanity, Instance, Plain
<1>2. ASSUME NEW r \in Points PROVE Listed(c, Booleanity(acc, c).prover[r])
  <2>1. Booleanity(acc, c).prover[r] = BooleanityProver(c, r)
    BY DEF Booleanity, Instance
  <2>2. First(r, LogKChunk) \in Points /\ From(r, LogKChunk) \in Points
    BY OneHotAssumption, FirstFacts, FromFacts
  <2>3. Reverse(First(r, LogKChunk)) \in Points /\ Reverse(From(r, LogKChunk)) \in Points
    BY <2>2, ReversePoint
  <2>4. BooleanityPoint(r) \in Points
    BY <2>3, JoinPoints DEF BooleanityPoint
  <2>6. LowToHigh(First(r, LogKChunk)) \o LowToHigh(From(r, LogKChunk)) = BooleanityPoint(r)
    <3>1. /\ LowToHigh(First(r, LogKChunk)) = Reverse(First(r, LogKChunk))
          /\ LowToHigh(From(r, LogKChunk)) = Reverse(From(r, LogKChunk))
      BY <2>2, BoundInOrder
    <3> QED
      BY <3>1 DEF BooleanityPoint
  <2>5. PICK n \in Nat : DOMAIN RaPolynomials(c) = 1 .. n
    BY RaPolynomialsFacts
  <2> QED
    BY <2>1, <2>4, <2>5, <2>6, OpenedEachListed DEF BooleanityProver
<1> QED
  BY <1>1, <1>2 DEF Answers

\* The Hamming weights, over the address of a chunk.
LEMMA HammingWeightFacts ==
    ASSUME NEW acc, AccPoints(acc), NEW c \in Configs
    PROVE  /\ Plain(HammingWeight(acc, c)) /\ Answers(c, HammingWeight(acc, c))
           /\ HammingWeight(acc, c).rounds = LogKChunk
<1> DEFINE r_cycle == From(PointOf(acc, At(CommAt("InstructionRa", 1), "Booleanity")), LogKChunk)
<1>1. /\ Plain(HammingWeight(acc, c)) /\ HammingWeight(acc, c).rounds = LogKChunk
      /\ \A r \in Points : HammingWeight(acc, c).prover[r] = HammingWeightProver(c, r_cycle, r)
  BY DEF HammingWeight, Instance, Plain
<1>2. r_cycle \in Points
  BY OneHotAssumption, PointOfPoint, FromFacts
<1> HIDE DEF r_cycle
<1>3. ASSUME NEW r \in Points PROVE Listed(c, HammingWeight(acc, c).prover[r])
  <2>1. Reverse(r) \in Points /\ LowToHigh(r) = Reverse(r)
    BY ReversePoint, BoundInOrder
  <2>2. Reverse(r) \o r_cycle \in Points /\ LowToHigh(r) \o r_cycle = Reverse(r) \o r_cycle
    BY <1>2, <2>1, JoinPoints
  <2>3. PICK n \in Nat : DOMAIN RaPolynomials(c) = 1 .. n
    BY RaPolynomialsFacts
  <2> QED
    BY <1>1, <2>2, <2>3, OpenedEachListed DEF HammingWeightProver
<1> QED
  BY <1>1, <1>3 DEF Answers

\* Booleanity of the Hamming weight of RAM.
LEMMA RamHammingFacts ==
    ASSUME NEW c, NEW acc, AccPoints(acc)
    PROVE  /\ Plain(RamHamming(acc)) /\ Answers(c, RamHamming(acc)) /\ RamHamming(acc).rounds \in Nat
<1>1. /\ Plain(RamHamming(acc)) /\ RamHamming(acc).rounds = Len(PointOf(acc, Outer("LookupOutput")))
      /\ \A r \in Points : RamHamming(acc).prover[r] = RamHammingProver(r)
  BY DEF RamHamming, Instance, Plain
<1>2. ASSUME NEW r \in Points PROVE Listed(c, RamHamming(acc).prover[r])
  <2>1. Reverse(r) \in Points /\ LowToHigh(r) = Reverse(r)
    BY ReversePoint, BoundInOrder
  <2> QED
    BY <1>1, <2>1, OpenedOne DEF RamHammingProver
<1>3. RamHamming(acc).rounds \in Nat
  BY <1>1, PointOfPoint
<1> QED
  BY <1>1, <1>2, <1>3 DEF Answers

\* What the two checks of products of chunks append.
LEMMA OpenedAtChunks ==
    ASSUME NEW c, NEW n \in Nat, NEW chunks, DOMAIN chunks = 1 .. n, \A i \in 1 .. n : chunks[i] \in Points,
           NEW r \in Points
    PROVE  Listed(c, RamRaVirtualProver(chunks, r)) /\ Listed(c, InstructionRaVirtualProver(chunks, r))
<1> DEFINE points == [i \in 1 .. n |-> chunks[i] \o Reverse(r)]
           bounds == [i \in 1 .. n |-> chunks[i] \o LowToHigh(r)]
           k1 == [i \in 1 .. n |-> At(CommAt("RamRa", i), "RamRaVirtualization")]
           k2 == [i \in 1 .. n |-> At(CommAt("InstructionRa", i), "InstructionRaVirtualization")]
<1>1. ASSUME NEW i \in 1 .. n PROVE points[i] \in Points /\ bounds[i] = points[i]
  <2>1. Reverse(r) \in Points /\ chunks[i] \in Points /\ LowToHigh(r) = Reverse(r)
    BY ReversePoint, BoundInOrder
  <2>2. chunks[i] \o Reverse(r) \in Points
    BY <2>1, JoinPoints
  <2> QED
    BY <2>1, <2>2
<1>2. RamRaVirtualProver(chunks, r) = [i \in 1 .. n |-> Opened(k1[i], points[i], bounds[i])]
  BY DEF RamRaVirtualProver
<1>3. InstructionRaVirtualProver(chunks, r) = [i \in 1 .. n |-> Opened(k2[i], points[i], bounds[i])]
  BY DEF InstructionRaVirtualProver
<1> HIDE DEF points, bounds, k1, k2
<1>4. ASSUME NEW keys, NEW f, f = [i \in 1 .. n |-> Opened(keys[i], points[i], bounds[i])] PROVE Listed(c, f)
  BY <1>1, <1>4, OpenedAtPoints
<1> QED
  BY <1>2, <1>3, <1>4, Zenon

\* The chunks of the RAM address.
LEMMA RamRaVirtualFacts ==
    ASSUME NEW acc, AccPoints(acc), NEW c \in Configs
    PROVE  /\ Plain(RamRaVirtual(acc, c)) /\ Answers(c, RamRaVirtual(acc, c))
           /\ RamRaVirtual(acc, c).rounds = c.log_T
<1> DEFINE address == First(PointOf(acc, RamRa("RamRaClaimReduction")), c.ram_log_K)
           chunks == AddressChunks(address)
<1>1. /\ Plain(RamRaVirtual(acc, c)) /\ RamRaVirtual(acc, c).rounds = c.log_T
      /\ \A r \in Points : RamRaVirtual(acc, c).prover[r] = RamRaVirtualProver(chunks, r)
  BY DEF RamRaVirtual, Instance, Plain
<1>2. address \in Points
  BY ConfigAssumption, PointOfPoint, FirstFacts
<1> HIDE DEF address
<1> DEFINE n == ChunksOf(Len(address))
<1>3. n \in Nat /\ DOMAIN chunks = 1 .. n /\ \A i \in 1 .. n : chunks[i] \in Points
  BY <1>2, AddressChunksFacts
<1> HIDE DEF n, chunks
<1>4. \A r \in Points : Listed(c, RamRaVirtual(acc, c).prover[r])
  BY <1>1, <1>3, OpenedAtChunks
<1> QED
  BY <1>1, <1>4 DEF Answers

\* The chunks of the lookup address.
LEMMA InstructionRaVirtualFacts ==
    ASSUME NEW c, NEW acc, AccPoints(acc)
    PROVE  /\ Plain(InstructionRaVirtual(acc)) /\ Answers(c, InstructionRaVirtual(acc))
           /\ InstructionRaVirtual(acc).rounds \in Nat
<1> DEFINE point(i) == PointOf(acc, ReadRaf(VirtAt("InstructionRa", i)))
           address(i) == First(point(i), LogKVirtualChunk)
           r_cycle == From(point(1), LogKVirtualChunk)
           parts == [i \in 1 .. VirtualD |-> address(i)]
           chunks == AddressChunks(FlattenSeq(parts))
<1>1. /\ Plain(InstructionRaVirtual(acc)) /\ InstructionRaVirtual(acc).rounds = Len(r_cycle)
      /\ \A r \in Points : InstructionRaVirtual(acc).prover[r] = InstructionRaVirtualProver(chunks, r)
  BY DEF InstructionRaVirtual, Instance, Plain
<1>2. r_cycle \in Points /\ \A i \in 1 .. VirtualD : address(i) \in Points
  BY OneHotAssumption, PointOfPoint, FirstFacts, FromFacts
<1>3. Len(r_cycle) \in Nat
  BY <1>2 DEF Points
<1>4. FlattenSeq(parts) \in Points
  <2>1. VirtualD \in Nat /\ \A i \in 1 .. VirtualD : parts[i] \in Seq(Coordinate)
    BY <1>2, ChunksAreMany DEF Points
  <2>2. parts = [i \in 1 .. VirtualD |-> parts[i]]
    OBVIOUS
  <2> HIDE DEF parts
  <2>3. parts \in Seq(Seq(Coordinate))
    BY <2>1, <2>2
  <2> QED
    BY <2>3, FlattenType DEF Points
<1> HIDE DEF parts, r_cycle
<1> DEFINE all == FlattenSeq(parts)
           n == ChunksOf(Len(all))
<1>5. n \in Nat /\ DOMAIN chunks = 1 .. n /\ \A i \in 1 .. n : chunks[i] \in Points
  BY <1>4, AddressChunksFacts
<1> HIDE DEF n, chunks
<1>6. \A r \in Points : Listed(c, InstructionRaVirtual(acc).prover[r])
  BY <1>1, <1>5, OpenedAtChunks
<1> QED
  BY <1>1, <1>3, <1>6 DEF Answers

\* An instance whose rounds lie within the batch's.
Fits(x, max) ==
    /\ x.rounds \in Nat /\ x.rounds <= max
    /\ x.offset[max] \in Nat /\ x.offset[max] + x.rounds <= max

\* No rounds before the first, none between others.
LEMMA NoDummies == \A j : Cardinality({i \in {} : i < j}) = 0
<1> SUFFICES ASSUME NEW j PROVE Cardinality({i \in {} : i < j}) = 0
  OBVIOUS
<1>1. {i \in {} : i < j} = {}
  OBVIOUS
<1> QED
  BY <1>1, FS_EmptySet

\* What the definition of Balanced says without the definitions inside it.
LEMMA BalancedIs ==
    ASSUME NEW x, NEW max \in Nat, x.rounds \in Nat, x.offset[max] \in Nat, NEW D \in Nat,
           Cardinality({i \in x.dummies : i < x.rounds + 1}) = D,
           \A j \in (1 .. x.rounds) \ x.dummies :
              x.scale[j] = x.pre + (max - x.rounds) - x.offset[max] - Cardinality({i \in x.dummies : i < j}),
           x.final = (x.pre + (max - x.rounds) - x.offset[max] - D) - (max - x.offset[max] - x.rounds)
    PROVE  Balanced(x, max)
  BY DEF Balanced

\* An instance that binds a variable in each of its rounds.
Whole(x, max, m) ==
    /\ max \in Nat /\ x.rounds \in Nat /\ x.offset[max] \in Nat /\ x.dummies = {}
    /\ m \in Int /\ m = x.pre + (max - x.rounds) - x.offset[max]
    /\ \A j \in 1 .. x.rounds : x.scale[j] = m
    /\ x.final = m - (max - x.offset[max] - x.rounds)

\* Its powers agree when one power of two serves all rounds.
LEMMA BalancedWhole ==
    ASSUME NEW x, NEW max, NEW m, Whole(x, max, m)
    PROVE  Balanced(x, max)
<1>0. /\ max \in Nat /\ x.rounds \in Nat /\ x.offset[max] \in Nat /\ x.dummies = {}
      /\ m \in Int /\ m = x.pre + (max - x.rounds) - x.offset[max]
      /\ \A j \in 1 .. x.rounds : x.scale[j] = m
      /\ x.final = m - (max - x.offset[max] - x.rounds)
  BY DEF Whole
<1> DEFINE D == 0
<1>1. \A j : Cardinality({i \in x.dummies : i < j}) = D
  BY <1>0, NoDummies
<1>2. D \in Nat /\ m - D = m
  BY <1>0
<1> HIDE DEF D
<1>3. ASSUME NEW j \in (1 .. x.rounds) \ x.dummies
      PROVE  x.scale[j] = x.pre + (max - x.rounds) - x.offset[max] - Cardinality({i \in x.dummies : i < j})
  BY <1>0, <1>1, <1>2
<1>4. Cardinality({i \in x.dummies : i < x.rounds + 1}) = D
  BY <1>1
<1>5. x.final = (x.pre + (max - x.rounds) - x.offset[max] - D) - (max - x.offset[max] - x.rounds)
  BY <1>0, <1>2
<1> QED
  BY <1>0, <1>2, <1>3, <1>4, <1>5, BalancedIs

\* An instance in the last rounds of the batch, without powers of two, is balanced.
LEMMA PlainBalanced ==
    ASSUME NEW x, NEW max \in Nat, Plain(x), x.rounds \in Nat, x.rounds <= max
    PROVE  Fits(x, max) /\ Balanced(x, max)
<1>1. /\ x.offset = RoundOffset(x.rounds) /\ x.pre = 0 /\ x.dummies = {} /\ x.final = 0
      /\ \A j \in 1 .. x.rounds : x.scale[j] = 0
  BY DEF Plain
<1>2. x.offset[max] = max - x.rounds
  BY <1>1 DEF RoundOffset
<1>3. Fits(x, max)
  BY <1>2 DEF Fits
<1>4. x.rounds \in Nat /\ x.offset[max] \in Nat /\ x.dummies = {}
  BY <1>1, <1>2
<1> DEFINE m == 0
<1>5. m \in Int /\ m = x.pre + (max - x.rounds) - x.offset[max]
  BY <1>1, <1>2
<1>6. (\A j \in 1 .. x.rounds : x.scale[j] = m) /\ x.final = m - (max - x.offset[max] - x.rounds)
  BY <1>1, <1>2
<1> HIDE DEF m
<1>7. Balanced(x, max)
  <2>1. Whole(x, max, m)
    BY <1>4, <1>5, <1>6 DEF Whole
  <2> QED
    BY <2>1, BalancedWhole, Zenon
<1> QED
  BY <1>3, <1>7

\* The RAF and the output check fit read-write checking's batch, and are balanced when
\* its third phase has no cycle rounds or no address rounds.
LEMMA GappedBalanced ==
    ASSUME NEW acc, AccPoints(acc), NEW c \in Configs, NEW x \in {RamRaf(acc, c), RamOutput(c)},
           NEW max, max = c.ram_log_K + c.log_T
    PROVE  /\ Fits(x, max)
           /\ ~(c.p1 < c.log_T /\ c.p2 < c.ram_log_K) => Balanced(x, max)
<1> DEFINE T == c.log_T
           K == c.ram_log_K
           g == Gap(c)
<1>1. /\ T \in Nat /\ K \in Nat /\ c.p1 \in 0 .. T /\ c.p2 \in 0 .. K /\ g = T - c.p1
  BY ConfigAssumption DEF Gap
<1>2. /\ x.rounds = T + K - c.p1 /\ x.offset = GappedOffset(c) /\ x.pre = g
      /\ x.dummies = c.p2 + 1 .. c.p2 + g /\ (\A j \in Nat : x.scale[j] = g) /\ x.final = 0
  <2>1. /\ x.rounds = GappedRounds(c) /\ x.offset = GappedOffset(c) /\ x.pre = Gap(c)
        /\ x.dummies = GapRounds(c) /\ (\A j \in Nat : x.scale[j] = Gap(c)) /\ x.final = 0
    BY GappedFacts, Zenon
  <2> QED
    BY <2>1, Zenon DEF GappedRounds, GapRounds
<1> HIDE DEF T, K, g
<1>3. max \in Nat /\ max = T + K
  BY <1>1 DEF T, K
<1>4. x.offset[max] = c.p1
  <2>1. x.offset[max] = max - (c.log_T + c.ram_log_K) + c.p1
    BY <1>2, <1>3 DEF GappedOffset
  <2> QED
    BY <1>1, <1>3, <2>1 DEF T, K
<1>5. Fits(x, max)
  BY <1>1, <1>2, <1>3, <1>4, SMTT(30) DEF Fits
<1>6. ASSUME ~(c.p1 < c.log_T /\ c.p2 < c.ram_log_K)
      PROVE  Balanced(x, max)
  <2>1. g = 0 \/ c.p2 = K
    BY <1>1, <1>6 DEF T, K
  <2>2. g \in Nat
    BY <1>1
  <2>3. Cardinality({i \in x.dummies : i < x.rounds + 1}) = g
    <3>1. {i \in x.dummies : i < x.rounds + 1} = c.p2 + 1 .. c.p2 + g
      BY <1>1, <1>2, SMTT(30)
    <3> DEFINE s == c.p2 + 1
               e == c.p2 + g
    <3>2. s \in Int /\ e \in Int
      BY <1>1, <2>2
    <3> HIDE DEF s, e
    <3>3. Cardinality(s .. e) = IF s > e THEN 0 ELSE e - s + 1
      BY <3>2, FS_Interval
    <3>4. Cardinality(s .. e) = g
      BY <1>1, <2>2, <3>3, SMTT(30) DEF s, e
    <3> QED
      BY <3>1, <3>4 DEF s, e
  <2>4. ASSUME NEW j \in (1 .. x.rounds) \ x.dummies
        PROVE  x.scale[j] = x.pre + (max - x.rounds) - x.offset[max]
                              - Cardinality({i \in x.dummies : i < j})
    <3> DEFINE n == Cardinality({i \in x.dummies : i < j})
    <3>1. {i \in x.dummies : i < j} = {}
      BY <1>1, <1>2, <2>1, SMTT(30)
    <3>2. n = 0
      BY <3>1, FS_EmptySet
    <3> HIDE DEF n
    <3>3. j \in Nat /\ x.scale[j] = g
      BY <1>1, <1>2
    <3>4. x.scale[j] = x.pre + (max - x.rounds) - x.offset[max] - n
      BY <1>1, <1>2, <1>3, <1>4, <3>2, <3>3
    <3> QED
      BY <3>4 DEF n
  <2>5. x.final = (x.pre + (max - x.rounds) - x.offset[max] - g) - (max - x.offset[max] - x.rounds)
    <3>1. max - x.rounds = c.p1 /\ c.p1 \in Int
      BY <1>1, <1>2, <1>3, SMTT(30)
    <3>2. max - x.offset[max] - x.rounds = 0
      BY <1>1, <1>2, <1>3, <1>4
    <3>3. x.pre + (max - x.rounds) - x.offset[max] - g = 0
      BY <1>2, <1>4, <2>2, <3>1
    <3> QED
      BY <1>2, <3>2, <3>3
  <2>6. x.rounds \in Nat /\ x.offset[max] \in Nat
    BY <1>5 DEF Fits
  <2> QED
    BY <1>3, <2>2, <2>3, <2>4, <2>5, <2>6, BalancedIs
<1> QED
  BY <1>5, <1>6

\* Stage 6: the advice reductions keep to the last log_T rounds, and are balanced.
LEMMA CyclePhaseFacts ==
    ASSUME NEW acc, NEW c \in Configs, NEW kind \in AdviceKinds, kind \in Range(KindsOf(c)),
           NEW params, params.layout = c.layout,
           params.order = SortedOrder(c, kind, SortLayout(c, kind, c.layout)),
           NEW x, x = CyclePhase(acc, c, kind, params)
    PROVE  /\ Answers(c, x) /\ x.rounds \in Nat /\ x.rounds <= c.log_T
           /\ \A max \in Nat : c.log_T <= max => Fits(x, max) /\ Balanced(x, max)
<1> DEFINE layout == params.layout
           T == c.log_T
           dummies == DummyRounds(c, kind, layout)
           rounds == CyclePhaseRounds(c, kind, layout)
           D == Cardinality(dummies)
<1>0. c.layout \in Layouts /\ params.layout \in Layouts
  BY ConfigAssumption
<1>1. /\ x.rounds = rounds /\ x.pre = 0 /\ x.dummies = dummies /\ x.final = - D
      /\ x.offset = [max \in Nat |-> (max - (LogKChunk + c.log_T)) + LogKChunk]
      /\ x.scale = [j \in Nat |-> SaturatingSub(c.log_T, rounds) - Cardinality({i \in dummies : i < j})]
      /\ \A r \in Points : x.prover[r] = CyclePhaseProver(c, kind, params, r)
  BY DEF CyclePhase, Instance
<1>2. PICK a \in Nat, b \in Nat, e \in Nat : ScheduleOf(c, kind, layout, a, b, e)
  BY <1>0, ScheduleExists
<1>3. /\ rounds = IF b < e THEN e ELSE a
      /\ b < e => dummies = a + 1 .. b
      /\ ~(b < e) => dummies = {}
      /\ IsFiniteSet(dummies)
  <2>1. rounds = IF b < e THEN e ELSE a
    BY <1>0, <1>2, ScheduleCounts
  <2>2. (b < e => dummies = a + 1 .. b) /\ (~(b < e) => dummies = {})
    BY <1>0, <1>2, ScheduleCounts
  <2>3. IsFiniteSet(dummies)
    BY <1>0, <1>2, ScheduleCounts
  <2> QED
    BY <2>1, <2>2, <2>3, Zenon
<1>4. T \in Nat /\ LogKChunk \in Nat \ {0} /\ a <= b /\ b <= e /\ e <= T
  BY <1>2, AdviceSizes DEF ScheduleOf
<1>5. rounds \in Nat /\ rounds <= T
  BY <1>3, <1>4
<1>6. D \in Nat
  BY <1>3, FS_CardinalityType
<1>7. ASSUME NEW r \in Points, Len(r) = x.rounds PROVE Listed(c, x.prover[r])
  <2> DEFINE bound == CycleVarChallenges(c, kind, params.layout, r)
             mid == [key |-> CMid(kind), point |-> <<>>, claim |-> <<Advice(kind), bound>>]
             last == Opened(AdviceFinal(kind), Reverse(bound), Bound(params.order, bound))
  <2>1. /\ bound \in Points
        /\ Len(bound) = AdviceVars(c, kind) - AddressPhaseRounds(c, kind, c.layout)
    <3>1. Len(r) = CyclePhaseRounds(c, kind, c.layout)
      BY <1>1, <1>7
    <3> QED
      BY <1>0, <3>1, CycleChallengesFacts
  <2>2. x.prover[r] = <<mid>> \o IF Len(bound) < AdviceVars(c, kind) THEN <<>> ELSE <<last>>
    BY <1>1 DEF CyclePhaseProver
  <2>3. Honest(c, mid)
    <3>1. mid.key \in CMids
      BY DEF CMids
    <3>2. mid.point \in Points
      BY DEF Points
    <3> QED
      BY <3>1, <3>2 DEF Honest, Untrue
  <2> HIDE DEF mid
  <2>4. ASSUME ~(Len(bound) < AdviceVars(c, kind)) PROVE Honest(c, last)
    <3>1. Reverse(bound) \in Points
      BY <2>1, ReversePoint
    <3>2. AddressPhaseRounds(c, kind, c.layout) \in Nat /\ AdviceVars(c, kind) \in Nat
      <4>1. AddressPhaseRounds(c, kind, layout) = AdviceVars(c, kind) - (a + (e - b))
        BY <1>0, <1>2, ScheduleCounts
      <4>2. a + (e - b) <= AdviceVars(c, kind) /\ AdviceVars(c, kind) \in Nat
        BY <1>2, AdviceSizes DEF ScheduleOf
      <4> QED
        BY <1>4, <4>1, <4>2
    <3>3. AddressPhaseRounds(c, kind, c.layout) = 0 /\ Len(bound) = AdviceVars(c, kind)
      BY <2>1, <2>4, <3>2
    <3>4. CASE SortLayout(c, kind, c.layout) = c.layout
      <4> DEFINE y == c.layout
      <4>0. y \in Layouts /\ AddressPhaseRounds(c, kind, y) = 0
        BY <1>0, <3>3
      <4> HIDE DEF bound, y
      <4>1. Bound(SortedOrder(c, kind, y), bound) = Reverse(bound)
        BY <2>1, <3>3, <4>0, AdviceCycleBound
      <4>2. Bound(params.order, bound) = Reverse(bound)
        BY <3>4, <4>1 DEF y
      <4> QED
        BY <3>1, <4>2, OpenedHonest
    <3>5. CASE SortLayout(c, kind, c.layout) # c.layout
      <4>1. Untrue(c, AdviceFinal(kind))
        BY <3>5 DEF Untrue
      <4>2. last.key = AdviceFinal(kind) /\ last.point = Reverse(bound)
        BY DEF Opened
      <4> QED
        BY <3>1, <4>1, <4>2 DEF Honest
    <3> QED
      BY <3>4, <3>5
  <2>5. Listed(c, <<mid>>) /\ Listed(c, <<>>)
    BY <2>3, ListedFew
  <2>6. Listed(c, <<mid>> \o <<>>)
    BY <2>5, ListedJoin
  <2>7. ASSUME ~(Len(bound) < AdviceVars(c, kind)) PROVE Listed(c, <<mid>> \o <<last>>)
    <3> HIDE DEF bound, last
    <3>1. Listed(c, <<last>>)
      BY <2>4, <2>7, ListedFew
    <3> QED
      BY <2>5, <3>1, ListedJoin
  <2> HIDE DEF bound, last
  <2> QED
    BY <2>2, <2>6, <2>7
<1>8. ASSUME NEW max \in Nat, T <= max PROVE Fits(x, max) /\ Balanced(x, max)
  <2>1. x.offset[max] = max - T
    BY <1>1, <1>4
  <2>2. Fits(x, max)
    BY <1>1, <1>4, <1>5, <1>8, <2>1 DEF Fits
  <2>3. {i \in x.dummies : i < x.rounds + 1} = dummies
    <3>1. \A i \in dummies : i < rounds + 1
      <4>1. CASE b < e
        BY <1>3, <1>4, <4>1
      <4>2. CASE ~(b < e)
        BY <1>3, <4>2
      <4> QED
        BY <4>1, <4>2
    <3> QED
      BY <1>1, <3>1
  <2>4. SaturatingSub(c.log_T, rounds) = T - rounds
    <3> HIDE DEF rounds
    <3>1. SaturatingSub(T, rounds) = IF T <= rounds THEN 0 ELSE T - rounds
      BY <1>4, <1>5, SaturatingSubIs
    <3> QED
      BY <1>4, <1>5, <3>1
  <2>5. ASSUME NEW j \in (1 .. x.rounds) \ x.dummies
        PROVE  x.scale[j] = x.pre + (max - x.rounds) - x.offset[max]
                              - Cardinality({i \in x.dummies : i < j})
    <3> DEFINE n == Cardinality({i \in dummies : i < j})
    <3>1. x.scale[j] = SaturatingSub(c.log_T, rounds) - n
      <4>1. j \in Nat
        BY <1>1, <1>5
      <4> QED
        BY <1>1, <4>1
    <3>2. n \in Nat
      <4> HIDE DEF dummies
      <4>1. IsFiniteSet({i \in dummies : i < j})
        BY <1>3, FS_Subset
      <4> QED
        BY <4>1, FS_CardinalityType
    <3>3. x.scale[j] = x.pre + (max - x.rounds) - x.offset[max] - n
      <4> HIDE DEF n, rounds, D
      <4> QED
        BY <1>1, <1>4, <1>5, <2>1, <2>4, <3>1, <3>2
    <3> QED
      BY <1>1, <3>3
  <2>6. x.final = (x.pre + (max - x.rounds) - x.offset[max] - D) - (max - x.offset[max] - x.rounds)
    <3> HIDE DEF D, rounds
    <3> QED
      BY <1>1, <1>4, <1>5, <1>6, <2>1
  <2>7. x.rounds \in Nat /\ x.offset[max] \in Nat
    BY <2>2 DEF Fits
  <2>8. Cardinality({i \in x.dummies : i < x.rounds + 1}) = D
    BY <2>3
  <2> HIDE DEF D
  <2>9. Balanced(x, max)
    BY <1>6, <2>5, <2>6, <2>7, <2>8, BalancedIs
  <2> QED
    BY <2>2, <2>9
<1>9. x.rounds \in Nat /\ x.rounds <= c.log_T
  BY <1>1, <1>5
<1> QED
  BY <1>7, <1>8, <1>9 DEF Answers

\* Stage 7: an advice reduction that has both columns and rows among the cycles, or no
\* gap between, is balanced.
LEMMA AddressPhaseFacts ==
    ASSUME NEW acc, NEW c \in Configs, NEW kind \in AdviceKinds, kind \in Range(KindsOf(c)),
           NEW params, NEW layout, layout = c.layout, params.layout = c.layout,
           params.order = SortedOrder(c, kind, SortLayout(c, kind, c.layout)),
           params.challenges \in Points,
           Len(params.challenges) = AdviceVars(c, kind) - AddressPhaseRounds(c, kind, c.layout),
           NEW x, x = AddressPhase(acc, c, kind, params, layout)
    PROVE  /\ Answers(c, x) /\ Fits(x, LogKChunk)
           /\ ~(/\ params.layout = "AddressMajor" /\ AdviceCols(c, kind) <= LogKChunk
                /\ AdviceRows(c, kind) > 0) => Balanced(x, LogKChunk)
<1> DEFINE K == LogKChunk
           rounds == AddressPhaseRounds(c, kind, params.layout)
           D == Cardinality(DummyRounds(c, kind, params.layout))
           G == GapLength(c, kind, params.layout)
<1>0. layout \in Layouts /\ params.layout \in Layouts
  BY ConfigAssumption
<1>1. /\ x.rounds = rounds /\ x.pre = - D /\ x.dummies = {} /\ x.final = - G
      /\ x.offset = [max \in Nat |-> 0]
      /\ x.scale = [j \in Nat |-> SaturatingSub(LogKChunk, rounds) - D]
      /\ \A r \in Points : x.prover[r] = AddressPhaseProver(kind, params, layout, r)
  BY DEF AddressPhase, Instance
<1>2. PICK a \in Nat, b \in Nat, e \in Nat : ScheduleOf(c, kind, params.layout, a, b, e)
  BY <1>0, ScheduleExists
<1>3. /\ D = IF b < e THEN b - a ELSE 0
      /\ rounds = AdviceVars(c, kind) - (a + (e - b))
      /\ G = IF a = 0 \/ e <= b THEN 0 ELSE b - a
  BY <1>0, <1>2, ScheduleCounts
<1>4. /\ K \in Nat \ {0} /\ AdviceVars(c, kind) \in Nat /\ a <= b /\ b <= e
      /\ a + (e - b) <= AdviceVars(c, kind) /\ AdviceVars(c, kind) - (a + (e - b)) <= K
      /\ (a = 0 /\ 0 < b /\ b < e) =>
            /\ params.layout = "AddressMajor" /\ AdviceCols(c, kind) <= LogKChunk
            /\ AdviceRows(c, kind) > 0
  BY <1>2, AdviceSizes DEF ScheduleOf
<1> HIDE DEF rounds, D, G
<1>5. rounds \in Nat /\ rounds <= K /\ D \in Nat
  BY <1>3, <1>4
<1>6. x.offset[K] = 0
  BY <1>1, <1>4
<1>7. Fits(x, K)
  BY <1>1, <1>4, <1>5, <1>6 DEF Fits
<1>8. ASSUME NEW r \in Points, Len(r) = x.rounds PROVE Listed(c, x.prover[r])
  <2> DEFINE s == params.challenges
             bound == Bound(params.order, s \o r)
             point == AddressPhasePoint(layout, s, r)
             last == Opened(AdviceFinal(kind), point, bound)
  <2>1. params.challenges \o r \in Points /\ r \o params.challenges \in Points
    BY JoinPoints
  <2>2. Reverse(params.challenges \o r) \in Points /\ Reverse(r \o params.challenges) \in Points
    BY <2>1, ReversePoint
  <2>3. AddressPhasePoint(layout, params.challenges, r) \in Points
    BY <2>2 DEF AddressPhasePoint
  <2>4. Honest(c, last)
    <3>1. CASE SortLayout(c, kind, c.layout) = c.layout
      <4>1. Len(r) = AddressPhaseRounds(c, kind, layout)
        BY <1>1, <1>8 DEF rounds
      <4>2. s \in Points /\ Len(s) = AdviceVars(c, kind) - AddressPhaseRounds(c, kind, layout)
        OBVIOUS
      <4>3. params.order = SortedOrder(c, kind, layout)
        BY <3>1
      <4>4. Bound(SortedOrder(c, kind, layout), s \o r) = AddressPhasePoint(layout, s, r)
        <5> HIDE DEF s
        <5> QED
          BY <1>0, <4>1, <4>2, AdviceAddressBound
      <4>5. bound = point
        BY <4>3, <4>4
      <4>6. point \in Points
        BY <2>3
      <4> HIDE DEF bound, point
      <4> QED
        BY <4>5, <4>6, OpenedHonest
    <3>2. CASE SortLayout(c, kind, c.layout) # c.layout
      <4>1. Untrue(c, AdviceFinal(kind))
        BY <3>2 DEF Untrue
      <4>2. last.key = AdviceFinal(kind) /\ last.point = point
        BY DEF Opened
      <4> QED
        BY <2>3, <4>1, <4>2 DEF Honest
    <3> QED
      BY <3>1, <3>2
  <2>5. AddressPhaseProver(kind, params, layout, r) = <<last>>
    BY DEF AddressPhaseProver
  <2> HIDE DEF last
  <2>6. Listed(c, <<last>>)
    BY <2>4, ListedFew
  <2> QED
    BY <1>1, <2>5, <2>6
<1>9. ASSUME ~(/\ params.layout = "AddressMajor" /\ AdviceCols(c, kind) <= LogKChunk
               /\ AdviceRows(c, kind) > 0)
      PROVE  Balanced(x, K)
  <2>1. G = D
    <3>1. ~(a = 0 /\ 0 < b /\ b < e)
      BY <1>4, <1>9
    <3> QED
      BY <1>3, <1>4, <3>1
  <2>2. SaturatingSub(LogKChunk, rounds) = K - rounds
    <3>1. SaturatingSub(K, rounds) = IF K <= rounds THEN 0 ELSE K - rounds
      BY <1>4, <1>5, SaturatingSubIs
    <3> QED
      BY <1>4, <1>5, <3>1
  <2> DEFINE m == K - rounds - D
  <2>3. m \in Int /\ m = x.pre + (K - x.rounds) - x.offset[K]
    BY <1>1, <1>4, <1>5, <1>6
  <2>4. (\A j \in 1 .. x.rounds : x.scale[j] = m) /\ x.final = m - (K - x.offset[K] - x.rounds)
    BY <1>1, <1>4, <1>5, <1>6, <2>1, <2>2
  <2>5. x.rounds \in Nat /\ x.offset[K] \in Nat /\ K \in Nat /\ x.dummies = {}
    BY <1>1, <1>4, <1>7 DEF Fits
  <2> HIDE DEF K, m
  <2>6. Whole(x, K, m)
    BY <2>3, <2>4, <2>5 DEF Whole
  <2> QED
    BY <2>6, BalancedWhole, Zenon
<1> QED
  BY <1>7, <1>8, <1>9 DEF Answers

----------------------------------------------------------------------------
(* A side, and a batch. *)

\* The claims of an accumulator are true.
TrueAcc(c, acc) ==
    \A k \in DOMAIN acc.openings :
       acc.openings[k].claim = <<k.poly, acc.openings[k].point>> \/ Untrue(c, k)

\* A side whose accumulator has points, and claims that are true at them.
AccOK(c, acc) ==
    /\ DOMAIN acc = {"openings", "by_poly", "aliases", "pending", "pending_ids"}
    /\ AccPoints(acc) /\ TrueAcc(c, acc)
SideOK(c, side) ==
    /\ DOMAIN side = {"acc", "transcript", "advice", "ok", "wrong", "unbalanced", "used", "appended"}
    /\ AccOK(c, side.acc)

\* What appending claims leaves alone.
Kept(side, t) == t.unbalanced \subseteq side.unbalanced /\ t.advice = side.advice

\* One more claim has a point too, and is true.
LEMMA InsertPoints ==
    ASSUME NEW c, NEW acc, AccOK(c, acc), NEW k, NEW point \in Points, NEW claim,
           claim = <<k.poly, point>> \/ Untrue(c, k)
    PROVE  AccOK(c, Acc!InsertOrAlias(acc, k, point, claim))
<1>1. ASSUME NEW e PROVE AccOK(c, Acc!Alias(acc, k, e))
  <2> DEFINE new == Acc!Alias(acc, k, e)
  <2>1. DOMAIN new = DOMAIN acc /\ new.openings = acc.openings
    BY DEF Acc!Alias, AccOK
  <2> HIDE DEF new
  <2>2. AccOK(c, new)
    BY <2>1 DEF AccOK, AccPoints, TrueAcc
  <2> QED
    BY <2>2 DEF new
<1>2. AccOK(c, Acc!Insert(acc, k, point, claim))
  <2> DEFINE new == Acc!Insert(acc, k, point, claim)
  <2>1. DOMAIN new = DOMAIN acc
    BY DEF Acc!Insert
  <2>2. new.openings = Acc!With(acc.openings, k, [point |-> point, claim |-> claim])
    BY DEF Acc!Insert, AccOK
  <2> HIDE DEF new
  <2>3. DOMAIN new.openings = DOMAIN acc.openings \cup {k}
    BY <2>2 DEF Acc!With
  <2>4. ASSUME NEW j \in DOMAIN new.openings
        PROVE  /\ new.openings[j].point \in Points
               /\ new.openings[j].claim = <<j.poly, new.openings[j].point>> \/ Untrue(c, j)
    <3>1. CASE j = k
      <4>1. new.openings[j] = [point |-> point, claim |-> claim]
        BY <2>2, <2>3, <3>1 DEF Acc!With
      <4> QED
        BY <3>1, <4>1
    <3>2. CASE j # k
      <4>1. new.openings[j] = acc.openings[j] /\ j \in DOMAIN acc.openings
        BY <2>2, <2>3, <3>2 DEF Acc!With
      <4> QED
        BY <4>1 DEF AccOK, AccPoints, TrueAcc
    <3> QED
      BY <3>1, <3>2
  <2>5. AccOK(c, new)
    BY <2>1, <2>4 DEF AccOK, AccPoints, TrueAcc
  <2> QED
    BY <2>5 DEF new
<1> QED
  BY <1>1, <1>2 DEF Acc!InsertOrAlias

\* One claim appended.
LEMMA AppendKeeps ==
    ASSUME NEW c, NEW side, SideOK(c, side), NEW o, Honest(c, o)
    PROVE  SideOK(c, ProverAppend(side, o)) /\ Kept(side, ProverAppend(side, o))
<1> DEFINE new == ProverAppend(side, o)
           acc == Acc!InsertOrAlias(side.acc, o.key, o.point, o.claim)
<1>1. /\ DOMAIN new = DOMAIN side /\ new.acc = acc
      /\ new.unbalanced = side.unbalanced /\ new.advice = side.advice
  BY DEF ProverAppend, SideOK
<1>2. AccOK(c, acc)
  BY InsertPoints DEF SideOK, Honest
<1> HIDE DEF new, acc
<1>3. SideOK(c, new) /\ Kept(side, new)
  BY <1>1, <1>2 DEF SideOK, Kept
<1> QED
  BY <1>3 DEF new

\* The recursion of ProverAppends over the first n claims, which some function satisfies.
Appending(side, opened, n, f) ==
    f = [i \in 0 .. n |-> IF i = 0 THEN side ELSE ProverAppend(f[i - 1], opened[i])]

\* There is such a function for every number of claims.
LEMMA AppendingExists == \A side, opened : \A n \in Nat : \E f : Appending(side, opened, n, f)
<1> SUFFICES ASSUME NEW side, NEW opened PROVE \A n \in Nat : \E f : Appending(side, opened, n, f)
  OBVIOUS
<1> DEFINE S == {n \in Nat : \E f : Appending(side, opened, n, f)}
<1>1. 0 \in S
  <2> DEFINE f == [i \in 0 .. 0 |-> side]
  <2>1. f = [i \in 0 .. 0 |-> IF i = 0 THEN side ELSE ProverAppend(f[i - 1], opened[i])]
    OBVIOUS
  <2> QED
    BY <2>1 DEF Appending
<1>2. ASSUME NEW n \in Nat, n \in S PROVE n + 1 \in S
  <2>1. PICK f : Appending(side, opened, n, f)
    BY <1>2
  <2> DEFINE g == [i \in 0 .. n + 1 |-> IF i \in 0 .. n THEN f[i] ELSE ProverAppend(f[i - 1], opened[i])]
             h == [i \in 0 .. n + 1 |-> IF i = 0 THEN side ELSE ProverAppend(g[i - 1], opened[i])]
  <2>2. ASSUME NEW i \in 0 .. n + 1 PROVE g[i] = h[i]
    <3>1. CASE i \in 0 .. n
      <4>1. f[i] = IF i = 0 THEN side ELSE ProverAppend(f[i - 1], opened[i])
        BY <2>1, <3>1 DEF Appending
      <4>2. i # 0 => g[i - 1] = f[i - 1]
        BY <3>1
      <4> QED
        BY <3>1, <4>1, <4>2
    <3>2. CASE i = n + 1
      <4>1. g[i - 1] = f[i - 1] /\ i # 0 /\ i \notin 0 .. n
        BY <3>2
      <4> QED
        BY <3>2, <4>1
    <3> QED
      BY <3>1, <3>2
  <2>3. g = h
    BY <2>2
  <2>4. Appending(side, opened, n + 1, g)
    BY <2>3 DEF Appending
  <2> HIDE DEF g
  <2> QED
    BY <2>4
<1> HIDE DEF S
<1>3. \A n \in Nat : n \in S
  BY <1>1, <1>2, NatSetInduction
<1> QED
  BY <1>3 DEF S

\* Claim after claim.
LEMMA AppendsKeep ==
    ASSUME NEW c, NEW side, SideOK(c, side), NEW opened, Listed(c, opened)
    PROVE  SideOK(c, ProverAppends(side, opened)) /\ Kept(side, ProverAppends(side, opened))
<1> DEFINE E(f) == [i \in 0 .. Len(opened) |-> IF i = 0 THEN side ELSE ProverAppend(f[i - 1], opened[i])]
           after == CHOOSE f : f = E(f)
<1>1. Len(opened) \in Nat /\ \A i \in 1 .. Len(opened) : Honest(c, opened[i])
  <2>1. PICK S : opened \in Seq(S) /\ \A x \in S : Honest(c, x)
    BY DEF Listed
  <2>2. Len(opened) \in Nat /\ \A i \in 1 .. Len(opened) : opened[i] \in S
    BY <2>1
  <2> QED
    BY <2>1, <2>2
<1>2. ProverAppends(side, opened) = after[Len(opened)]
  BY DEF ProverAppends
<1>3. \E f : f = E(f)
  <2>1. \E f : Appending(side, opened, Len(opened), f)
    BY <1>1, AppendingExists, Zenon
  <2> QED
    BY <2>1 DEF Appending
<1>4. after = E(after)
  BY <1>3
<1> HIDE DEF after
<1> DEFINE S == {n \in Nat : n <= Len(opened) => SideOK(c, after[n]) /\ Kept(side, after[n])}
<1>5. 0 \in S
  <2>1. after[0] = side
    BY <1>1, <1>4
  <2> QED
    BY <2>1 DEF Kept
<1>6. ASSUME NEW n \in Nat, n \in S PROVE n + 1 \in S
  <2>1. SUFFICES ASSUME n + 1 <= Len(opened) PROVE SideOK(c, after[n + 1]) /\ Kept(side, after[n + 1])
    OBVIOUS
  <2>2. SideOK(c, after[n]) /\ Kept(side, after[n]) /\ Honest(c, opened[n + 1])
    BY <1>1, <1>6, <2>1
  <2>3. after[n + 1] = ProverAppend(after[n], opened[n + 1])
    BY <1>1, <1>4, <2>1
  <2>4. SideOK(c, ProverAppend(after[n], opened[n + 1])) /\ Kept(after[n], ProverAppend(after[n], opened[n + 1]))
    BY <2>2, AppendKeeps
  <2> QED
    BY <2>2, <2>3, <2>4 DEF Kept
<1> HIDE DEF S
<1>7. \A n \in Nat : n \in S
  BY <1>5, <1>6, NatSetInduction
<1> QED
  BY <1>1, <1>2, <1>7 DEF S

\* The rounds of a batch.
LEMMA MaxRoundsFacts ==
    ASSUME NEW n \in Nat \ {0}, NEW batch, DOMAIN batch = 1 .. n, \A i \in 1 .. n : batch[i].rounds \in Nat
    PROVE  /\ MaxRounds(batch) \in Nat
           /\ \A i \in 1 .. n : batch[i].rounds <= MaxRounds(batch)
           /\ \E i \in 1 .. n : batch[i].rounds = MaxRounds(batch)
<1> DEFINE f == [i \in 1 .. n |-> batch[i].rounds]
           S == {batch[i].rounds : i \in DOMAIN batch}
<1>1. \A i \in 1 .. n : f[i] = batch[i].rounds /\ f[i] \in Nat
  OBVIOUS
<1>2. PICK i \in 1 .. n : \A j \in 1 .. n : f[j] <= f[i]
  <2> HIDE DEF f
  <2> QED
    BY <1>1, GreatestOf
<1>3. f[i] \in S /\ S \in SUBSET Int /\ \A y \in S : y <= f[i]
  BY <1>2
<1> HIDE DEF S, f
<1> DEFINE m == f[i]
<1>4. m \in S /\ \A y \in S : y <= m
  BY <1>3
<1> HIDE DEF m
<1>5. Max(S) = m
  BY <1>3, <1>4, MaxIs
<1>6. MaxRounds(batch) = m
  BY <1>5 DEF MaxRounds, S
<1> QED
  BY <1>1, <1>2, <1>6 DEF m

\* The challenges of a batch are a point, and so are those of an instance's rounds.
LEMMA ChallengesPoint ==
    ASSUME NEW b \in Nat, NEW max \in Nat
    PROVE  Challenges(b, max) \in Points /\ Len(Challenges(b, max)) = max
<1>1. \A j \in 1 .. max : <<b, j>> \in Coordinate
  BY DEF Coordinate
<1>2. Challenges(b, max) = [j \in 1 .. max |-> <<b, j>>]
  BY DEF Challenges
<1> QED
  BY <1>1, <1>2 DEF Points

\* The challenges of an instance whose rounds lie within those of the batch.
LEMMA SlicePoint ==
    ASSUME NEW r \in Points, NEW x, Fits(x, Len(r))
    PROVE  Slice(x, r) \in Points /\ Len(Slice(x, r)) = x.rounds
<1> DEFINE off == x.offset[Len(r)]
           s == off + 1
           e == off + x.rounds
<1>1. x.rounds \in Nat /\ off \in Nat /\ e <= Len(r)
  BY DEF Fits
<1>2. Slice(x, r) = SubSeq(r, s, e)
  BY DEF Slice
<1>3. s \in Nat \ {0} /\ e \in Int /\ e <= Len(r) /\ (IF s <= e THEN e - s + 1 ELSE 0) = x.rounds
  <2> HIDE DEF off
  <2> QED
    BY <1>1
<1> HIDE DEF s, e
<1>4. SubSeq(r, s, e) \in Points /\ Len(SubSeq(r, s, e)) = IF s <= e THEN e - s + 1 ELSE 0
  BY <1>3, PartOfPoint
<1> QED
  BY <1>2, <1>3, <1>4, Zenon

\* A batch of instances that fit adds to the history those that are not balanced.
LEMMA BatchFacts ==
    ASSUME NEW c, NEW side, SideOK(c, side), NEW b \in Nat, NEW n \in Nat \ {0}, NEW batch, DOMAIN batch = 1 .. n,
           NEW max \in Nat, max = MaxRounds(batch),
           \A i \in 1 .. n : Fits(batch[i], max) /\ Answers(c, batch[i])
    PROVE  /\ SideOK(c, ProveBatch(side, b, batch))
           /\ ProveBatch(side, b, batch).advice = side.advice
           /\ \A u \in ProveBatch(side, b, batch).unbalanced :
                 u \in side.unbalanced \/ \E i \in 1 .. n : u = <<b, i>> /\ ~Balanced(batch[i], max)
<1> DEFINE r == Challenges(b, max)
           lists == [i \in 1 .. n |-> batch[i].prover[Slice(batch[i], r)]]
           opened == FlattenSeq(lists)
           start == Start(side, b, batch)
           all == ProverAppends(start, opened)
<1>1. r \in Points /\ Len(r) = max
  BY ChallengesPoint
<1> HIDE DEF r
<1>2. ASSUME NEW i \in 1 .. n PROVE Listed(c, lists[i])
  <2>5. Slice(batch[i], r) \in Points /\ Len(Slice(batch[i], r)) = batch[i].rounds
    BY <1>1, SlicePoint
  <2>6. lists[i] = batch[i].prover[Slice(batch[i], r)]
    OBVIOUS
  <2>7. Answers(c, batch[i])
    OBVIOUS
  <2> QED
    BY <2>5, <2>6, <2>7 DEF Answers
<1>3. lists = [i \in 1 .. n |-> lists[i]]
  OBVIOUS
<1>4. ProveBatch(side, b, batch) = Flush(all)
  BY DEF ProveBatch, r
<1> HIDE DEF lists
<1>5. Listed(c, opened)
  <2> DEFINE X == UNION {{x \in Range(lists[i]) : TRUE} : i \in 1 .. n}
  <2>1. \A x \in X : Honest(c, x)
    <3>1. ASSUME NEW i \in 1 .. n, NEW x \in Range(lists[i]) PROVE Honest(c, x)
      <4>1. PICK S : lists[i] \in Seq(S) /\ \A y \in S : Honest(c, y)
        BY <1>2 DEF Listed
      <4>2. x \in S
        BY <3>1, <4>1 DEF Range
      <4> QED
        BY <4>1, <4>2
    <3> QED
      BY <3>1
  <2>2. ASSUME NEW i \in 1 .. n PROVE lists[i] \in Seq(X)
    <3>1. PICK S : lists[i] \in Seq(S)
      BY <1>2 DEF Listed
    <3>2. \A j \in 1 .. Len(lists[i]) : lists[i][j] \in X
      BY <3>1 DEF Range
    <3> HIDE DEF X
    <3> QED
      BY <3>1, <3>2
  <2> HIDE DEF X
  <2>3. lists \in Seq(Seq(X))
    BY <1>3, <2>2
  <2>4. opened \in Seq(X)
    BY <2>3, FlattenType
  <2> QED
    BY <2>1, <2>4 DEF Listed
<1> HIDE DEF opened
<1>6. /\ SideOK(c, start) /\ start.advice = side.advice
      /\ \A u \in start.unbalanced :
            u \in side.unbalanced \/ \E i \in 1 .. n : u = <<b, i>> /\ ~Balanced(batch[i], max)
  <2>1. DOMAIN start = DOMAIN side
    BY DEF Start
  <2>2. start.acc = side.acc /\ start.advice = side.advice
    BY DEF Start, SideOK
  <2>3. start.unbalanced
          = side.unbalanced \cup {<<b, i>> : i \in {x \in DOMAIN batch : ~Balanced(batch[x], MaxRounds(batch))}}
    BY DEF Start, SideOK
  <2> HIDE DEF start
  <2> QED
    BY <2>1, <2>2, <2>3 DEF SideOK
<1> HIDE DEF start
<1>7. SideOK(c, all) /\ Kept(start, all)
  BY <1>5, <1>6, AppendsKeep
<1> HIDE DEF all
<1>8. SideOK(c, Flush(all)) /\ Kept(all, Flush(all))
  <2> DEFINE new == Flush(all)
             acc == Acc!Flushed(all.acc)
  <2>1. DOMAIN new = DOMAIN all /\ new.acc = acc /\ new.unbalanced = all.unbalanced /\ new.advice = all.advice
    BY <1>7 DEF Flush, SideOK
  <2>2. DOMAIN acc = DOMAIN all.acc /\ acc.openings = all.acc.openings
    BY <1>7 DEF Acc!Flushed, SideOK, AccOK
  <2> HIDE DEF new, acc
  <2>3. AccOK(c, acc)
    BY <1>7, <2>2 DEF SideOK, AccOK, AccPoints, TrueAcc
  <2>4. SideOK(c, new) /\ Kept(all, new)
    BY <1>7, <2>1, <2>3 DEF SideOK, Kept
  <2> QED
    BY <2>4 DEF new
<1> QED
  BY <1>4, <1>6, <1>7, <1>8 DEF Kept

\* A batch without powers of two adds nothing.
LEMMA PlainBatch ==
    ASSUME NEW c, NEW side, SideOK(c, side), NEW b \in Nat, NEW n \in Nat \ {0}, NEW batch, DOMAIN batch = 1 .. n,
           \A i \in 1 .. n : Plain(batch[i]) /\ Answers(c, batch[i]) /\ batch[i].rounds \in Nat
    PROVE  SideOK(c, ProveBatch(side, b, batch)) /\ Kept(side, ProveBatch(side, b, batch))
<1> DEFINE max == MaxRounds(batch)
<1>1. max \in Nat /\ \A i \in 1 .. n : batch[i].rounds <= max
  BY MaxRoundsFacts
<1>2. \A i \in 1 .. n : Fits(batch[i], max) /\ Balanced(batch[i], max)
  <2> HIDE DEF max
  <2> QED
    BY <1>1, PlainBalanced
<1> HIDE DEF max
<1>3. max = MaxRounds(batch)
  BY DEF max
<1>4. /\ SideOK(c, ProveBatch(side, b, batch))
      /\ ProveBatch(side, b, batch).advice = side.advice
      /\ \A u \in ProveBatch(side, b, batch).unbalanced :
            u \in side.unbalanced \/ \E i \in 1 .. n : u = <<b, i>> /\ ~Balanced(batch[i], max)
  BY <1>1, <1>2, <1>3, BatchFacts
<1> QED
  BY <1>2, <1>4 DEF Kept

\* A list of one, two and three instances.
Steady(c, x) == Plain(x) /\ Answers(c, x) /\ x.rounds \in Nat

\* A batch of one such instance.
LEMMA OnePlain ==
    ASSUME NEW c, NEW side, SideOK(c, side), NEW b \in Nat, NEW x, Steady(c, x)
    PROVE  SideOK(c, ProveBatch(side, b, <<x>>)) /\ Kept(side, ProveBatch(side, b, <<x>>))
<1> DEFINE batch == <<x>>
           n == 1
<1>1. n \in Nat \ {0} /\ DOMAIN batch = 1 .. n /\ \A i \in 1 .. n : batch[i] = x
  OBVIOUS
<1> HIDE DEF batch, n
<1>2. SideOK(c, ProveBatch(side, b, batch)) /\ Kept(side, ProveBatch(side, b, batch))
  BY <1>1, PlainBatch DEF Steady
<1> QED
  BY <1>2 DEF batch

\* Two of them.
LEMMA TwoPlain ==
    ASSUME NEW c, NEW side, SideOK(c, side), NEW b \in Nat, NEW x, NEW y, Steady(c, x), Steady(c, y)
    PROVE  SideOK(c, ProveBatch(side, b, <<x, y>>)) /\ Kept(side, ProveBatch(side, b, <<x, y>>))
<1> DEFINE batch == <<x, y>>
           n == 2
<1>1. n \in Nat \ {0} /\ DOMAIN batch = 1 .. n /\ \A i \in 1 .. n : batch[i] = x \/ batch[i] = y
  OBVIOUS
<1> HIDE DEF batch, n
<1>2. SideOK(c, ProveBatch(side, b, batch)) /\ Kept(side, ProveBatch(side, b, batch))
  BY <1>1, PlainBatch DEF Steady
<1> QED
  BY <1>2 DEF batch

\* Three of them.
LEMMA ThreePlain ==
    ASSUME NEW c, NEW side, SideOK(c, side), NEW b \in Nat, NEW x, NEW y, NEW z, Steady(c, x), Steady(c, y), Steady(c, z)
    PROVE  SideOK(c, ProveBatch(side, b, <<x, y, z>>)) /\ Kept(side, ProveBatch(side, b, <<x, y, z>>))
<1> DEFINE batch == <<x, y, z>>
           n == 3
<1>1. /\ n \in Nat \ {0} /\ DOMAIN batch = 1 .. n
      /\ \A i \in 1 .. n : batch[i] = x \/ batch[i] = y \/ batch[i] = z
  OBVIOUS
<1> HIDE DEF batch, n
<1>2. SideOK(c, ProveBatch(side, b, batch)) /\ Kept(side, ProveBatch(side, b, batch))
  BY <1>1, PlainBatch DEF Steady
<1> QED
  BY <1>2 DEF batch

----------------------------------------------------------------------------
(* The prover's stages. *)

\* Stage 1 has no powers of two.
LEMMA Stage1Facts ==
    ASSUME NEW c \in Configs, NEW side, SideOK(c, side)
    PROVE  SideOK(c, Stage1("prover", side, c)) /\ Kept(side, Stage1("prover", side, c))
<1> DEFINE skipped == ProveBatch(side, 1, <<OuterUniSkip>>)
           x == OuterRemaining(skipped.acc, c)
<1>1. Steady(c, OuterUniSkip)
  BY OuterUniSkipFacts DEF Steady
<1>2. SideOK(c, skipped) /\ Kept(side, skipped)
  BY <1>1, OnePlain
<1> HIDE DEF skipped
<1>3. Steady(c, x)
  <2>1. c.log_T \in Nat
    BY ConfigAssumption
  <2> QED
    BY <2>1, OuterRemainingFacts DEF Steady
<1> HIDE DEF x
<1>4. SideOK(c, ProveBatch(skipped, 2, <<x>>)) /\ Kept(skipped, ProveBatch(skipped, 2, <<x>>))
  BY <1>2, <1>3, OnePlain
<1>5. Stage1("prover", side, c) = ProveBatch(skipped, 2, <<x>>)
  BY DEF Stage1, Run, skipped, x
<1> QED
  BY <1>2, <1>4, <1>5 DEF Kept

\* Instances of stage 2 that do not fit the powers of two.
GapExceptions(c) == {<<4, i>> : i \in {x \in {4, 5} : c.p1 < c.log_T /\ c.p2 < c.ram_log_K}}

\* In stage 2 the RAF and the output check fit, but for a gap in their rounds.
LEMMA Stage2Facts ==
    ASSUME NEW c \in Configs, NEW side, SideOK(c, side)
    PROVE  /\ SideOK(c, Stage2("prover", side, c))
           /\ Stage2("prover", side, c).advice = side.advice
           /\ Stage2("prover", side, c).unbalanced \subseteq side.unbalanced \cup GapExceptions(c)
<1> DEFINE first == ProductUniSkip(side.acc)
           skipped == ProveBatch(side, 3, <<first>>)
           acc == skipped.acc
           x1 == RamReadWrite(acc, c)
           x2 == ProductRemainder(acc, c)
           x3 == InstructionReduction(acc, c)
           x4 == RamRaf(acc, c)
           x5 == RamOutput(c)
           batch == <<x1, x2, x3, x4, x5>>
           max == c.ram_log_K + c.log_T
           n == 5
<1>1. Steady(c, first)
  BY ProductUniSkipFacts DEF Steady
<1>2. Stage2("prover", side, c) = ProveBatch(skipped, 4, batch)
  BY DEF Stage2, Run
<1>3. SideOK(c, skipped) /\ Kept(side, skipped)
  <2> HIDE DEF first
  <2> QED
    BY <1>1, OnePlain
<1> HIDE DEF skipped
<1>4. AccPoints(acc)
  BY <1>3 DEF SideOK, AccOK
<1> HIDE DEF acc
<1>5. c.log_T \in Nat /\ c.ram_log_K \in Nat /\ max \in Nat /\ c.log_T <= max
  <2>1. c.log_T \in Nat /\ c.ram_log_K \in Nat
    BY ConfigAssumption
  <2> QED
    BY <2>1
<1>6. Plain(x1) /\ Answers(c, x1) /\ x1.rounds = max
  BY RamReadWriteFacts
<1>7. Plain(x2) /\ Answers(c, x2) /\ x2.rounds = c.log_T /\ Plain(x3) /\ Answers(c, x3) /\ x3.rounds = c.log_T
  BY CycleFacts
<1>8. Answers(c, x4) /\ Answers(c, x5)
  <2>1. \A x \in {RamRaf(acc, c), RamOutput(c)} : Answers(c, x)
    BY <1>4, GappedFacts
  <2> QED
    BY <2>1
<1>9. \A x \in {x4, x5} : /\ Fits(x, max)
                          /\ ~(c.p1 < c.log_T /\ c.p2 < c.ram_log_K) => Balanced(x, max)
  BY <1>4, GappedBalanced
<1> HIDE DEF x1, x2, x3, x4, x5, max
<1>10. \A x \in {x1, x2, x3} : Fits(x, max) /\ Balanced(x, max) /\ Answers(c, x) /\ x.rounds \in Nat
  <2>1. Fits(x1, max) /\ Balanced(x1, max)
    <3>1. x1.rounds \in Nat /\ x1.rounds <= max
      BY <1>5, <1>6
    <3> QED
      BY <1>5, <1>6, <3>1, PlainBalanced
  <2>2. Fits(x2, max) /\ Balanced(x2, max) /\ Fits(x3, max) /\ Balanced(x3, max)
    <3>1. x2.rounds \in Nat /\ x2.rounds <= max /\ x3.rounds \in Nat /\ x3.rounds <= max
      BY <1>5, <1>7
    <3> QED
      BY <1>5, <1>7, <3>1, PlainBalanced
  <2> QED
    BY <1>5, <1>6, <1>7, <2>1, <2>2
<1>11. /\ n \in Nat \ {0} /\ DOMAIN batch = 1 .. n
       /\ batch[1] = x1 /\ batch[2] = x2 /\ batch[3] = x3 /\ batch[4] = x4 /\ batch[5] = x5
       /\ \A i \in 1 .. n : i = 1 \/ i = 2 \/ i = 3 \/ i = 4 \/ i = 5
  OBVIOUS
<1> HIDE DEF batch, n
<1>12. \A i \in 1 .. n : Fits(batch[i], max) /\ Answers(c, batch[i])
  BY <1>8, <1>9, <1>10, <1>11
<1>13. MaxRounds(batch) = max
  <2>1. \A i \in 1 .. n : batch[i].rounds \in Nat /\ batch[i].rounds <= max
    BY <1>12 DEF Fits
  <2>2. /\ MaxRounds(batch) \in Nat
        /\ \A i \in 1 .. n : batch[i].rounds <= MaxRounds(batch)
        /\ \E i \in 1 .. n : batch[i].rounds = MaxRounds(batch)
    BY <1>11, <2>1, MaxRoundsFacts
  <2>3. 1 \in 1 .. n /\ batch[1].rounds = max
    BY <1>6, <1>11
  <2>4. max <= MaxRounds(batch) /\ MaxRounds(batch) <= max
    BY <2>1, <2>2, <2>3
  <2> QED
    BY <1>5, <2>2, <2>4
<1>14. /\ SideOK(c, ProveBatch(skipped, 4, batch))
       /\ ProveBatch(skipped, 4, batch).advice = skipped.advice
       /\ \A u \in ProveBatch(skipped, 4, batch).unbalanced :
             u \in skipped.unbalanced \/ \E i \in 1 .. n : u = <<4, i>> /\ ~Balanced(batch[i], max)
  <2> DEFINE b == 4
  <2>1. b \in Nat /\ SideOK(c, skipped) /\ n \in Nat \ {0} /\ DOMAIN batch = 1 .. n /\ max \in Nat
    BY <1>3, <1>5, <1>11
  <2> HIDE DEF b
  <2>2. /\ SideOK(c, ProveBatch(skipped, b, batch))
        /\ ProveBatch(skipped, b, batch).advice = skipped.advice
        /\ \A u \in ProveBatch(skipped, b, batch).unbalanced :
              u \in skipped.unbalanced \/ \E i \in 1 .. n : u = <<b, i>> /\ ~Balanced(batch[i], max)
    BY <1>12, <1>13, <2>1, BatchFacts, SMTT(30)
  <2> QED
    BY <2>2 DEF b
<1>15. \A i \in 1 .. n : ~Balanced(batch[i], max) => <<4, i>> \in GapExceptions(c)
  <2>1. ASSUME NEW i \in 1 .. n, ~Balanced(batch[i], max)
        PROVE  i \in {x \in {4, 5} : c.p1 < c.log_T /\ c.p2 < c.ram_log_K}
    <3>1. i = 4 \/ i = 5
      BY <1>10, <1>11, <2>1
    <3>2. c.p1 < c.log_T /\ c.p2 < c.ram_log_K
      BY <1>9, <1>11, <2>1, <3>1
    <3> QED
      BY <3>1, <3>2
  <2> QED
    BY <2>1 DEF GapExceptions
<1> QED
  BY <1>2, <1>3, <1>14, <1>15 DEF Kept

\* Stage 3 has no powers of two.
LEMMA Stage3Facts ==
    ASSUME NEW c \in Configs, NEW side, SideOK(c, side)
    PROVE  SideOK(c, Stage3("prover", side, c)) /\ Kept(side, Stage3("prover", side, c))
<1> DEFINE acc == side.acc
           x == Shift(acc, c)
           y == InstructionInput(acc)
           z == RegistersReduction(acc, c)
<1>1. AccPoints(acc) /\ c.log_T \in Nat
  BY ConfigAssumption DEF SideOK, AccOK
<1> HIDE DEF acc
<1>2. Steady(c, x) /\ Steady(c, z)
  BY <1>1, CycleFacts DEF Steady
<1>3. Steady(c, y)
  BY <1>1, InstructionInputFacts DEF Steady
<1>4. Stage3("prover", side, c) = ProveBatch(side, 5, <<x, y, z>>)
  BY DEF Stage3, Run, acc
<1> HIDE DEF x, y, z
<1>5. SideOK(c, ProveBatch(side, 5, <<x, y, z>>)) /\ Kept(side, ProveBatch(side, 5, <<x, y, z>>))
  BY <1>2, <1>3, ThreePlain
<1> QED
  BY <1>4, <1>5

\* Nor has stage 5.
LEMMA Stage5Facts ==
    ASSUME NEW c \in Configs, NEW side, SideOK(c, side)
    PROVE  SideOK(c, Stage5("prover", side, c)) /\ Kept(side, Stage5("prover", side, c))
<1> DEFINE acc == side.acc
           x == InstructionReadRaf(acc, c)
           y == RamRaReduction(acc, c)
           z == RegistersVal(acc)
<1>1. AccPoints(acc) /\ c.log_T \in Nat /\ LOG_K \in Nat /\ LOG_K + c.log_T \in Nat
  <2>1. c.log_T \in Nat /\ LOG_K \in Nat
    BY ConfigAssumption, OneHotAssumption
  <2> QED
    BY <2>1 DEF SideOK, AccOK
<1> HIDE DEF acc
<1>2. Steady(c, x)
  BY <1>1, ReadRafFacts DEF Steady
<1>3. Steady(c, y)
  BY <1>1, RamValFacts DEF Steady
<1>4. Steady(c, z)
  BY <1>1, RegistersValFacts DEF Steady
<1>5. Stage5("prover", side, c) = ProveBatch(side, 7, <<x, y, z>>)
  BY DEF Stage5, Run, acc
<1> HIDE DEF x, y, z
<1>6. SideOK(c, ProveBatch(side, 7, <<x, y, z>>)) /\ Kept(side, ProveBatch(side, 7, <<x, y, z>>))
  BY <1>2, <1>3, <1>4, ThreePlain
<1> QED
  BY <1>5, <1>6

\* The kinds of advice that are there.
OneKind(s, k, p, n) ==
    /\ PlacesOf(s, n)
    /\ \A i \in 1 .. n : p /\ s[i] = k
    /\ p => 1 \in 1 .. n
TwoKinds(s, k, p, l, q, m) ==
    /\ DOMAIN s = 1 .. m
    /\ \A i \in 1 .. m : (p /\ s[i] = k) \/ (q /\ s[i] = l)
    /\ p => \E i \in 1 .. m : s[i] = k
    /\ q => \E i \in 1 .. m : s[i] = l

\* Two kinds of advice, each there or not.
LEMMA OnlyTwo ==
    ASSUME NEW k, NEW l, NEW p \in BOOLEAN, NEW q \in BOOLEAN
    PROVE  \E m \in Nat : TwoKinds(Only(k, p) \o Only(l, q), k, p, l, q, m)
<1> DEFINE s == Only(k, p)
           t == Only(l, q)
<1>1. \E n \in Nat : OneKind(s, k, p, n)
  <2>1. CASE p
    <3>1. s = <<k>>
      BY <2>1 DEF Only
    <3> HIDE DEF s
    <3>2. s = [i \in 1 .. 1 |-> s[i]] /\ \A i \in 1 .. 1 : s[i] = k
      BY <3>1
    <3> QED
      BY <2>1, <3>2 DEF OneKind, PlacesOf
  <2>2. CASE ~p
    <3>1. s = <<>>
      BY <2>2 DEF Only
    <3> HIDE DEF s
    <3>2. s = [i \in 1 .. 0 |-> s[i]] /\ 1 .. 0 = {}
      BY <3>1
    <3>3. PlacesOf(s, 0)
      BY <3>2, Zenon DEF PlacesOf
    <3>4. OneKind(s, k, p, 0)
      BY <2>2, <3>2, <3>3 DEF OneKind
    <3> QED
      BY <3>4
  <2> QED
    BY <2>1, <2>2
<1>2. \E n \in Nat : OneKind(t, l, q, n)
  <2>1. CASE q
    <3>1. t = <<l>>
      BY <2>1 DEF Only
    <3> HIDE DEF t
    <3>2. t = [i \in 1 .. 1 |-> t[i]] /\ \A i \in 1 .. 1 : t[i] = l
      BY <3>1
    <3> QED
      BY <2>1, <3>2 DEF OneKind, PlacesOf
  <2>2. CASE ~q
    <3>1. t = <<>>
      BY <2>2 DEF Only
    <3> HIDE DEF t
    <3>2. t = [i \in 1 .. 0 |-> t[i]] /\ 1 .. 0 = {}
      BY <3>1
    <3>3. PlacesOf(t, 0)
      BY <3>2, Zenon DEF PlacesOf
    <3>4. OneKind(t, l, q, 0)
      BY <2>2, <3>2, <3>3 DEF OneKind
    <3> QED
      BY <3>4
  <2> QED
    BY <2>1, <2>2
<1> HIDE DEF s, t
<1>3. PICK n \in Nat : OneKind(s, k, p, n)
  BY <1>1
<1>4. PICK m \in Nat : OneKind(t, l, q, m)
  BY <1>2
<1>5. /\ DOMAIN (s \o t) = 1 .. n + m
      /\ \A i \in 1 .. n : (s \o t)[i] = s[i]
      /\ \A i \in 1 .. m : (s \o t)[n + i] = t[i]
  <2>1. PlacesOf(s, n) /\ PlacesOf(t, m)
    BY <1>3, <1>4, Zenon DEF OneKind
  <2>2. Joined(s, n, t, m)
    BY <2>1, JoinPlaces
  <2> QED
    BY <2>2 DEF Joined
<1>6. ASSUME NEW i \in 1 .. n + m PROVE (p /\ (s \o t)[i] = k) \/ (q /\ (s \o t)[i] = l)
  <2>1. CASE i <= n
    <3>1. i \in 1 .. n
      BY <2>1
    <3> QED
      BY <1>3, <1>5, <3>1 DEF OneKind
  <2>2. CASE ~(i <= n)
    <3> DEFINE j == i - n
    <3>1. j \in 1 .. m /\ n + j = i
      BY <2>2
    <3> HIDE DEF j
    <3>2. (s \o t)[i] = t[j]
      BY <1>5, <3>1
    <3> QED
      BY <1>4, <3>1, <3>2 DEF OneKind
  <2> QED
    BY <2>1, <2>2
<1>7. n + m \in Nat
  OBVIOUS
<1>8. ASSUME p PROVE \E i \in 1 .. n + m : (s \o t)[i] = k
  <2>1. 1 \in 1 .. n /\ 1 \in 1 .. n + m
    BY <1>3, <1>8 DEF OneKind
  <2> QED
    BY <1>3, <1>5, <2>1 DEF OneKind
<1>9. ASSUME q PROVE \E i \in 1 .. n + m : (s \o t)[i] = l
  <2>1. 1 \in 1 .. m /\ n + 1 \in 1 .. n + m
    BY <1>4, <1>9 DEF OneKind
  <2>2. (s \o t)[n + 1] = t[1] /\ t[1] = l
    BY <1>4, <1>5, <2>1 DEF OneKind
  <2> QED
    BY <2>1, <2>2
<1> QED
  BY <1>5, <1>6, <1>7, <1>8, <1>9 DEF s, t, TwoKinds

\* The lists of advice: their places and their members.
LEMMA KindsFacts ==
    ASSUME NEW c \in Configs, NEW advice
    PROVE  /\ \E m \in Nat : DOMAIN KindsOf(c) = 1 .. m
           /\ \E m \in Nat : DOMAIN AdviceOrder(c) = 1 .. m
                             /\ \A i \in 1 .. m : /\ AdviceOrder(c)[i] \in AdviceKinds
                                                  /\ AdviceOrder(c)[i] \in Range(KindsOf(c))
           /\ \E m \in Nat : DOMAIN AddressKinds(c, advice) = 1 .. m
                             /\ \A i \in 1 .. m : AddressKinds(c, advice)[i] \in AdviceKinds \cap DOMAIN advice
<1>1. (c.trusted > 0) \in BOOLEAN /\ (c.untrusted > 0) \in BOOLEAN
  OBVIOUS
<1>2. /\ \E m \in Nat : DOMAIN KindsOf(c) = 1 .. m
      /\ c.trusted > 0 => "trusted" \in Range(KindsOf(c))
      /\ c.untrusted > 0 => "untrusted" \in Range(KindsOf(c))
  <2> DEFINE p == c.untrusted > 0
             q == c.trusted > 0
             kinds == Only("untrusted", p) \o Only("trusted", q)
  <2>1. KindsOf(c) = kinds
    BY DEF KindsOf
  <2>2. p \in BOOLEAN /\ q \in BOOLEAN
    BY <1>1
  <2> HIDE DEF p, q
  <2>3. PICK m \in Nat : /\ DOMAIN kinds = 1 .. m
                         /\ p => \E i \in 1 .. m : kinds[i] = "untrusted"
                         /\ q => \E i \in 1 .. m : kinds[i] = "trusted"
    <3>1. PICK m \in Nat : TwoKinds(Only("untrusted", p) \o Only("trusted", q), "untrusted", p, "trusted", q, m)
      BY <2>2, OnlyTwo
    <3> HIDE DEF kinds
    <3>2. TwoKinds(kinds, "untrusted", p, "trusted", q, m)
      BY <3>1 DEF kinds
    <3> QED
      BY <3>2 DEF TwoKinds
  <2> HIDE DEF kinds
  <2>4. p => "untrusted" \in Range(kinds)
    BY <2>3 DEF Range
  <2>5. q => "trusted" \in Range(kinds)
    BY <2>3 DEF Range
  <2> QED
    BY <2>1, <2>3, <2>4, <2>5 DEF p, q
<1>3. \E m \in Nat : /\ DOMAIN AdviceOrder(c) = 1 .. m
                     /\ \A i \in 1 .. m : /\ AdviceOrder(c)[i] \in AdviceKinds
                                          /\ AdviceOrder(c)[i] \in Range(KindsOf(c))
  <2> DEFINE p == c.trusted > 0
             q == c.untrusted > 0
  <2> DEFINE kinds == Only("trusted", p) \o Only("untrusted", q)
  <2>1. AdviceOrder(c) = kinds
    BY DEF AdviceOrder
  <2>2. p \in BOOLEAN /\ q \in BOOLEAN
    BY <1>1
  <2>0. (p => "trusted" \in Range(KindsOf(c))) /\ (q => "untrusted" \in Range(KindsOf(c)))
    BY <1>2
  <2> HIDE DEF p, q
  <2>3. PICK m \in Nat :
            /\ DOMAIN kinds = 1 .. m
            /\ \A i \in 1 .. m : (p /\ kinds[i] = "trusted") \/ (q /\ kinds[i] = "untrusted")
    <3>1. PICK m \in Nat : TwoKinds(Only("trusted", p) \o Only("untrusted", q), "trusted", p, "untrusted", q, m)
      BY <2>2, OnlyTwo
    <3> HIDE DEF kinds
    <3>2. TwoKinds(kinds, "trusted", p, "untrusted", q, m)
      BY <3>1 DEF kinds
    <3> QED
      BY <3>2 DEF TwoKinds
  <2> HIDE DEF kinds
  <2> QED
    BY <2>0, <2>1, <2>3 DEF AdviceKinds
<1>4. \E m \in Nat : DOMAIN AddressKinds(c, advice) = 1 .. m
                     /\ \A i \in 1 .. m : AddressKinds(c, advice)[i] \in AdviceKinds \cap DOMAIN advice
  <2> DEFINE left(k) == k \in DOMAIN advice /\ AddressPhaseRounds(c, k, advice[k].layout) > 0
             p == left("trusted")
             q == left("untrusted")
  <2>1. p \in BOOLEAN /\ q \in BOOLEAN
    OBVIOUS
  <2> DEFINE kinds == Only("trusted", p) \o Only("untrusted", q)
  <2>2. AddressKinds(c, advice) = kinds
    BY DEF AddressKinds
  <2>3. (p => "trusted" \in DOMAIN advice) /\ (q => "untrusted" \in DOMAIN advice)
    OBVIOUS
  <2> HIDE DEF p, q
  <2>4. PICK m \in Nat :
            /\ DOMAIN kinds = 1 .. m
            /\ \A i \in 1 .. m : (p /\ kinds[i] = "trusted") \/ (q /\ kinds[i] = "untrusted")
    <3>1. PICK m \in Nat : TwoKinds(Only("trusted", p) \o Only("untrusted", q), "trusted", p, "untrusted", q, m)
      BY <2>1, OnlyTwo
    <3> HIDE DEF kinds
    <3>2. TwoKinds(kinds, "trusted", p, "untrusted", q, m)
      BY <3>1 DEF kinds
    <3> QED
      BY <3>2 DEF TwoKinds
  <2> HIDE DEF kinds
  <2> QED
    BY <2>2, <2>3, <2>4 DEF AdviceKinds
<1> QED
  BY <1>2, <1>3, <1>4

\* The advice's claims are made at points.
LEMMA ProverAdviceListed ==
    ASSUME NEW c \in Configs, NEW acc, AccPoints(acc)
    PROVE  Listed(c, ProverAdvice(acc, c))
<1>1. PICK n \in Nat : DOMAIN KindsOf(c) = 1 .. n
  BY KindsFacts
<1> DEFINE keys == [i \in 1 .. n |-> At(Advice(KindsOf(c)[i]), "RamValCheck")]
           points == [i \in 1 .. n |-> AdvicePoint(acc, c, KindsOf(c)[i])]
<1>2. ASSUME NEW i \in 1 .. n PROVE points[i] \in Points
  <2> DEFINE kind == KindsOf(c)[i]
             address == First(PointOf(acc, RamRW("RamVal")), c.ram_log_K)
             v == AdviceVars(c, kind)
  <2>1. address \in Points
    BY ConfigAssumption, PointOfPoint, FirstFacts
  <2>2. v \in Nat
    BY ConfigAssumption DEF AdviceVars
  <2>3. points[i] = LastOf(address, v)
    BY DEF AdvicePoint
  <2> HIDE DEF address, v, points
  <2> QED
    BY <2>1, <2>2, <2>3, LastOfPoint
<1>3. ProverAdvice(acc, c) = [i \in 1 .. n |-> Opened(keys[i], points[i], points[i])]
  BY <1>1 DEF ProverAdvice
<1> HIDE DEF keys, points
<1>4. ASSUME NEW f, f = [i \in 1 .. n |-> Opened(keys[i], points[i], points[i])] PROVE Listed(c, f)
  BY <1>2, <1>4, OpenedAtPoints
<1> QED
  BY <1>3, <1>4, Zenon

\* Stage 4 appends the advice's claims and has no powers of two.
LEMMA Stage4Facts ==
    ASSUME NEW c \in Configs, NEW side, SideOK(c, side)
    PROVE  SideOK(c, Stage4("prover", side, c)) /\ Kept(side, Stage4("prover", side, c))
<1> DEFINE with == ProverAppends(side, ProverAdvice(side.acc, c))
           x == RegistersReadWrite(side.acc, c)
           y == RamVal(with.acc, c)
<1>1. Stage4("prover", side, c) = ProveBatch(with, 6, <<x, y>>)
  BY DEF Stage4, Run, AppendAdvice
<1>2. AccPoints(side.acc) /\ c.log_T \in Nat /\ LogRegisters + c.log_T \in Nat
  <2>1. c.log_T \in Nat /\ LogRegisters \in Nat
    BY ConfigAssumption, OneHotAssumption
  <2> QED
    BY <2>1 DEF SideOK, AccOK
<1>3. SideOK(c, with) /\ Kept(side, with)
  <2>1. Listed(c, ProverAdvice(side.acc, c))
    BY <1>2, ProverAdviceListed
  <2> QED
    BY <2>1, AppendsKeep
<1> HIDE DEF with
<1>4. AccPoints(with.acc)
  BY <1>3 DEF SideOK, AccOK
<1>5. Steady(c, x)
  BY <1>2, RegistersReadWriteFacts DEF Steady
<1>6. Steady(c, y)
  BY <1>2, <1>4, RamValFacts DEF Steady
<1> HIDE DEF x, y
<1>7. SideOK(c, ProveBatch(with, 6, <<x, y>>)) /\ Kept(with, ProveBatch(with, 6, <<x, y>>))
  BY <1>3, <1>5, <1>6, TwoPlain
<1> QED
  BY <1>1, <1>3, <1>7 DEF Kept

\* What stage 6 keeps for stage 7.
AdviceOK(advice, c) ==
    \A k \in DOMAIN advice :
       /\ k \in Range(KindsOf(c)) /\ advice[k].layout = c.layout
       /\ advice[k].order = SortedOrder(c, k, SortLayout(c, k, c.layout))
       /\ advice[k].challenges \in Points
       /\ Len(advice[k].challenges) = AdviceVars(c, k) - AddressPhaseRounds(c, k, c.layout)

\* In stage 6 all instances fit, the advice's first phase too, whose challenges are kept.
LEMMA Stage6Facts ==
    ASSUME NEW c \in Configs, NEW side, SideOK(c, side)
    PROVE  /\ SideOK(c, Stage6("prover", side, c, c.layout))
           /\ Stage6("prover", side, c, c.layout).unbalanced \subseteq side.unbalanced
           /\ AdviceOK(Stage6("prover", side, c, c.layout).advice, c)
<1> DEFINE acc == side.acc
           layout == c.layout
           kinds == AdviceOrder(c)
           params == [k \in Range(kinds) |-> AdviceParams(c, k, layout)]
           x1 == BytecodeReadRaf(acc, c)
           x2 == Booleanity(acc, c)
           x3 == RamHamming(acc)
           x4 == RamRaVirtual(acc, c)
           x5 == InstructionRaVirtual(acc)
           x6 == IncReduction(acc, c)
           base == <<x1, x2, x3, x4, x5, x6>>
           extra == [i \in DOMAIN kinds |-> CyclePhase(acc, c, kinds[i], params[kinds[i]])]
           batch == base \o extra
           max == MaxRounds(batch)
           r == Challenges(8, max)
           slice(k) == Slice(CyclePhase(acc, c, k, params[k]), r)
           advice == [k \in Range(kinds) |->
                        [params[k] EXCEPT !.challenges = CycleVarChallenges(c, k, layout, slice(k))]]
           ran == ProveBatch(side, 8, batch)
<1>1. Stage6("prover", side, c, c.layout) = [ran EXCEPT !.advice = advice]
  BY DEF Stage6, Run
<1>2. AccPoints(acc)
  BY DEF SideOK, AccOK
<1>3. c.log_T \in Nat /\ c.bytecode_log_K \in Nat /\ LogKChunk \in Nat /\ layout \in Layouts
  BY ConfigAssumption, OneHotAssumption
<1>4. PICK m \in Nat : /\ DOMAIN kinds = 1 .. m
                       /\ \A i \in 1 .. m : /\ kinds[i] \in AdviceKinds
                                            /\ kinds[i] \in Range(KindsOf(c))
  BY KindsFacts
<1>5. \A k \in Range(kinds) : k \in AdviceKinds /\ k \in Range(KindsOf(c))
  BY <1>4 DEF Range
<1>6. \A k \in Range(kinds) : /\ params[k] = AdviceParams(c, k, layout)
                              /\ params[k].layout = layout
                              /\ params[k].order = SortedOrder(c, k, SortLayout(c, k, c.layout))
  BY DEF AdviceParams
<1>7. \A i \in 1 .. m : kinds[i] \in Range(kinds)
  BY <1>4 DEF Range
<1>8. Steady(c, x1) /\ Steady(c, x2) /\ x1.rounds = c.bytecode_log_K + c.log_T
  <2>1. c.bytecode_log_K + c.log_T \in Nat /\ LogKChunk + c.log_T \in Nat
    BY <1>3
  <2> QED
    BY <2>1, BytecodeFacts, BooleanityFacts DEF Steady
<1>9. Steady(c, x3) /\ Steady(c, x5)
  BY <1>2, RamHammingFacts, InstructionRaVirtualFacts DEF Steady
<1>10. Steady(c, x4) /\ Steady(c, x6)
  <2>1. Steady(c, x4)
    BY <1>2, <1>3, RamRaVirtualFacts DEF Steady
  <2>2. Steady(c, x6)
    BY <1>3, CycleFacts DEF Steady
  <2> QED
    BY <2>1, <2>2
<1> HIDE DEF x1, x2, x3, x4, x5, x6
<1>11. /\ base = [i \in 1 .. 6 |-> base[i]]
       /\ \A i \in 1 .. 6 : Steady(c, base[i])
       /\ base[1] = x1
  <2>1. /\ base[1] = x1 /\ base[2] = x2 /\ base[3] = x3 /\ base[4] = x4 /\ base[5] = x5 /\ base[6] = x6
        /\ \A i \in 1 .. 6 : i = 1 \/ i = 2 \/ i = 3 \/ i = 4 \/ i = 5 \/ i = 6
    OBVIOUS
  <2>2. base = [i \in 1 .. 6 |-> base[i]]
    OBVIOUS
  <2> HIDE DEF base
  <2> QED
    BY <1>8, <1>9, <1>10, <2>1, <2>2
<1> HIDE DEF base, kinds, params, acc
<1>12. extra = [i \in 1 .. m |-> extra[i]] /\ \A i \in 1 .. m : extra[i] = CyclePhase(acc, c, kinds[i], params[kinds[i]])
  BY <1>4
<1>13. \A k \in Range(kinds) :
          LET x == CyclePhase(acc, c, k, params[k])
          IN  /\ Answers(c, x) /\ x.rounds \in Nat
              /\ \A n \in Nat : c.log_T <= n => Fits(x, n) /\ Balanced(x, n)
  <2>1. ASSUME NEW k \in Range(kinds), NEW x, x = CyclePhase(acc, c, k, params[k])
        PROVE  /\ Answers(c, x) /\ x.rounds \in Nat
               /\ \A n \in Nat : c.log_T <= n => Fits(x, n) /\ Balanced(x, n)
    <3> DEFINE q == params[k]
    <3>1. /\ q.layout = c.layout /\ k \in AdviceKinds /\ k \in Range(KindsOf(c))
          /\ q.order = SortedOrder(c, k, SortLayout(c, k, c.layout))
      BY <1>5, <1>6
    <3> HIDE DEF q
    <3>2. x = CyclePhase(acc, c, k, q)
      BY <2>1 DEF q
    <3> QED
      BY <3>1, <3>2, CyclePhaseFacts
  <2> QED
    BY <2>1
<1> HIDE DEF extra
<1> DEFINE n == 6 + m
<1>14. /\ n \in Nat \ {0} /\ DOMAIN batch = 1 .. n
       /\ \A i \in 1 .. 6 : batch[i] = base[i]
       /\ \A i \in 1 .. m : batch[6 + i] = extra[i]
  <2> DEFINE six == 6
  <2>1. six \in Nat
    OBVIOUS
  <2>2. PlacesOf(base, six)
    BY <1>11, Zenon DEF PlacesOf
  <2>3. PlacesOf(extra, m)
    BY <1>12, Zenon DEF PlacesOf
  <2>4. n \in Nat \ {0} /\ n = six + m
    BY <1>4
  <2> HIDE DEF six, n
  <2>5. Joined(base, six, extra, m)
    BY <2>1, <2>2, <2>3, JoinPlaces
  <2>6. batch = (base \o extra)
    BY Zenon
  <2> HIDE DEF batch
  <2>7. DOMAIN batch = 1 .. n
    BY <2>4, <2>5, <2>6, Zenon DEF Joined
  <2>8. \A i \in 1 .. six : batch[i] = base[i]
    BY <2>5, <2>6, Zenon DEF Joined
  <2>9. \A i \in 1 .. m : batch[six + i] = extra[i]
    BY <2>5, <2>6, Zenon DEF Joined
  <2> QED
    BY <2>4, <2>7, <2>8, <2>9 DEF six
<1>15. \A i \in 1 .. n : i \in 1 .. 6 \/ \E j \in 1 .. m : i = 6 + j
  <2>1. ASSUME NEW i \in 1 .. n, i \notin 1 .. 6 PROVE \E j \in 1 .. m : i = 6 + j
    <3>1. i - 6 \in 1 .. m /\ i = 6 + (i - 6)
      BY <2>1
    <3> QED
      BY <3>1
  <2> QED
    BY <2>1
<1> HIDE DEF batch, n
<1>16. \A i \in 1 .. n : batch[i].rounds \in Nat
  <2>1. \A i \in 1 .. 6 : batch[i].rounds \in Nat
    BY <1>11, <1>14 DEF Steady
  <2>2. \A j \in 1 .. m : batch[6 + j].rounds \in Nat
    <3>1. ASSUME NEW j \in 1 .. m PROVE batch[6 + j].rounds \in Nat
      <4>1. batch[6 + j] = CyclePhase(acc, c, kinds[j], params[kinds[j]]) /\ kinds[j] \in Range(kinds)
        BY <1>7, <1>12, <1>14
      <4> QED
        BY <1>13, <4>1
    <3> QED
      BY <3>1
  <2> QED
    BY <1>15, <2>1, <2>2
<1>17. max \in Nat /\ (\A i \in 1 .. n : batch[i].rounds <= max) /\ c.log_T <= max
  <2>1. max \in Nat /\ \A i \in 1 .. n : batch[i].rounds <= max
    BY <1>14, <1>16, MaxRoundsFacts
  <2>2. 1 \in 1 .. n /\ batch[1] = x1
    BY <1>11, <1>14 DEF n
  <2>3. x1.rounds <= max
    BY <2>1, <2>2
  <2> HIDE DEF max
  <2> QED
    BY <1>3, <1>8, <2>1, <2>3
<1>18. \A i \in 1 .. n : Fits(batch[i], max) /\ Balanced(batch[i], max) /\ Answers(c, batch[i])
  <2> HIDE DEF max
  <2>1. ASSUME NEW i \in 1 .. 6, i \in 1 .. n
        PROVE  Fits(batch[i], max) /\ Balanced(batch[i], max) /\ Answers(c, batch[i])
    <3>1. Steady(c, batch[i]) /\ batch[i].rounds <= max
      BY <1>11, <1>14, <1>17, <2>1
    <3> QED
      BY <1>17, <3>1, PlainBalanced DEF Steady
  <2>2. ASSUME NEW j \in 1 .. m
        PROVE  Fits(batch[6 + j], max) /\ Balanced(batch[6 + j], max) /\ Answers(c, batch[6 + j])
    <3>1. batch[6 + j] = CyclePhase(acc, c, kinds[j], params[kinds[j]]) /\ kinds[j] \in Range(kinds)
      BY <1>7, <1>12, <1>14
    <3> QED
      BY <1>13, <1>17, <3>1
  <2> QED
    BY <1>15, <2>1, <2>2
<1>19. SideOK(c, ran) /\ ran.unbalanced \subseteq side.unbalanced
  <2> DEFINE b == 8
             t == ProveBatch(side, b, batch)
  <2>1. b \in Nat /\ max = MaxRounds(batch)
    OBVIOUS
  <2> HIDE DEF b, max
  <2>2. /\ SideOK(c, t)
        /\ \A u \in t.unbalanced : u \in side.unbalanced \/ \E i \in 1 .. n : u = <<b, i>> /\ ~Balanced(batch[i], max)
    BY <1>14, <1>17, <1>18, <2>1, BatchFacts, ZenonT(40)
  <2>3. t = ran
    BY DEF b
  <2> HIDE DEF t, ran
  <2> QED
    BY <1>18, <2>2, <2>3
<1>20. r \in Points /\ Len(r) = max
  <2> DEFINE b == 8
  <2>1. b \in Nat
    OBVIOUS
  <2> HIDE DEF b, max
  <2>2. Challenges(b, max) \in Points /\ Len(Challenges(b, max)) = max
    BY <1>17, <2>1, ChallengesPoint
  <2> QED
    BY <2>2 DEF b
<1>21. AdviceOK(advice, c)
  <2>1. SUFFICES ASSUME NEW k \in Range(kinds)
                 PROVE  /\ advice[k].layout = c.layout /\ advice[k].challenges \in Points
                        /\ advice[k].order = SortedOrder(c, k, SortLayout(c, k, c.layout))
                        /\ Len(advice[k].challenges)
                             = AdviceVars(c, k) - AddressPhaseRounds(c, k, c.layout)
    BY <1>5 DEF AdviceOK
  <2> DEFINE s == slice(k)
             w == CycleVarChallenges(c, k, layout, s)
  <2>2. advice[k] = [params[k] EXCEPT !.challenges = w]
    OBVIOUS
  <2>3. Fits(CyclePhase(acc, c, k, params[k]), Len(r))
    BY <1>13, <1>17, <1>20
  <2> HIDE DEF r
  <2>4. s \in Points /\ Len(s) = CyclePhase(acc, c, k, params[k]).rounds
    BY <1>20, <2>3, SlicePoint
  <2> HIDE DEF s
  <2>5. CyclePhase(acc, c, k, params[k]).rounds = CyclePhaseRounds(c, k, params[k].layout)
    BY DEF CyclePhase, Instance
  <2>6. /\ w \in Points
        /\ Len(w) = AdviceVars(c, k) - AddressPhaseRounds(c, k, layout)
    <3>1. Len(s) = CyclePhaseRounds(c, k, layout)
      BY <1>6, <2>4, <2>5
    <3>2. k \in AdviceKinds
      BY <1>5
    <3> HIDE DEF layout
    <3> QED
      BY <1>3, <2>4, <3>1, <3>2, CycleChallengesFacts
  <2> HIDE DEF w, advice
  <2>7. /\ advice[k].layout = layout /\ advice[k].challenges = w
        /\ advice[k].order = SortedOrder(c, k, SortLayout(c, k, c.layout))
    BY <1>6, <2>2 DEF AdviceParams
  <2> QED
    BY <2>6, <2>7
<1> HIDE DEF ran, advice
<1> DEFINE new == [ran EXCEPT !.advice = advice]
<1>22. DOMAIN new = DOMAIN ran /\ new.acc = ran.acc /\ new.unbalanced = ran.unbalanced /\ new.advice = advice
  BY <1>19 DEF SideOK
<1> HIDE DEF new
<1>23. SideOK(c, new)
  BY <1>19, <1>22 DEF SideOK
<1> QED
  BY <1>1, <1>19, <1>21, <1>22, <1>23 DEF new

\* Instances of stage 7 that do not fit the powers of two.
AdviceExceptions(c, advice) ==
    LET kinds == AddressKinds(c, advice)
    IN  {<<9, 1 + i>> : i \in {x \in DOMAIN kinds :
            /\ c.layout = "AddressMajor"
            /\ AdviceCols(c, kinds[x]) <= LogKChunk
            /\ AdviceRows(c, kinds[x]) > 0}}

\* In stage 7 all instances fit, but for advice with rows and no columns among the cycles.
LEMMA Stage7Facts ==
    ASSUME NEW c \in Configs, NEW side, SideOK(c, side), AdviceOK(side.advice, c),
           NEW layout, layout = c.layout
    PROVE  /\ SideOK(c, Stage7("prover", side, c, layout))
           /\ Stage7("prover", side, c, layout).advice = side.advice
           /\ Stage7("prover", side, c, layout).unbalanced
                \subseteq side.unbalanced \cup AdviceExceptions(c, side.advice)
<1> DEFINE acc == side.acc
           kinds == AddressKinds(c, side.advice)
           x1 == HammingWeight(acc, c)
           base == <<x1>>
           extra == [i \in DOMAIN kinds |->
                       AddressPhase(acc, c, kinds[i], side.advice[kinds[i]], layout)]
           batch == base \o extra
           K == LogKChunk
           ran == ProveBatch(side, 9, batch)
           Except(k) == /\ c.layout = "AddressMajor" /\ AdviceCols(c, k) <= LogKChunk
                        /\ AdviceRows(c, k) > 0
<1>1. Stage7("prover", side, c, layout) = ran
  BY DEF Stage7, Run
<1>2. AccPoints(acc) /\ K \in Nat /\ c.layout \in Layouts
  BY ConfigAssumption, OneHotAssumption DEF SideOK, AccOK
<1>3. PICK m \in Nat : /\ DOMAIN kinds = 1 .. m
                       /\ \A i \in 1 .. m : kinds[i] \in AdviceKinds \cap DOMAIN side.advice
  BY KindsFacts
<1>4. Steady(c, x1) /\ x1.rounds = K
  BY <1>2, HammingWeightFacts DEF Steady
<1> HIDE DEF x1
<1>5. base = [i \in 1 .. 1 |-> base[i]] /\ base[1] = x1
  OBVIOUS
<1> HIDE DEF base, kinds, acc
<1>6. /\ extra = [i \in 1 .. m |-> extra[i]]
      /\ \A i \in 1 .. m : extra[i] = AddressPhase(acc, c, kinds[i], side.advice[kinds[i]], layout)
  BY <1>3
<1> HIDE DEF extra
<1>7. ASSUME NEW i \in 1 .. m
      PROVE  Answers(c, extra[i]) /\ Fits(extra[i], K) /\ (~Except(kinds[i]) => Balanced(extra[i], K))
  <2> DEFINE k == kinds[i]
             params == side.advice[k]
             x == extra[i]
  <2>1. /\ k \in AdviceKinds /\ k \in Range(KindsOf(c)) /\ params.layout = c.layout
        /\ params.order = SortedOrder(c, k, SortLayout(c, k, c.layout))
        /\ params.challenges \in Points
        /\ Len(params.challenges) = AdviceVars(c, k) - AddressPhaseRounds(c, k, c.layout)
    BY <1>3 DEF AdviceOK
  <2>2. x = AddressPhase(acc, c, k, params, layout)
    BY <1>6
  <2> HIDE DEF k, params, x, K
  <2>3. /\ Answers(c, x) /\ Fits(x, LogKChunk)
        /\ ~(/\ params.layout = "AddressMajor" /\ AdviceCols(c, k) <= LogKChunk
             /\ AdviceRows(c, k) > 0) => Balanced(x, LogKChunk)
    BY <1>2, <2>1, <2>2, AddressPhaseFacts
  <2> QED
    BY <2>1, <2>3 DEF k, x, K
<1> DEFINE n == 1 + m
<1>8. /\ n \in Nat \ {0} /\ DOMAIN batch = 1 .. n /\ batch[1] = x1
      /\ \A i \in 1 .. m : batch[1 + i] = extra[i]
  <2> DEFINE one == 1
  <2>1. one \in Nat /\ one \in 1 .. one
    OBVIOUS
  <2>2. PlacesOf(base, one)
    BY <1>5, Zenon DEF PlacesOf
  <2>3. PlacesOf(extra, m)
    BY <1>6, Zenon DEF PlacesOf
  <2>4. n \in Nat \ {0} /\ n = one + m
    BY <1>3
  <2> HIDE DEF one, n
  <2>5. Joined(base, one, extra, m)
    BY <2>1, <2>2, <2>3, JoinPlaces
  <2>6. batch = base \o extra
    BY Zenon
  <2> HIDE DEF batch
  <2>7. DOMAIN batch = 1 .. n
    BY <2>4, <2>5, <2>6, Zenon DEF Joined
  <2>8. \A i \in 1 .. one : batch[i] = base[i]
    BY <2>5, <2>6, Zenon DEF Joined
  <2>9. \A i \in 1 .. m : batch[one + i] = extra[i]
    BY <2>5, <2>6, Zenon DEF Joined
  <2>10. batch[1] = x1
    BY <1>5, <2>1, <2>8 DEF one
  <2> QED
    BY <2>4, <2>7, <2>9, <2>10 DEF one
<1>9. \A i \in 1 .. n : i = 1 \/ \E j \in 1 .. m : i = 1 + j
  <2>1. ASSUME NEW i \in 1 .. n, i # 1 PROVE \E j \in 1 .. m : i = 1 + j
    <3>1. i - 1 \in 1 .. m /\ i = 1 + (i - 1)
      BY <2>1
    <3> QED
      BY <3>1
  <2> QED
    BY <2>1
<1> HIDE DEF batch, n, K
<1>10. Fits(x1, K) /\ Balanced(x1, K) /\ Answers(c, x1)
  <2>1. x1.rounds <= K
    BY <1>2, <1>4
  <2> QED
    BY <1>2, <1>4, <2>1, PlainBalanced DEF Steady
<1>11. \A i \in 1 .. n : Fits(batch[i], K) /\ Answers(c, batch[i])
  BY <1>7, <1>8, <1>9, <1>10
<1>12. MaxRounds(batch) = K
  <2>1. \A i \in 1 .. n : batch[i].rounds \in Nat /\ batch[i].rounds <= K
    BY <1>11 DEF Fits
  <2>2. /\ MaxRounds(batch) \in Nat
        /\ \A i \in 1 .. n : batch[i].rounds <= MaxRounds(batch)
        /\ \E i \in 1 .. n : batch[i].rounds = MaxRounds(batch)
    BY <1>8, <2>1, MaxRoundsFacts
  <2>3. 1 \in 1 .. n
    BY <1>8
  <2>4. K <= MaxRounds(batch) /\ MaxRounds(batch) <= K
    BY <1>4, <1>8, <2>1, <2>2, <2>3
  <2> QED
    BY <1>2, <2>2, <2>4
<1>13. /\ SideOK(c, ran) /\ ran.advice = side.advice
       /\ \A u \in ran.unbalanced : u \in side.unbalanced \/ \E i \in 1 .. n : u = <<9, i>> /\ ~Balanced(batch[i], K)
  <2> DEFINE b == 9
             t == ProveBatch(side, b, batch)
  <2>1. b \in Nat
    OBVIOUS
  <2> HIDE DEF b
  <2>2. /\ SideOK(c, t) /\ t.advice = side.advice
        /\ \A u \in t.unbalanced : u \in side.unbalanced \/ \E i \in 1 .. n : u = <<b, i>> /\ ~Balanced(batch[i], K)
    BY <1>2, <1>8, <1>11, <1>12, <2>1, BatchFacts, SMTT(30)
  <2> QED
    BY <2>2 DEF b
<1> HIDE DEF ran
<1>14. ASSUME NEW i \in 1 .. n, ~Balanced(batch[i], K)
       PROVE  <<9, i>> \in AdviceExceptions(c, side.advice)
  <2>1. i # 1
    BY <1>8, <1>10, <1>14
  <2>2. PICK j \in 1 .. m : i = 1 + j
    BY <1>9, <2>1
  <2>3. Except(kinds[j])
    BY <1>7, <1>8, <1>14, <2>2
  <2>4. j \in DOMAIN kinds
    BY <1>3
  <2> QED
    BY <2>2, <2>3, <2>4 DEF AdviceExceptions, kinds
<1> QED
  BY <1>1, <1>13, <1>14

----------------------------------------------------------------------------
(* The prover's thread. *)

\* Another proof that ran on the prover's thread leaves its shapes behind, but
\* neither its context nor its layout.
ThreadInv ==
    /\ DOMAIN stage = {"prover", "verifier"}
    /\ DOMAIN thread = {"prover", "verifier"}
    /\ DOMAIN thread.prover = {"shape", "context", "layout"}
    /\ thread.prover.context = "Main"
    /\ thread.prover.layout = config.layout

\* A main context that is entered again in the thread's layout.
LEMMA MainContext ==
    ASSUME NEW t, DOMAIN t = {"shape", "context", "layout"}, t.context = "Main", NEW log_T
    PROVE  LET new == InitializeContext(t, LogKChunk, log_T, "Main", t.layout)
           IN  /\ DOMAIN new = {"shape", "context", "layout"}
               /\ new.context = "Main" /\ new.layout = t.layout
               /\ "Main" \in DOMAIN new.shape
               /\ new.shape["Main"] = Dimensions(LogKChunk, log_T)
<1> DEFINE new == InitializeContext(t, LogKChunk, log_T, "Main", t.layout)
           shape == [x \in DOMAIN t.shape \cup {"Main"} |->
                        IF x = "Main" THEN Dimensions(LogKChunk, log_T) ELSE t.shape[x]]
<1>1. new = [shape |-> shape, context |-> "Main", layout |-> t.layout]
  BY DEF InitializeContext
<1>2. "Main" \in DOMAIN shape /\ shape["Main"] = Dimensions(LogKChunk, log_T)
  OBVIOUS
<1> HIDE DEF shape, new
<1>3. /\ DOMAIN new = {"shape", "context", "layout"}
      /\ new.context = "Main" /\ new.layout = t.layout /\ new.shape = shape
  BY <1>1
<1> QED
  BY <1>2, <1>3 DEF new

\* An advice context that was entered, used and left: the context is the main one
\* again, whose shape and layout are as they were.
LEMMA AdviceContext ==
    ASSUME NEW t, DOMAIN t = {"shape", "context", "layout"}, t.context = "Main",
           NEW kind \in AdviceKinds, NEW v
    PROVE  LET within == WithContext(InitializeContext(t, 0, v, kind, "unchanged"), kind)
               after == Dropped(within, t.context)
           IN  /\ Shape(within) = Dimensions(0, v)
               /\ DOMAIN after = {"shape", "context", "layout"}
               /\ after.context = "Main" /\ after.layout = t.layout
               /\ "Main" \in DOMAIN t.shape =>
                     "Main" \in DOMAIN after.shape /\ after.shape["Main"] = t.shape["Main"]
<1> DEFINE shape == [x \in DOMAIN t.shape \cup {kind} |->
                        IF x = kind THEN Dimensions(0, v) ELSE t.shape[x]]
           entered == InitializeContext(t, 0, v, kind, "unchanged")
           within == WithContext(entered, kind)
           after == Dropped(within, t.context)
<1>1. kind # "Main"
  BY DEF AdviceKinds
<1>2. entered = [t EXCEPT !.shape = shape]
  BY <1>1 DEF InitializeContext
<1>3. shape[kind] = Dimensions(0, v)
  OBVIOUS
<1>4. "Main" \in DOMAIN t.shape => "Main" \in DOMAIN shape /\ shape["Main"] = t.shape["Main"]
  BY <1>1
<1> HIDE DEF shape, entered
<1>5. /\ DOMAIN entered = {"shape", "context", "layout"}
      /\ entered.shape = shape /\ entered.layout = t.layout
  BY <1>2
<1>6. within = [entered EXCEPT !.context = kind]
  BY DEF WithContext
<1> HIDE DEF within
<1>7. /\ DOMAIN within = {"shape", "context", "layout"}
      /\ within.shape = shape /\ within.layout = t.layout /\ within.context = kind
  BY <1>5, <1>6
<1>8. after = [within EXCEPT !.context = t.context]
  BY DEF Dropped
<1> HIDE DEF after
<1>9. /\ DOMAIN after = {"shape", "context", "layout"}
      /\ after.shape = shape /\ after.layout = t.layout /\ after.context = "Main"
  BY <1>7, <1>8
<1>10. Shape(within) = Dimensions(0, v)
  BY <1>3, <1>7 DEF Shape
<1> QED
  BY <1>4, <1>9, <1>10 DEF entered, within, after

\* One side's thread or stage changes, and the other's does not.
LEMMA OneSide ==
    ASSUME NEW f, DOMAIN f = {"prover", "verifier"}, NEW x
    PROVE  /\ DOMAIN [f EXCEPT !.prover = x] = {"prover", "verifier"}
           /\ [f EXCEPT !.prover = x].prover = x
           /\ DOMAIN [f EXCEPT !.verifier = x] = {"prover", "verifier"}
           /\ [f EXCEPT !.verifier = x].prover = f.prover
  OBVIOUS

\* No step changes the configuration, nor the layout of the prover's thread.
LEMMA ThreadStep ==
    ASSUME ThreadInv, [Next]_vars
    PROVE  ThreadInv' /\ config' = config
<1> DEFINE t == thread.prover
           Moved == \E s : stage' = [stage EXCEPT !.prover = s]
           Main == \E log_T : thread' = [thread EXCEPT !.prover =
                                 InitializeContext(t, LogKChunk, log_T, "Main", t.layout)]
<1>1. /\ DOMAIN stage = {"prover", "verifier"} /\ DOMAIN thread = {"prover", "verifier"}
      /\ DOMAIN t = {"shape", "context", "layout"} /\ t.context = "Main" /\ t.layout = config.layout
  BY DEF ThreadInv
<1>2. ASSUME NEW kind \in AdviceKinds, CommitAdvice(kind), Moved, config' = config
      PROVE  ThreadInv'
  <2> DEFINE v == AdviceVars(config, kind)
             within == WithContext(InitializeContext(t, 0, v, kind, "unchanged"), kind)
             after == Dropped(within, t.context)
  <2>1. DOMAIN stage' = {"prover", "verifier"}
    BY <1>1, <1>2, OneSide
  <2>2. thread' = thread \/ thread' = [thread EXCEPT !.prover = after]
    BY <1>2 DEF CommitAdvice, InAdviceContext
  <2>3. /\ DOMAIN after = {"shape", "context", "layout"}
        /\ after.context = "Main" /\ after.layout = t.layout
    <3> HIDE DEF t, v
    <3> QED
      BY <1>1, AdviceContext
  <2> HIDE DEF after
  <2>4. CASE thread' = [thread EXCEPT !.prover = after]
    <3>1. DOMAIN thread' = {"prover", "verifier"} /\ thread'.prover = after
      BY <1>1, <2>4, OneSide
    <3> QED
      BY <1>1, <1>2, <2>1, <2>3, <3>1 DEF ThreadInv
  <2>5. CASE thread' = thread
    BY <1>1, <1>2, <2>1, <2>5 DEF ThreadInv
  <2> QED
    BY <2>2, <2>4, <2>5
<1>3. ASSUME Main, Moved \/ stage' = stage, config' = config
      PROVE  ThreadInv'
  <2>1. DOMAIN stage' = {"prover", "verifier"}
    BY <1>1, <1>3, OneSide
  <2>2. PICK log_T : thread' = [thread EXCEPT !.prover =
                        InitializeContext(t, LogKChunk, log_T, "Main", t.layout)]
    BY <1>3
  <2> DEFINE new == InitializeContext(t, LogKChunk, log_T, "Main", t.layout)
  <2>3. /\ DOMAIN new = {"shape", "context", "layout"}
        /\ new.context = "Main" /\ new.layout = t.layout
    <3> HIDE DEF t
    <3> QED
      BY <1>1, MainContext
  <2>4. thread' = [thread EXCEPT !.prover = new]
    BY <2>2
  <2> HIDE DEF new
  <2>5. DOMAIN thread' = {"prover", "verifier"} /\ thread'.prover = new
    BY <1>1, <2>4, OneSide
  <2> QED
    BY <1>1, <1>3, <2>1, <2>3, <2>5 DEF ThreadInv
<1>4. ASSUME thread' = thread, Moved \/ stage' = stage, config' = config
      PROVE  ThreadInv'
  <2>1. DOMAIN stage' = {"prover", "verifier"}
    BY <1>1, <1>4, OneSide
  <2> QED
    BY <1>1, <1>4, <2>1 DEF ThreadInv
<1>5. ASSUME \E s : stage' = [stage EXCEPT !.verifier = s],
             thread' = thread \/ \E x : thread' = [thread EXCEPT !.verifier = x],
             config' = config
      PROVE  ThreadInv'
  <2>1. DOMAIN stage' = {"prover", "verifier"}
    BY <1>1, <1>5, OneSide
  <2>2. DOMAIN thread' = {"prover", "verifier"} /\ thread'.prover = t
    BY <1>1, <1>5, OneSide
  <2> QED
    BY <1>1, <1>5, <2>1, <2>2 DEF ThreadInv
<1> HIDE DEF t
<1>6. CASE CommitTrustedAdvice
  BY <1>2, <1>6 DEF CommitTrustedAdvice, ProverTo, AdviceKinds
<1>7. CASE CommitUntrustedAdvice
  BY <1>2, <1>7 DEF CommitUntrustedAdvice, ProverTo, AdviceKinds
<1>8. CASE CommitInit
  BY <1>3, <1>8 DEF CommitInit, ProverTo, Reinitialized, t
<1>9. CASE ProveStage8
  BY <1>3, <1>9 DEF ProveStage8, ProverTo, Reinitialized, t
<1>10. CASE Steal
  BY <1>3, <1>10 DEF Steal, t
<1>11. CASE CommitWitness \/ OpenJointPolynomial
  BY <1>4, <1>11 DEF CommitWitness, OpenJointPolynomial, ProverTo
<1>12. CASE \/ ProveStage1 \/ ProveStage2 \/ ProveStage3 \/ ProveStage4
            \/ ProveStage5 \/ ProveStage6 \/ ProveStage7
  BY <1>4, <1>12 DEF ProveStage1, ProveStage2, ProveStage3, ProveStage4, ProveStage5, ProveStage6,
                     ProveStage7, ProveStage, ProverTo
<1>13. CASE Deliver
  BY <1>5, <1>13 DEF Deliver
<1>14. CASE \/ VerifyStage1 \/ VerifyStage2 \/ VerifyStage3 \/ VerifyStage4
            \/ VerifyStage5 \/ VerifyStage6 \/ VerifyStage7 \/ VerifyStage8
  BY <1>5, <1>14 DEF VerifyStage1, VerifyStage2, VerifyStage3, VerifyStage4, VerifyStage5,
                     VerifyStage6, VerifyStage7, VerifyStage8, VerifyStage
<1>15. CASE UNCHANGED vars
  BY <1>4, <1>15 DEF vars
<1> QED
  BY <1>6, <1>7, <1>8, <1>9, <1>10, <1>11, <1>12, <1>13, <1>14, <1>15 DEF Next

----------------------------------------------------------------------------
(* Powers of two. *)

\* Until stage 7 the instances that do not fit are those with a gap; what stage 6
\* keeps of the advice then tells which of stage 7 do not.
WeightsInv ==
    /\ config \in Configs
    /\ ThreadInv
    /\ SideOK(config, prover)
    /\ stage.prover \notin {"stage8", "open", "done"} =>
           prover.unbalanced \subseteq GapExceptions(config)
    /\ stage.prover \in {"stage7", "stage8", "open", "done"} => AdviceOK(prover.advice, config)
    /\ ClaimWeightsMatch

\* The known exceptions, by the stage they are from.
LEMMA ExceptionsAre ==
    /\ Exceptions = GapExceptions(config) \cup AdviceExceptions(config, prover.advice)
    /\ GapExceptions(config) \subseteq Exceptions
<1>1. Exceptions = GapExceptions(config) \cup AdviceExceptions(config, prover.advice)
  BY DEF Exceptions, GapExceptions, AdviceExceptions
<1> QED
  BY <1>1, Zenon

\* The prover has nothing of its own at the beginning.
LEMMA WeightsInit == Init => WeightsInv
<1> SUFFICES ASSUME Init PROVE WeightsInv
  OBVIOUS
<1>1. config \in Configs /\ config.layout \in Layouts
  BY ConfigAssumption DEF Init
<1>2. ThreadInv
  <2>1. DOMAIN stage = {"prover", "verifier"}
    BY DEF Init
  <2>2. PICK layout \in Layouts :
          thread = [prover |-> [NewThread EXCEPT !.layout = config.layout],
                    verifier |-> [NewThread EXCEPT !.layout = layout]]
    BY DEF Init
  <2> DEFINE new == [NewThread EXCEPT !.layout = config.layout]
  <2>3. DOMAIN new = {"shape", "context", "layout"} /\ new.context = "Main" /\ new.layout = config.layout
    BY DEF NewThread
  <2> HIDE DEF new
  <2>4. DOMAIN thread = {"prover", "verifier"} /\ thread.prover = new
    BY <2>2 DEF new
  <2> QED
    BY <2>1, <2>3, <2>4 DEF ThreadInv
<1>3. prover = NewSide /\ stage.prover = "preprocess"
  BY DEF Init
<1>4. SideOK(config, NewSide) /\ NewSide.unbalanced = {}
  <2> DEFINE acc == Acc!NewAccumulator
  <2>1. AccOK(config, acc)
    BY DEF Acc!NewAccumulator, AccOK, AccPoints, TrueAcc
  <2> HIDE DEF acc
  <2>2. NewSide.acc = acc /\ NewSide.unbalanced = {}
        /\ DOMAIN NewSide = {"acc", "transcript", "advice", "ok", "wrong", "unbalanced", "used", "appended"}
    BY DEF NewSide, acc
  <2> QED
    BY <2>1, <2>2 DEF SideOK
<1>5. ClaimWeightsMatch
  BY <1>3, <1>4 DEF ClaimWeightsMatch
<1> QED
  BY <1>1, <1>2, <1>3, <1>4, <1>5 DEF WeightsInv

\* A step that leaves the prover's side alone and does not end stage 6 or 7.
LEMMA WeightsKept ==
    ASSUME WeightsInv, ThreadInv', config' = config, prover' = prover,
           \/ stage'.prover = stage.prover
           \/ stage'.prover \in {"commit", "witness", "advice", "stage1"}
              /\ stage.prover \in {"preprocess", "commit", "witness", "advice"}
           \/ stage'.prover = "done" /\ stage.prover = "open"
    PROVE  WeightsInv'
<1>1. SideOK(config, prover')
  BY DEF WeightsInv
<1>2. ClaimWeightsMatch'
  BY DEF WeightsInv, ClaimWeightsMatch, Exceptions
<1>3. config' \in Configs
  BY DEF WeightsInv
<1>4. stage'.prover \notin {"stage8", "open", "done"} => prover'.unbalanced \subseteq GapExceptions(config')
  BY DEF WeightsInv
<1>5. stage'.prover \in {"stage7", "stage8", "open", "done"} => AdviceOK(prover'.advice, config')
  BY DEF WeightsInv
<1> QED
  BY <1>1, <1>2, <1>3, <1>4, <1>5 DEF WeightsInv

\* A stage before the seventh, which adds no exception but those with a gap.
LEMMA WeightsEarly ==
    ASSUME WeightsInv, ThreadInv', config' = config, SideOK(config, prover'),
           stage.prover \notin {"stage8", "open", "done"},
           stage'.prover \notin {"stage8", "open", "done"},
           prover'.unbalanced \subseteq prover.unbalanced \cup GapExceptions(config),
           stage'.prover = "stage7" => AdviceOK(prover'.advice, config)
    PROVE  WeightsInv'
<1>1. prover'.unbalanced \subseteq GapExceptions(config)
  BY DEF WeightsInv
<1>2. GapExceptions(config)' = GapExceptions(config)
  OBVIOUS
<1>3. (GapExceptions(config) \subseteq Exceptions)'
  BY ExceptionsAre, PTL
<1>4. ClaimWeightsMatch'
  BY <1>1, <1>2, <1>3 DEF ClaimWeightsMatch
<1> QED
  BY <1>1, <1>4 DEF WeightsInv

\* What a stage of the prover does to the stage and the configuration.
LEMMA StageStep ==
    ASSUME ThreadInv, NEW from, NEW to, NEW side, ProveStage(from, to, side)
    PROVE  stage.prover = from /\ stage'.prover = to /\ prover' = side
<1>1. DOMAIN stage = {"prover", "verifier"} /\ stage' = [stage EXCEPT !.prover = to]
  BY DEF ThreadInv, ProveStage, ProverTo
<1>2. stage'.prover = to
  BY <1>1, OneSide
<1> QED
  BY <1>2 DEF ProveStage, ProverTo

\* No step leaves an instance whose powers do not agree, but for the exceptions.
LEMMA WeightsStep ==
    ASSUME WeightsInv, [Next]_vars
    PROVE  WeightsInv'
<1>1. ThreadInv /\ config \in Configs /\ SideOK(config, prover) /\ thread.prover.layout = config.layout
  BY DEF WeightsInv, ThreadInv
<1>2. ThreadInv' /\ config' = config
  BY <1>1, ThreadStep
<1>3. DOMAIN stage = {"prover", "verifier"}
  BY <1>1 DEF ThreadInv
<1>4. CASE ProveStage1
  <2> DEFINE side == Stage1("prover", prover, config)
  <2>1. SideOK(config, side) /\ side.unbalanced \subseteq prover.unbalanced
    BY <1>1, Stage1Facts DEF Kept
  <2>2. ProveStage("stage1", "stage2", side)
    BY <1>4 DEF ProveStage1
  <2> HIDE DEF side
  <2>3. stage.prover = "stage1" /\ stage'.prover = "stage2" /\ prover' = side
    BY <1>1, <2>2, StageStep
  <2> QED
    BY <1>1, <1>2, <2>1, <2>3, WeightsEarly
<1>5. CASE ProveStage2
  <2> DEFINE side == Stage2("prover", prover, config)
  <2>1. SideOK(config, side) /\ side.unbalanced \subseteq prover.unbalanced \cup GapExceptions(config)
    BY <1>1, Stage2Facts
  <2>2. ProveStage("stage2", "stage3", side)
    BY <1>5 DEF ProveStage2
  <2> HIDE DEF side
  <2>3. stage.prover = "stage2" /\ stage'.prover = "stage3" /\ prover' = side
    BY <1>1, <2>2, StageStep
  <2> QED
    BY <1>1, <1>2, <2>1, <2>3, WeightsEarly
<1>6. CASE ProveStage3
  <2> DEFINE side == Stage3("prover", prover, config)
  <2>1. SideOK(config, side) /\ side.unbalanced \subseteq prover.unbalanced
    BY <1>1, Stage3Facts DEF Kept
  <2>2. ProveStage("stage3", "stage4", side)
    BY <1>6 DEF ProveStage3
  <2> HIDE DEF side
  <2>3. stage.prover = "stage3" /\ stage'.prover = "stage4" /\ prover' = side
    BY <1>1, <2>2, StageStep
  <2> QED
    BY <1>1, <1>2, <2>1, <2>3, WeightsEarly
<1>7. CASE ProveStage4
  <2> DEFINE side == Stage4("prover", prover, config)
  <2>1. SideOK(config, side) /\ side.unbalanced \subseteq prover.unbalanced
    BY <1>1, Stage4Facts DEF Kept
  <2>2. ProveStage("stage4", "stage5", side)
    BY <1>7 DEF ProveStage4
  <2> HIDE DEF side
  <2>3. stage.prover = "stage4" /\ stage'.prover = "stage5" /\ prover' = side
    BY <1>1, <2>2, StageStep
  <2> QED
    BY <1>1, <1>2, <2>1, <2>3, WeightsEarly
<1>8. CASE ProveStage5
  <2> DEFINE side == Stage5("prover", prover, config)
  <2>1. SideOK(config, side) /\ side.unbalanced \subseteq prover.unbalanced
    BY <1>1, Stage5Facts DEF Kept
  <2>2. ProveStage("stage5", "stage6", side)
    BY <1>8 DEF ProveStage5
  <2> HIDE DEF side
  <2>3. stage.prover = "stage5" /\ stage'.prover = "stage6" /\ prover' = side
    BY <1>1, <2>2, StageStep
  <2> QED
    BY <1>1, <1>2, <2>1, <2>3, WeightsEarly
<1>9. CASE ProveStage6
  <2> DEFINE side == Stage6("prover", prover, config, config.layout)
  <2>1. /\ SideOK(config, side) /\ side.unbalanced \subseteq prover.unbalanced
        /\ AdviceOK(side.advice, config)
    BY <1>1, Stage6Facts
  <2>2. ProveStage("stage6", "stage7", side)
    BY <1>1, <1>9 DEF ProveStage6
  <2> HIDE DEF side
  <2>3. stage.prover = "stage6" /\ stage'.prover = "stage7" /\ prover' = side
    BY <1>1, <2>2, StageStep
  <2> QED
    BY <1>1, <1>2, <2>1, <2>3, WeightsEarly
<1>10. CASE ProveStage7
  <2> DEFINE layout == thread.prover.layout
             side == Stage7("prover", prover, config, layout)
  <2>1. stage.prover = "stage7" /\ stage'.prover = "stage8" /\ prover' = side
    <3>1. ProveStage("stage7", "stage8", side)
      BY <1>10 DEF ProveStage7
    <3> HIDE DEF side
    <3> QED
      BY <1>1, <3>1, StageStep
  <2>0. layout = config.layout
    BY <1>1
  <2>2. AdviceOK(prover.advice, config) /\ prover.unbalanced \subseteq GapExceptions(config)
    BY <2>1 DEF WeightsInv
  <2> HIDE DEF layout
  <2>3. /\ SideOK(config, side) /\ side.advice = prover.advice
        /\ side.unbalanced \subseteq prover.unbalanced \cup AdviceExceptions(config, prover.advice)
    BY <1>1, <2>0, <2>2, Stage7Facts
  <2> HIDE DEF side
  <2>4. prover'.unbalanced \subseteq GapExceptions(config') \cup AdviceExceptions(config', prover'.advice)
    BY <1>2, <2>1, <2>2, <2>3
  <2>5. (Exceptions = GapExceptions(config) \cup AdviceExceptions(config, prover.advice))'
    BY ExceptionsAre, PTL
  <2>6. ClaimWeightsMatch'
    BY <2>4, <2>5 DEF ClaimWeightsMatch
  <2> QED
    BY <1>1, <1>2, <2>1, <2>2, <2>3, <2>6 DEF WeightsInv
<1>11. CASE ProveStage8
  <2>1. /\ stage.prover = "stage8" /\ stage' = [stage EXCEPT !.prover = "open"]
        /\ prover' = Stage8(prover, config)
    BY <1>11 DEF ProveStage8, ProverTo
  <2>2. stage'.prover = "open"
    BY <1>3, <2>1, OneSide
  <2>3. /\ DOMAIN prover' = DOMAIN prover /\ prover'.acc = prover.acc
        /\ prover'.advice = prover.advice /\ prover'.unbalanced = prover.unbalanced
    BY <1>1, <2>1 DEF Stage8, SideOK
  <2>4. SideOK(config, prover')
    BY <1>1, <2>3 DEF SideOK
  <2>5. ClaimWeightsMatch'
    BY <1>2, <2>3 DEF WeightsInv, ClaimWeightsMatch, Exceptions
  <2> QED
    BY <1>1, <1>2, <2>1, <2>2, <2>3, <2>4, <2>5 DEF WeightsInv
<1>12. CASE CommitTrustedAdvice \/ CommitInit \/ CommitWitness \/ CommitUntrustedAdvice
            \/ OpenJointPolynomial
  <2>1. ASSUME NEW from, NEW to, ProverTo(from, to) PROVE stage.prover = from /\ stage'.prover = to
    <3>1. stage' = [stage EXCEPT !.prover = to]
      BY <2>1 DEF ProverTo
    <3>2. stage'.prover = to
      BY <1>3, <3>1, OneSide
    <3> QED
      BY <2>1, <3>2 DEF ProverTo
  <2>2. prover' = prover
    BY <1>12 DEF CommitTrustedAdvice, CommitInit, CommitWitness, CommitUntrustedAdvice,
                 OpenJointPolynomial
  <2>3. \/ ProverTo("preprocess", "commit") \/ ProverTo("commit", "witness")
        \/ ProverTo("witness", "advice") \/ ProverTo("advice", "stage1")
        \/ ProverTo("open", "done")
    BY <1>12 DEF CommitTrustedAdvice, CommitInit, CommitWitness, CommitUntrustedAdvice,
                 OpenJointPolynomial
  <2>4. \/ stage'.prover \in {"commit", "witness", "advice", "stage1"}
           /\ stage.prover \in {"preprocess", "commit", "witness", "advice"}
        \/ stage'.prover = "done" /\ stage.prover = "open"
    <3>1. \/ stage.prover = "preprocess" /\ stage'.prover = "commit"
          \/ stage.prover = "commit" /\ stage'.prover = "witness"
          \/ stage.prover = "witness" /\ stage'.prover = "advice"
          \/ stage.prover = "advice" /\ stage'.prover = "stage1"
          \/ stage.prover = "open" /\ stage'.prover = "done"
      BY <2>1, <2>3, Zenon
    <3> QED
      BY <3>1
  <2> QED
    BY <1>2, <2>2, <2>4, WeightsKept
<1>13. CASE \/ Steal \/ Deliver
            \/ VerifyStage1 \/ VerifyStage2 \/ VerifyStage3 \/ VerifyStage4
            \/ VerifyStage5 \/ VerifyStage6 \/ VerifyStage7 \/ VerifyStage8
            \/ UNCHANGED vars
  <2>1. prover' = prover
    BY <1>13 DEF Steal, Deliver, VerifyStage1, VerifyStage2, VerifyStage3, VerifyStage4, VerifyStage5,
                 VerifyStage6, VerifyStage7, VerifyStage8, VerifyStage, vars
  <2>2. stage' = stage \/ \E s : stage' = [stage EXCEPT !.verifier = s]
    BY <1>13 DEF Steal, Deliver, VerifyStage1, VerifyStage2, VerifyStage3, VerifyStage4, VerifyStage5,
                 VerifyStage6, VerifyStage7, VerifyStage8, VerifyStage, vars
  <2>3. stage'.prover = stage.prover
    BY <1>3, <2>2, OneSide
  <2> QED
    BY <1>2, <2>1, <2>3, WeightsKept
<1> QED
  BY <1>4, <1>5, <1>6, <1>7, <1>8, <1>9, <1>10, <1>11, <1>12, <1>13 DEF Next

\* The only claims that need not be true are the sums left after stage 6, and those on
\* advice that was sorted by threads with another layout.
LEMMA TrueOf == WeightsInv => TrueOpenings
<1> SUFFICES ASSUME WeightsInv, NEW k \in DOMAIN prover.acc.openings \ CMids
             PROVE  \/ prover.acc.openings[k].claim = <<k.poly, prover.acc.openings[k].point>>
                    \/ \E kind \in Range(KindsOf(config)) : k = AdviceFinal(kind) /\ SortedElsewhere(kind)
  BY DEF TrueOpenings
<1>1. TrueAcc(config, prover.acc)
  BY DEF WeightsInv, SideOK, AccOK
<1>2. prover.acc.openings[k].claim = <<k.poly, prover.acc.openings[k].point>> \/ Untrue(config, k)
  BY <1>1 DEF TrueAcc
<1> QED
  BY <1>2 DEF Untrue, SortedElsewhere

\* TrueOpenings for every configuration: the point that is recorded with a claim is
\* the one the prover's polynomial was bound to, whatever the sizes, the phases of
\* read-write checking and the layout, also for advice bound in rounds of two stages
\* and in permuted order, unless its coefficients were sorted by threads of the pool.
THEOREM TrueCorrect == Spec => []TrueOpenings
<1>1. Init => WeightsInv
  BY WeightsInit
<1>2. WeightsInv /\ [Next]_vars => WeightsInv'
  BY WeightsStep
<1>3. WeightsInv => TrueOpenings
  BY TrueOf
<1> QED
  BY <1>1, <1>2, <1>3, PTL DEF Spec

\* ClaimWeightsMatch for every configuration: in every batch, whatever the sizes,
\* the phases and the layout, each instance's messages and its final claim carry
\* the powers of two that its input claim was multiplied by, but for the gaps.
THEOREM WeightsCorrect == Spec => []ClaimWeightsMatch
<1>1. Init => WeightsInv
  BY WeightsInit
<1>2. WeightsInv /\ [Next]_vars => WeightsInv'
  BY WeightsStep
<1>3. WeightsInv => ClaimWeightsMatch
  BY DEF WeightsInv
<1> QED
  BY <1>1, <1>2, <1>3, PTL DEF Spec

----------------------------------------------------------------------------
(* The matrix. *)

\* From the commitment on, the main shape of the prover's thread is this proof's
\* while no other proof has run there.
MatrixInv ==
    /\ ThreadInv
    /\ DOMAIN stolen = {"times", "since"} /\ stolen.since \in BOOLEAN
    /\ stage.prover \notin {"preprocess", "commit"} /\ ~stolen.since =>
           /\ "Main" \in DOMAIN thread.prover.shape
           /\ thread.prover.shape["Main"] = Dimensions(LogKChunk, config.log_T)
    /\ OwnMatrix

\* The shape a use should see.
OwnShape(use) ==
    IF use \in AdviceKinds THEN Dimensions(0, AdviceVars(config, use))
    ELSE Dimensions(LogKChunk, config.log_T)

\* A shape that is read is this proof's, or read after another proof got in.
LEMMA ReadKeeps ==
    ASSUME OwnMatrix, config' = config, NEW use, NEW shape, NEW since,
           since \/ shape = OwnShape(use),
           matrix' = [u \in DOMAIN matrix \cup {use} |->
                        IF u = use THEN [shape |-> shape, stolen |-> since] ELSE matrix[u]]
    PROVE  OwnMatrix'
<1>1. \A u \in DOMAIN matrix : matrix[u].stolen \/ matrix[u].shape = OwnShape(u)
  BY DEF OwnMatrix, OwnShape
<1>2. \A u : OwnShape(u)' = OwnShape(u)
  BY DEF OwnShape, AdviceVars
<1>3. ASSUME NEW u \in DOMAIN matrix' PROVE matrix'[u].stolen \/ matrix'[u].shape = OwnShape(u)
  <2>1. CASE u = use
    <3> DEFINE entry == [shape |-> shape, stolen |-> since]
    <3>1. matrix'[u] = entry
      BY <2>1
    <3>2. entry.shape = shape /\ entry.stolen = since
      OBVIOUS
    <3> HIDE DEF entry
    <3> QED
      BY <2>1, <3>1, <3>2
  <2>2. CASE u # use
    <3>1. u \in DOMAIN matrix /\ matrix'[u] = matrix[u]
      BY <1>3, <2>2
    <3> QED
      BY <1>1, <3>1
  <2> QED
    BY <2>1, <2>2
<1>4. \A u \in DOMAIN matrix' : matrix'[u].stolen \/ matrix'[u].shape = OwnShape(u)'
  BY <1>2, <1>3
<1> QED
  BY <1>4 DEF OwnMatrix, OwnShape

\* Nothing is read.
LEMMA UnreadKeeps ==
    ASSUME OwnMatrix, config' = config, matrix' = matrix
    PROVE  OwnMatrix'
  BY DEF OwnMatrix, AdviceVars

\* A commitment to advice reads the shape of the advice's own context and gives the
\* main one back.
LEMMA CommitAdviceKeeps ==
    ASSUME MatrixInv, config' = config, NEW kind \in AdviceKinds, CommitAdvice(kind)
    PROVE  /\ OwnMatrix'
           /\ "Main" \in DOMAIN thread.prover.shape =>
                 /\ "Main" \in DOMAIN thread'.prover.shape
                 /\ thread'.prover.shape["Main"] = thread.prover.shape["Main"]
<1> DEFINE t == thread.prover
           v == AdviceVars(config, kind)
           within == WithContext(InitializeContext(t, 0, v, kind, "unchanged"), kind)
           after == Dropped(within, t.context)
<1>1. /\ DOMAIN thread = {"prover", "verifier"} /\ OwnMatrix
      /\ DOMAIN t = {"shape", "context", "layout"} /\ t.context = "Main"
  BY DEF MatrixInv, ThreadInv
<1>2. /\ Shape(within) = Dimensions(0, v)
      /\ "Main" \in DOMAIN t.shape =>
            "Main" \in DOMAIN after.shape /\ after.shape["Main"] = t.shape["Main"]
  <2> HIDE DEF t, v
  <2> QED
    BY <1>1, AdviceContext
<1>3. CASE v = 0
  <2>1. thread' = thread /\ matrix' = matrix
    BY <1>3 DEF CommitAdvice
  <2> QED
    BY <1>1, <2>1, UnreadKeeps
<1>4. CASE v # 0
  <2>1. Read(kind, within) /\ thread' = [thread EXCEPT !.prover = after]
    BY <1>4 DEF CommitAdvice, InAdviceContext
  <2> DEFINE shape == Shape(within)
             since == stolen.since
  <2>2. matrix' = [u \in DOMAIN matrix \cup {kind} |->
                     IF u = kind THEN [shape |-> shape, stolen |-> since] ELSE matrix[u]]
    BY <2>1 DEF Read
  <2>3. shape = OwnShape(kind)
    BY <1>2 DEF OwnShape
  <2> HIDE DEF shape, since
  <2>4. OwnMatrix'
    BY <1>1, <2>2, <2>3, ReadKeeps
  <2> HIDE DEF after
  <2>5. thread'.prover = after
    BY <1>1, <2>1, OneSide
  <2> QED
    BY <1>2, <2>4, <2>5
<1> QED
  BY <1>3, <1>4

\* No matrix has been read at the beginning.
LEMMA MatrixInit == Init => MatrixInv
<1> SUFFICES ASSUME Init PROVE MatrixInv
  OBVIOUS
<1>1. ThreadInv
  BY WeightsInit DEF WeightsInv
<1>2. OwnMatrix
  <2>1. DOMAIN matrix = {}
    BY DEF Init
  <2> QED
    BY <2>1 DEF OwnMatrix
<1>3. DOMAIN stolen = {"times", "since"} /\ stolen.since \in BOOLEAN /\ stage.prover = "preprocess"
  BY DEF Init
<1> QED
  BY <1>1, <1>2, <1>3 DEF MatrixInv

\* A step that leaves the main shape as it is.
LEMMA MatrixKept ==
    ASSUME MatrixInv, ThreadInv', config' = config, OwnMatrix', stolen' = stolen,
           "Main" \in DOMAIN thread.prover.shape =>
               /\ "Main" \in DOMAIN thread'.prover.shape
               /\ thread'.prover.shape["Main"] = thread.prover.shape["Main"],
           stage.prover \in {"preprocess", "commit"} => stage'.prover \in {"preprocess", "commit"}
    PROVE  MatrixInv'
  BY DEF MatrixInv

\* No step makes the prover use another proof's matrix, unless another proof ran
\* on its thread.
LEMMA MatrixStep ==
    ASSUME MatrixInv, [Next]_vars
    PROVE  MatrixInv'
<1> DEFINE t == thread.prover
           New(log_T) == InitializeContext(t, LogKChunk, log_T, "Main", t.layout)
<1>1. /\ ThreadInv /\ OwnMatrix
      /\ DOMAIN stage = {"prover", "verifier"} /\ DOMAIN thread = {"prover", "verifier"}
      /\ DOMAIN t = {"shape", "context", "layout"} /\ t.context = "Main"
      /\ DOMAIN stolen = {"times", "since"} /\ stolen.since \in BOOLEAN
  BY DEF MatrixInv, ThreadInv
<1>2. ThreadInv' /\ config' = config
  BY <1>1, ThreadStep
<1>3. ASSUME NEW from, NEW to, ProverTo(from, to) PROVE stage.prover = from /\ stage'.prover = to
  <2>1. stage' = [stage EXCEPT !.prover = to]
    BY <1>3 DEF ProverTo
  <2>2. stage'.prover = to
    BY <1>1, <2>1, OneSide
  <2> QED
    BY <1>3, <2>2 DEF ProverTo
<1>4. ASSUME NEW log_T, thread' = [thread EXCEPT !.prover = New(log_T)]
      PROVE  /\ "Main" \in DOMAIN thread'.prover.shape
             /\ thread'.prover.shape["Main"] = Dimensions(LogKChunk, log_T)
             /\ New(log_T).context = "Main"
  <2> DEFINE new == New(log_T)
  <2>1. "Main" \in DOMAIN new.shape /\ new.shape["Main"] = Dimensions(LogKChunk, log_T) /\ new.context = "Main"
    <3> HIDE DEF t
    <3> QED
      BY <1>1, MainContext
  <2> HIDE DEF new
  <2>2. thread'.prover = new
    BY <1>1, <1>4, OneSide DEF new
  <2> QED
    BY <2>1, <2>2 DEF new
<1>5. ASSUME NEW use, use \notin AdviceKinds, Read(use, t), stage.prover \notin {"preprocess", "commit"}
      PROVE  OwnMatrix'
  <2> DEFINE shape == Shape(t)
             since == stolen.since
  <2>1. matrix' = [u \in DOMAIN matrix \cup {use} |->
                     IF u = use THEN [shape |-> shape, stolen |-> since] ELSE matrix[u]]
    BY <1>5 DEF Read
  <2>2. since \/ shape = OwnShape(use)
    <3>1. shape = t.shape["Main"]
      BY <1>1 DEF Shape
    <3> HIDE DEF shape
    <3> QED
      BY <1>5, <3>1 DEF MatrixInv, OwnShape
  <2> HIDE DEF shape, since
  <2> QED
    BY <1>1, <1>2, <2>1, <2>2, ReadKeeps
<1> HIDE DEF t
<1>6. CASE CommitTrustedAdvice
  <2>1. ProverTo("preprocess", "commit") /\ CommitAdvice("trusted") /\ stolen' = stolen
    BY <1>6 DEF CommitTrustedAdvice
  <2>2. stage'.prover = "commit"
    BY <1>3, <2>1
  <2>3. "trusted" \in AdviceKinds
    BY DEF AdviceKinds
  <2> QED
    BY <1>2, <2>1, <2>2, <2>3, CommitAdviceKeeps, MatrixKept
<1>7. CASE CommitUntrustedAdvice
  <2>1. ProverTo("advice", "stage1") /\ CommitAdvice("untrusted") /\ stolen' = stolen
    BY <1>7 DEF CommitUntrustedAdvice
  <2>2. stage.prover = "advice" /\ stage'.prover = "stage1"
    BY <1>3, <2>1
  <2>3. "untrusted" \in AdviceKinds
    BY DEF AdviceKinds
  <2> QED
    BY <1>2, <2>1, <2>2, <2>3, CommitAdviceKeeps, MatrixKept
<1>8. CASE CommitInit
  <2> DEFINE new == New(config.log_T)
             shape == Shape(new)
             since == FALSE
             use == "commit"
  <2>1. /\ thread' = [thread EXCEPT !.prover = new] /\ stolen' = [stolen EXCEPT !.since = FALSE]
        /\ matrix' = [u \in DOMAIN matrix \cup {use} |->
                        IF u = use THEN [shape |-> shape, stolen |-> since] ELSE matrix[u]]
    BY <1>8 DEF CommitInit, Reinitialized, t
  <2>2. /\ "Main" \in DOMAIN thread'.prover.shape
        /\ thread'.prover.shape["Main"] = Dimensions(LogKChunk, config.log_T)
        /\ new.context = "Main"
    BY <1>4, <2>1
  <2>3. thread'.prover = new
    <3> HIDE DEF new
    <3> QED
      BY <1>1, <2>1, OneSide
  <2>4. shape = OwnShape(use)
    <3>1. use \notin AdviceKinds
      BY DEF AdviceKinds
    <3> HIDE DEF new, use
    <3> QED
      BY <2>2, <2>3, <3>1 DEF Shape, OwnShape
  <2> HIDE DEF shape, since, use
  <2>5. OwnMatrix'
    BY <1>1, <1>2, <2>1, <2>4, ReadKeeps
  <2>6. DOMAIN stolen' = {"times", "since"} /\ stolen'.since = FALSE
    BY <1>1, <2>1
  <2> QED
    BY <1>2, <2>2, <2>5, <2>6 DEF MatrixInv
<1>9. CASE ProveStage8
  <2>1. /\ thread' = [thread EXCEPT !.prover = New(config.log_T)]
        /\ stolen' = [stolen EXCEPT !.since = FALSE] /\ matrix' = matrix
    BY <1>9 DEF ProveStage8, Reinitialized, t
  <2>2. /\ "Main" \in DOMAIN thread'.prover.shape
        /\ thread'.prover.shape["Main"] = Dimensions(LogKChunk, config.log_T)
    BY <1>4, <2>1
  <2>3. OwnMatrix'
    BY <1>1, <1>2, <2>1, UnreadKeeps
  <2>4. DOMAIN stolen' = {"times", "since"} /\ stolen'.since = FALSE
    BY <1>1, <2>1
  <2> QED
    BY <1>2, <2>2, <2>3, <2>4 DEF MatrixInv
<1>10. CASE Steal
  <2>1. stolen'.since = TRUE /\ DOMAIN stolen' = {"times", "since"} /\ matrix' = matrix
    BY <1>10 DEF Steal
  <2>2. OwnMatrix'
    BY <1>1, <1>2, <2>1, UnreadKeeps
  <2> QED
    BY <1>2, <2>1, <2>2 DEF MatrixInv
<1>11. CASE CommitWitness
  <2>1. /\ ProverTo("witness", "advice") /\ thread' = thread /\ stolen' = stolen
        /\ Read("commit", t) \/ matrix' = matrix
    BY <1>11 DEF CommitWitness, t
  <2>2. stage.prover = "witness" /\ stage'.prover = "advice"
    BY <1>3, <2>1
  <2>3. "commit" \notin AdviceKinds
    BY DEF AdviceKinds
  <2>4. OwnMatrix'
    BY <1>1, <1>2, <1>5, <2>1, <2>2, <2>3, UnreadKeeps
  <2> QED
    BY <1>2, <2>1, <2>2, <2>4, MatrixKept
<1>12. CASE OpenJointPolynomial
  <2>1. ProverTo("open", "done") /\ thread' = thread /\ stolen' = stolen /\ Read("open", t)
    BY <1>12 DEF OpenJointPolynomial, t
  <2>2. stage.prover = "open" /\ stage'.prover = "done"
    BY <1>3, <2>1
  <2>3. "open" \notin AdviceKinds
    BY DEF AdviceKinds
  <2>4. OwnMatrix'
    BY <1>5, <2>1, <2>2, <2>3
  <2> QED
    BY <1>2, <2>1, <2>2, <2>4, MatrixKept
<1>13. CASE \/ ProveStage1 \/ ProveStage2 \/ ProveStage3 \/ ProveStage4
            \/ ProveStage5 \/ ProveStage6 \/ ProveStage7
  <2>1. /\ thread' = thread /\ stolen' = stolen /\ matrix' = matrix
        /\ \E s \in {"stage1", "stage2", "stage3", "stage4", "stage5", "stage6", "stage7"} :
              \E to : ProverTo(s, to)
    BY <1>13 DEF ProveStage1, ProveStage2, ProveStage3, ProveStage4, ProveStage5, ProveStage6,
                 ProveStage7, ProveStage
  <2>2. stage.prover \notin {"preprocess", "commit"}
    BY <2>1 DEF ProverTo
  <2>3. OwnMatrix'
    BY <1>1, <1>2, <2>1, UnreadKeeps
  <2> QED
    BY <1>2, <2>1, <2>2, <2>3, MatrixKept
<1>14. CASE \/ Deliver
            \/ VerifyStage1 \/ VerifyStage2 \/ VerifyStage3 \/ VerifyStage4
            \/ VerifyStage5 \/ VerifyStage6 \/ VerifyStage7 \/ VerifyStage8
            \/ UNCHANGED vars
  <2>1. /\ stolen' = stolen /\ matrix' = matrix
        /\ thread' = thread \/ \E x : thread' = [thread EXCEPT !.verifier = x]
        /\ stage' = stage \/ \E s : stage' = [stage EXCEPT !.verifier = s]
    BY <1>14 DEF Deliver, VerifyStage1, VerifyStage2, VerifyStage3, VerifyStage4, VerifyStage5,
                 VerifyStage6, VerifyStage7, VerifyStage8, VerifyStage, vars
  <2>2. stage'.prover = stage.prover /\ thread'.prover = thread.prover
    BY <1>1, <2>1, OneSide
  <2>3. OwnMatrix'
    BY <1>1, <1>2, <2>1, UnreadKeeps
  <2> QED
    BY <1>2, <2>1, <2>2, <2>3, MatrixKept
<1> QED
  BY <1>6, <1>7, <1>8, <1>9, <1>10, <1>11, <1>12, <1>13, <1>14 DEF Next

\* OwnMatrix for every configuration and any number of other proofs: the prover
\* commits and opens in its own proof's matrix, unless another proof ran on its
\* thread since it set the parameters.
THEOREM MatrixCorrect == Spec => []OwnMatrix
<1>1. Init => MatrixInv
  BY MatrixInit
<1>2. MatrixInv /\ [Next]_vars => MatrixInv'
  BY MatrixStep
<1>3. MatrixInv => OwnMatrix
  BY DEF MatrixInv
<1> QED
  BY <1>1, <1>2, <1>3, PTL DEF Spec

----------------------------------------------------------------------------
(* Claims as pairs of a key and a point. *)

\* The claims of a list, each key once.
Says(l, U) ==
    /\ \E n \in Nat : PlacesOf(l, n)
    /\ \A i \in DOMAIN l : Use(l[i].key, l[i].point) \in U
    /\ \A u \in U : \E i \in DOMAIN l : u = Use(l[i].key, l[i].point)
    /\ \A i, j \in DOMAIN l : l[i].key = l[j].key => i = j

\* No key is in both, and all keys are of these sumchecks.
Apart(U, V) == \A u \in U, v \in V : u.key # v.key
Named(U, N) == \A u \in U : u.key.sumcheck \in N

\* Claims of different sumchecks have different keys.
LEMMA NamedApart ==
    ASSUME NEW U, NEW V, NEW N, NEW M, Named(U, N), Named(V, M), N \cap M = {}
    PROVE  Apart(U, V)
<1> QED
  BY DEF Named, Apart

\* The sumchecks of two sets of claims.
LEMMA NamedUnion ==
    ASSUME NEW U, NEW V, NEW N, NEW M, Named(U, N), Named(V, M)
    PROVE  Named(U \cup V, N \cup M)
<1> QED
  BY DEF Named

\* What has keys of its own towards two sets has them towards both together.
LEMMA ApartUnion ==
    ASSUME NEW U, NEW V, NEW W, Apart(U, W), Apart(V, W)
    PROVE  Apart(U \cup V, W) /\ Apart(W, U \cup V)
<1>1. Apart(U \cup V, W)
  BY DEF Apart
<1>2. Apart(W, U \cup V)
  BY DEF Apart
<1> QED
  BY <1>1, <1>2

\* A use has its key and its point.
LEMMA UseIs ==
    ASSUME NEW k, NEW p
    PROVE  Use(k, p).key = k /\ Use(k, p).point = p
<1> QED
  BY DEF Use

\* Lists of two sets of claims in a row.
LEMMA SaysJoin ==
    ASSUME NEW l, NEW m, NEW U, NEW V, Says(l, U), Says(m, V), Apart(U, V)
    PROVE  Says(l \o m, U \cup V)
<1> DEFINE s == l \o m
<1>1. PICK n \in Nat : PlacesOf(l, n)
  BY DEF Says
<1>2. PICK k \in Nat : PlacesOf(m, k)
  BY DEF Says
<1>3. Joined(l, n, m, k) /\ PlacesOf(s, n + k)
  BY <1>1, <1>2, JoinPlaces, JoinedPlaces, Zenon
<1>4. DOMAIN l = 1 .. n /\ DOMAIN m = 1 .. k
  BY <1>1, <1>2 DEF PlacesOf
<1>5. /\ DOMAIN s = 1 .. n + k
      /\ \A i \in 1 .. n : s[i] = l[i]
      /\ \A i \in 1 .. k : s[n + i] = m[i]
  BY <1>3 DEF Joined
<1>6. \A i \in 1 .. n + k : i \in 1 .. n \/ \E j \in 1 .. k : i = n + j
  <2>1. ASSUME NEW i \in 1 .. n + k, i \notin 1 .. n PROVE i - n \in 1 .. k /\ i = n + (i - n)
    BY <2>1
  <2> QED
    BY <2>1
<1> HIDE DEF s
<1>7. ASSUME NEW i \in DOMAIN s PROVE Use(s[i].key, s[i].point) \in U \cup V
  <2>1. CASE i \in 1 .. n
    BY <1>4, <1>5, <2>1 DEF Says
  <2>2. CASE \E j \in 1 .. k : i = n + j
    <3>1. PICK j \in 1 .. k : i = n + j
      BY <2>2
    <3>2. s[i] = m[j] /\ Use(m[j].key, m[j].point) \in V
      BY <1>4, <1>5, <3>1 DEF Says
    <3> QED
      BY <3>2
  <2> QED
    BY <1>5, <1>6, <2>1, <2>2
<1>8. ASSUME NEW u \in U \cup V PROVE \E i \in DOMAIN s : u = Use(s[i].key, s[i].point)
  <2>1. CASE u \in U
    <3>1. PICK i \in 1 .. n : u = Use(l[i].key, l[i].point)
      BY <1>4, <2>1 DEF Says
    <3>2. i \in DOMAIN s /\ s[i] = l[i]
      BY <1>5
    <3> QED
      BY <3>1, <3>2
  <2>2. CASE u \in V
    <3>1. PICK i \in 1 .. k : u = Use(m[i].key, m[i].point)
      BY <1>4, <2>2 DEF Says
    <3>2. n + i \in DOMAIN s /\ s[n + i] = m[i]
      BY <1>5
    <3> QED
      BY <3>1, <3>2
  <2> QED
    BY <2>1, <2>2
<1>9. ASSUME NEW i \in 1 .. n, NEW j \in 1 .. k PROVE l[i].key # m[j].key
  <2>1. Use(l[i].key, l[i].point) \in U /\ Use(m[j].key, m[j].point) \in V
    BY <1>4 DEF Says
  <2>2. Use(l[i].key, l[i].point).key # Use(m[j].key, m[j].point).key
    BY <2>1 DEF Apart
  <2> QED
    BY <2>2, UseIs
<1>10. ASSUME NEW i \in DOMAIN s, NEW j \in DOMAIN s, s[i].key = s[j].key PROVE i = j
  <2>1. CASE i \in 1 .. n /\ j \in 1 .. n
    <3>1. l[i].key = l[j].key
      BY <1>5, <1>10, <2>1
    <3> QED
      BY <1>4, <2>1, <3>1 DEF Says
  <2>2. CASE i \in 1 .. n /\ \E b \in 1 .. k : j = n + b
    <3>1. PICK b \in 1 .. k : j = n + b
      BY <2>2
    <3>2. l[i].key = m[b].key
      BY <1>5, <1>10, <2>2, <3>1
    <3> QED
      BY <1>9, <2>2, <3>2
  <2>3. CASE (\E a \in 1 .. k : i = n + a) /\ j \in 1 .. n
    <3>1. PICK a \in 1 .. k : i = n + a
      BY <2>3
    <3>2. l[j].key = m[a].key
      BY <1>5, <1>10, <2>3, <3>1
    <3> QED
      BY <1>9, <2>3, <3>2
  <2>4. CASE (\E a \in 1 .. k : i = n + a) /\ \E b \in 1 .. k : j = n + b
    <3>1. PICK a \in 1 .. k, b \in 1 .. k : i = n + a /\ j = n + b
      BY <2>4
    <3>2. m[a].key = m[b].key
      BY <1>5, <1>10, <3>1
    <3>3. a = b
      BY <1>4, <3>2 DEF Says
    <3> QED
      BY <3>1, <3>3
  <2> QED
    BY <1>5, <1>6, <2>1, <2>2, <2>3, <2>4
<1>11. Says(s, U \cup V)
  BY <1>3, <1>7, <1>8, <1>10 DEF Says
<1> QED
  BY <1>11 DEF s

\* A list by its places.
Listing(l, n, keys, points, U) ==
    /\ n \in Nat /\ PlacesOf(l, n)
    /\ \A i \in 1 .. n : l[i].key = keys[i] /\ l[i].point = points[i]
    /\ \A i, j \in 1 .. n : keys[i] = keys[j] => i = j
    /\ \A i \in 1 .. n : Use(keys[i], points[i]) \in U
    /\ \A u \in U : \E i \in 1 .. n : u = Use(keys[i], points[i])

\* A list that is given place by place.
LEMMA SaysFunction ==
    ASSUME NEW l, NEW n, NEW keys, NEW points, NEW U, Listing(l, n, keys, points, U)
    PROVE  Says(l, U)
<1>1. DOMAIN l = 1 .. n
  BY DEF PlacesOf, Listing
<1>2. \A i \in DOMAIN l : Use(l[i].key, l[i].point) \in U
  BY <1>1 DEF Listing
<1>3. \A u \in U : \E i \in DOMAIN l : u = Use(l[i].key, l[i].point)
  BY <1>1 DEF Listing
<1>4. \A i, j \in DOMAIN l : l[i].key = l[j].key => i = j
  BY <1>1 DEF Listing
<1> QED
  BY <1>2, <1>3, <1>4 DEF Says, Listing

\* The claims of the first n of some sets.
All(U, n) == UNION {U[i] : i \in 1 .. n}

\* One more set of claims.
LEMMA AllGrows ==
    ASSUME NEW U, NEW n \in Nat
    PROVE  All(U, 0) = {} /\ All(U, n + 1) = All(U, n) \cup U[n + 1]
<1>1. All(U, 0) = {}
  BY DEF All
<1>2. 1 .. n + 1 = (1 .. n) \cup {n + 1}
  OBVIOUS
<1>3. All(U, n + 1) = All(U, n) \cup U[n + 1]
  BY <1>2 DEF All
<1> QED
  BY <1>1, <1>3

\* The lists of a batch, one after the other.
LEMMA SaysFlatten ==
    ASSUME NEW n \in Nat, NEW lists, PlacesOf(lists, n), NEW U,
           \A i \in 1 .. n : Says(lists[i], U[i]),
           \A i, j \in 1 .. n : i # j => Apart(U[i], U[j])
    PROVE  Says(FlattenSeq(lists), All(U, n))
<1> DEFINE X == UNION {Range(lists[i]) : i \in 1 .. n}
<1>1. ASSUME NEW i \in 1 .. n PROVE lists[i] \in Seq(X)
  <2>1. PICK k \in Nat : PlacesOf(lists[i], k)
    BY DEF Says
  <2>2. DOMAIN lists[i] = 1 .. k /\ \A j \in 1 .. k : lists[i][j] \in X
    BY <2>1 DEF PlacesOf, Range
  <2> HIDE DEF X
  <2> QED
    BY <2>1, <2>2 DEF PlacesOf
<1> HIDE DEF X
<1>2. lists \in Seq(Seq(X)) /\ Len(lists) = n
  BY <1>1 DEF PlacesOf
<1>3. /\ FlattenTo(lists, 0) = <<>>
      /\ FlattenTo(lists, n) = FlattenSeq(lists)
      /\ \A k \in Nat : k < n => FlattenTo(lists, k + 1) = FlattenTo(lists, k) \o lists[k + 1]
  BY <1>2, FlattenToFacts
<1> DEFINE S == {k \in Nat : k <= n => Says(FlattenTo(lists, k), All(U, k))}
<1>4. 0 \in S
  <2>1. Says(<<>>, {})
    <3>1. PlacesOf(<<>>, 0)
      BY DEF PlacesOf
    <3>2. DOMAIN <<>> = {}
      OBVIOUS
    <3> QED
      BY <3>1, <3>2 DEF Says
  <2> QED
    BY <1>3, <2>1, AllGrows
<1>5. ASSUME NEW k \in Nat, k \in S PROVE k + 1 \in S
  <2>1. SUFFICES ASSUME k + 1 <= n PROVE Says(FlattenTo(lists, k + 1), All(U, k + 1))
    OBVIOUS
  <2>2. Says(FlattenTo(lists, k), All(U, k)) /\ Says(lists[k + 1], U[k + 1])
    BY <1>5, <2>1
  <2>3. Apart(All(U, k), U[k + 1])
    <3>1. ASSUME NEW u \in All(U, k), NEW v \in U[k + 1] PROVE u.key # v.key
      <4>1. PICK i \in 1 .. k : u \in U[i]
        BY DEF All
      <4>2. Apart(U[i], U[k + 1])
        BY <2>1
      <4> QED
        BY <4>1, <4>2 DEF Apart
    <3> QED
      BY <3>1 DEF Apart
  <2>4. Says(FlattenTo(lists, k) \o lists[k + 1], All(U, k) \cup U[k + 1])
    BY <2>2, <2>3, SaysJoin
  <2>5. FlattenTo(lists, k + 1) = FlattenTo(lists, k) \o lists[k + 1]
    BY <1>3, <2>1
  <2>6. All(U, k + 1) = All(U, k) \cup U[k + 1]
    BY AllGrows
  <2> QED
    BY <2>4, <2>5, <2>6, Zenon
<1> HIDE DEF S
<1>6. \A k \in Nat : k \in S
  BY <1>4, <1>5, NatSetInduction
<1>7. Says(FlattenTo(lists, n), All(U, n))
  BY <1>6 DEF S
<1> QED
  BY <1>3, <1>7

----------------------------------------------------------------------------
(* Accumulators that know claims. *)

\* Both sides: each claim is found at its point, by way of an alias or not; the
\* index has keys of the map that are no aliases.
Target(acc, k) == IF k \in DOMAIN acc.aliases THEN acc.aliases[k] ELSE k

\* The keys of some claims.
Keys(T) == {u.key : u \in T}

\* An accumulator knows the claims T: each is found, at its point, aliases lead to stored openings, and the index by polynomial lists only keys of T that are stored.
Knows(acc, T) ==
    /\ DOMAIN acc = {"openings", "by_poly", "aliases", "pending", "pending_ids"}
    /\ IsFiniteSet(DOMAIN acc.aliases) /\ DOMAIN acc.aliases \subseteq Keys(T)
    /\ \A k \in DOMAIN acc.aliases : acc.aliases[k] \notin DOMAIN acc.aliases
    /\ \A u \in T : /\ Target(acc, u.key) \in DOMAIN acc.openings \cap Keys(T)
                    /\ acc.openings[Target(acc, u.key)].point = u.point
                    /\ u.point \in Points
    /\ DOMAIN acc.by_poly = Acc!Poly
    /\ \A p \in Acc!Poly :
          /\ acc.by_poly[p] \in Seq(Keys(T))
          /\ \A i \in DOMAIN acc.by_poly[p] :
                /\ acc.by_poly[p][i] \in DOMAIN acc.openings \ DOMAIN acc.aliases
                /\ acc.by_poly[p][i].poly = p
    /\ AccPoints(acc)

\* The accumulator's own operators on sets are the usual ones.
LEMMA SameCardinality == \A S : Acc!Cardinality(S) = Cardinality(S)
  BY DEF Acc!Cardinality, Cardinality

\* Both modules take the same least member of a set.
LEMMA SameMin == \A S : Acc!Min(S) = Min(S)
  BY DEF Acc!Min, Min

\* resolve_alias ends after one step.
LEMMA ResolveIs ==
    ASSUME NEW acc, NEW k, IsFiniteSet(DOMAIN acc.aliases),
           \A j \in DOMAIN acc.aliases : acc.aliases[j] \notin DOMAIN acc.aliases
    PROVE  Acc!Resolve(acc, k) = Target(acc, k)
<1> DEFINE n == Cardinality(DOMAIN acc.aliases)
           step(x) == IF x \in DOMAIN acc.aliases THEN acc.aliases[x] ELSE x
           E(f) == [i \in 0 .. n |->
                      IF i = 0 THEN k
                      ELSE IF f[i - 1] \in DOMAIN acc.aliases THEN acc.aliases[f[i - 1]]
                           ELSE f[i - 1]]
           follow == CHOOSE f : f = E(f)
<1>1. n \in Nat
  BY FS_CardinalityType
<1>2. k \in DOMAIN acc.aliases => n # 0
  <2> DEFINE D == DOMAIN acc.aliases
  <2>1. IsFiniteSet(D)
    OBVIOUS
  <2>2. n = Cardinality(D)
    OBVIOUS
  <2> HIDE DEF D, n
  <2>3. n = 0 => D = {}
    BY <2>1, <2>2, FS_EmptySet
  <2> QED
    BY <2>3 DEF D
<1>3. Acc!Resolve(acc, k) = follow[n]
  BY SameCardinality DEF Acc!Resolve
<1> HIDE DEF n
<1>4. \E f : f = E(f)
  <2> DEFINE g == [i \in 0 .. n |-> IF i = 0 THEN k ELSE Target(acc, k)]
  <2>1. \A i \in 0 .. n : i # 0 => g[i - 1] = k \/ g[i - 1] = Target(acc, k)
    BY <1>1
  <2>2. \A i \in 0 .. n : g[i] = E(g)[i]
    <3> SUFFICES ASSUME NEW i \in 0 .. n PROVE g[i] = E(g)[i]
      OBVIOUS
    <3>1. CASE i = 0
      BY <3>1
    <3>2. CASE i # 0
      <4>1. g[i] = Target(acc, k)
        BY <3>2
      <4>2. E(g)[i] = IF g[i - 1] \in DOMAIN acc.aliases THEN acc.aliases[g[i - 1]] ELSE g[i - 1]
        BY <3>2
      <4>3. g[i - 1] = k \/ g[i - 1] = Target(acc, k)
        BY <2>1, <3>2
      <4> HIDE DEF g
      <4> QED
        BY <4>1, <4>2, <4>3 DEF Target
    <3> QED
      BY <3>1, <3>2
  <2>3. g = E(g)
    BY <2>2
  <2> QED
    BY <2>3
<1>5. follow = E(follow)
  BY <1>4
<1> HIDE DEF follow
<1> DEFINE S == {i \in Nat : i <= n => follow[i] = IF i = 0 THEN k ELSE Target(acc, k)}
<1>6. 0 \in S
  BY <1>1, <1>5
<1>7. ASSUME NEW i \in Nat, i \in S PROVE i + 1 \in S
  <2>1. SUFFICES ASSUME i + 1 <= n PROVE follow[i + 1] = Target(acc, k)
    OBVIOUS
  <2>2. follow[i] = k \/ follow[i] = Target(acc, k)
    BY <1>1, <1>7, <2>1
  <2>3. follow[i + 1] = IF follow[i] \in DOMAIN acc.aliases THEN acc.aliases[follow[i]] ELSE follow[i]
    BY <1>1, <1>5, <2>1
  <2> QED
    BY <2>2, <2>3 DEF Target
<1> HIDE DEF S
<1>8. \A i \in Nat : i \in S
  BY <1>6, <1>7, NatSetInduction
<1>9. follow[n] = IF n = 0 THEN k ELSE Target(acc, k)
  BY <1>1, <1>8 DEF S
<1> QED
  BY <1>2, <1>3, <1>9 DEF Target

\* What an accumulator knows, the getters return.
LEMMA KnownPoint ==
    ASSUME NEW acc, NEW T, Knows(acc, T), NEW u \in T
    PROVE  Has(acc, u.key) /\ PointOf(acc, u.key) = u.point
<1>1. Acc!Resolve(acc, u.key) = Target(acc, u.key)
  BY ResolveIs DEF Knows
<1>2. Target(acc, u.key) \in DOMAIN acc.openings /\ acc.openings[Target(acc, u.key)].point = u.point
  BY DEF Knows
<1>3. Has(acc, u.key)
  BY <1>1, <1>2 DEF Has
<1>4. PointOf(acc, u.key) = u.point
  BY <1>1, <1>2, <1>3 DEF PointOf, Acc!Opening
<1> QED
  BY <1>3, <1>4

\* A claim that is known is found, at its point.
LEMMA KnownUse ==
    ASSUME NEW acc, NEW T, Knows(acc, T), NEW k, NEW p, Use(k, p) \in T
    PROVE  Has(acc, k) /\ PointOf(acc, k) = p
<1>1. Use(k, p).key = k /\ Use(k, p).point = p
  BY UseIs
<1> DEFINE u == Use(k, p)
<1>2. Has(acc, u.key) /\ PointOf(acc, u.key) = u.point
  <2> HIDE DEF u
  <2> QED
    BY KnownPoint DEF u
<1> QED
  BY <1>1, <1>2

\* With one claim more.
LEMMA KeysGrow ==
    ASSUME NEW T, NEW k, NEW p
    PROVE  Keys(T \cup {Use(k, p)}) = Keys(T) \cup {k}
<1>1. ASSUME NEW x \in Keys(T \cup {Use(k, p)}) PROVE x \in Keys(T) \cup {k}
  <2>1. PICK u \in T \cup {Use(k, p)} : x = u.key
    BY DEF Keys
  <2>2. u \in T => x \in Keys(T)
    BY <2>1 DEF Keys
  <2>3. u = Use(k, p) => x = k
    BY <2>1, UseIs
  <2> QED
    BY <2>1, <2>2, <2>3
<1>2. Keys(T) \subseteq Keys(T \cup {Use(k, p)})
  BY DEF Keys
<1>3. k \in Keys(T \cup {Use(k, p)})
  <2>1. Use(k, p).key = k /\ Use(k, p) \in T \cup {Use(k, p)}
    BY UseIs
  <2> HIDE DEF Use
  <2> QED
    BY <2>1 DEF Keys
<1> QED
  BY <1>1, <1>2, <1>3

\* What the search in the index finds.
LEMMA ExistingIs ==
    ASSUME NEW acc, NEW T, Knows(acc, T), NEW p \in Acc!Poly, NEW point,
           Acc!PlacesAt(acc, p, point) # {}
    PROVE  \E i \in DOMAIN acc.by_poly[p] :
              /\ Acc!Existing(acc, p, point) = acc.by_poly[p][i]
              /\ acc.openings[acc.by_poly[p][i]].point = point
<1> DEFINE S == Acc!PlacesAt(acc, p, point)
<1>1. \A i \in S : i \in DOMAIN acc.by_poly[p] /\ acc.openings[acc.by_poly[p][i]].point = point
  BY DEF Acc!PlacesAt
<1>2. DOMAIN acc.by_poly[p] \subseteq Nat
  <2>1. acc.by_poly[p] \in Seq(Keys(T))
    BY DEF Knows
  <2> QED
    BY <2>1
<1>3. Acc!Existing(acc, p, point) = acc.by_poly[p][Min(S)]
  BY SameMin DEF Acc!Existing
<1> HIDE DEF S
<1>4. S \in SUBSET Nat /\ S # {}
  BY <1>1, <1>2 DEF S
<1>5. PICK m \in S : \A y \in S : m <= y
  BY <1>4, LeastElement
<1>6. Min(S) = m
  BY <1>4, <1>5, MinIs
<1> QED
  BY <1>1, <1>3, <1>5, <1>6

\* A new key as an alias of one that is open at its point.
LEMMA KnowsAlias ==
    ASSUME NEW acc, NEW T, Knows(acc, T), NEW k, k \notin Keys(T), NEW point \in Points,
           NEW p \in Acc!Poly, NEW i \in DOMAIN acc.by_poly[p], NEW e, e = acc.by_poly[p][i],
           acc.openings[e].point = point
    PROVE  Knows(Acc!Alias(acc, k, e), T \cup {Use(k, point)})
<1> DEFINE new == Acc!Alias(acc, k, e)
           U == T \cup {Use(k, point)}
<1>1. /\ DOMAIN new = DOMAIN acc /\ new.openings = acc.openings /\ new.by_poly = acc.by_poly
      /\ new.aliases = Acc!With(acc.aliases, k, e)
  BY DEF Acc!Alias, Knows
<1>2. Keys(U) = Keys(T) \cup {k}
  BY KeysGrow
<1>3. \A u \in U : u \in T \/ (u.key = k /\ u.point = point)
  BY UseIs
<1> HIDE DEF new, U
<1>4. e \in DOMAIN acc.openings \ DOMAIN acc.aliases /\ e \in Keys(T) /\ e # k
  <2>1. acc.by_poly[p] \in Seq(Keys(T))
    BY DEF Knows
  <2>2. e \in Keys(T)
    BY <2>1
  <2> QED
    BY <2>2 DEF Knows
<1>5. DOMAIN new.aliases = DOMAIN acc.aliases \cup {k}
  BY <1>1 DEF Acc!With
<1>6. new.aliases[k] = e /\ \A j \in DOMAIN acc.aliases : new.aliases[j] = acc.aliases[j]
  <2>1. k \notin DOMAIN acc.aliases
    BY DEF Knows
  <2> QED
    BY <1>1, <2>1 DEF Acc!With
<1>7. IsFiniteSet(DOMAIN new.aliases)
  BY <1>5, FS_AddElement DEF Knows
<1>8. \A j \in DOMAIN new.aliases : new.aliases[j] \notin DOMAIN new.aliases
  <2>1. ASSUME NEW j \in DOMAIN acc.aliases PROVE acc.aliases[j] # k
    <3>1. j \in Keys(T)
      BY DEF Knows
    <3>2. PICK u \in T : u.key = j
      BY <3>1 DEF Keys
    <3>3. Target(acc, u.key) \in Keys(T)
      BY DEF Knows
    <3> QED
      BY <3>2, <3>3 DEF Target
  <2> QED
    BY <1>4, <1>5, <1>6, <2>1 DEF Knows
<1>9. ASSUME NEW u \in U
      PROVE  /\ Target(new, u.key) \in DOMAIN new.openings \cap Keys(U)
             /\ new.openings[Target(new, u.key)].point = u.point
             /\ u.point \in Points
  <2>1. CASE u \in T
    <3>1. u.key \in Keys(T)
      BY <2>1 DEF Keys
    <3>2. u.key # k
      BY <3>1
    <3>3. Target(new, u.key) = Target(acc, u.key)
      BY <1>5, <1>6, <3>2 DEF Target
    <3> QED
      BY <1>1, <1>2, <2>1, <3>3 DEF Knows
  <2>2. CASE u.key = k /\ u.point = point
    <3>1. Target(new, k) = e
      BY <1>5, <1>6 DEF Target
    <3> QED
      BY <1>1, <1>2, <1>4, <2>2, <3>1
  <2> QED
    BY <1>3, <2>1, <2>2
<1>10. ASSUME NEW q \in Acc!Poly
       PROVE  /\ new.by_poly[q] \in Seq(Keys(U))
              /\ \A j \in DOMAIN new.by_poly[q] :
                    /\ new.by_poly[q][j] \in DOMAIN new.openings \ DOMAIN new.aliases
                    /\ new.by_poly[q][j].poly = q
  <2>1. acc.by_poly[q] \in Seq(Keys(T))
    BY DEF Knows
  <2>2. acc.by_poly[q] \in Seq(Keys(U))
    BY <1>2, <2>1
  <2>3. \A j \in DOMAIN acc.by_poly[q] : acc.by_poly[q][j] \in Keys(T)
    BY <2>1
  <2> QED
    BY <1>1, <1>5, <2>2, <2>3 DEF Knows
<1>11. AccPoints(new)
  BY <1>1 DEF AccPoints, Knows
<1>12. DOMAIN new.aliases \subseteq Keys(U)
  BY <1>2, <1>5 DEF Knows
<1>13. Knows(new, U)
  BY <1>1, <1>7, <1>8, <1>9, <1>10, <1>11, <1>12 DEF Knows
<1> QED
  BY <1>13 DEF new, U

\* A new key with an entry of its own, in the index or not.
LEMMA KnowsInsert ==
    ASSUME NEW acc, NEW T, Knows(acc, T), NEW k, k \notin Keys(T), k.poly \in Acc!Poly,
           NEW point \in Points, NEW claim,
           NEW new, DOMAIN new = DOMAIN acc, new.aliases = acc.aliases,
           new.openings = Acc!With(acc.openings, k, [point |-> point, claim |-> claim]),
           \/ new.by_poly = acc.by_poly
           \/ new.by_poly = [acc.by_poly EXCEPT ![k.poly] = Append(@, k)]
    PROVE  Knows(new, T \cup {Use(k, point)})
<1> DEFINE U == T \cup {Use(k, point)}
<1>1. Keys(U) = Keys(T) \cup {k}
  BY KeysGrow
<1>2. \A u \in U : u \in T \/ (u.key = k /\ u.point = point)
  BY UseIs
<1> HIDE DEF U
<1>3. /\ DOMAIN new.openings = DOMAIN acc.openings \cup {k}
      /\ new.openings[k].point = point
      /\ \A j \in DOMAIN acc.openings : j # k => new.openings[j] = acc.openings[j]
  BY DEF Acc!With
<1>4. k \notin DOMAIN acc.aliases
  BY DEF Knows
<1>5. \A j : Target(new, j) = Target(acc, j)
  BY DEF Target
<1>6. ASSUME NEW u \in U
      PROVE  /\ Target(new, u.key) \in DOMAIN new.openings \cap Keys(U)
             /\ new.openings[Target(new, u.key)].point = u.point
             /\ u.point \in Points
  <2>1. CASE u \in T
    <3>1. Target(acc, u.key) \in DOMAIN acc.openings \cap Keys(T)
      BY <2>1 DEF Knows
    <3>2. Target(acc, u.key) # k
      BY <3>1
    <3> QED
      BY <1>1, <1>3, <1>5, <2>1, <3>1, <3>2 DEF Knows
  <2>2. CASE u.key = k /\ u.point = point
    <3>1. Target(acc, k) = k
      BY <1>4 DEF Target
    <3> QED
      BY <1>1, <1>3, <1>5, <2>2, <3>1
  <2> QED
    BY <1>2, <2>1, <2>2
<1>7. ASSUME NEW q \in Acc!Poly
      PROVE  /\ new.by_poly[q] \in Seq(Keys(U))
             /\ \A j \in DOMAIN new.by_poly[q] :
                   /\ new.by_poly[q][j] \in DOMAIN new.openings \ DOMAIN new.aliases
                   /\ new.by_poly[q][j].poly = q
  <2> DEFINE s == acc.by_poly[q]
  <2>1. s \in Seq(Keys(T))
    BY DEF Knows
  <2>2. s \in Seq(Keys(U)) /\ k \in Keys(U)
    BY <1>1, <2>1
  <2>3. \A j \in DOMAIN s : s[j] \in DOMAIN acc.openings \ DOMAIN acc.aliases /\ s[j].poly = q
    BY DEF Knows
  <2>4. new.by_poly[q] = s \/ (q = k.poly /\ new.by_poly[q] = Append(s, k))
    BY DEF Knows
  <2> HIDE DEF s
  <2>5. CASE new.by_poly[q] = s
    BY <1>3, <2>2, <2>3, <2>5
  <2>6. CASE q = k.poly /\ new.by_poly[q] = Append(s, k)
    <3> DEFINE t == Append(s, k)
    <3>1. t \in Seq(Keys(U))
      BY <2>2
    <3>2. \A j \in DOMAIN t : (j \in DOMAIN s /\ t[j] = s[j]) \/ t[j] = k
      BY <2>2
    <3> HIDE DEF t
    <3>3. \A j \in DOMAIN t : t[j] \in DOMAIN new.openings \ DOMAIN new.aliases /\ t[j].poly = q
      BY <1>3, <1>4, <2>3, <2>6, <3>2
    <3> QED
      BY <2>6, <3>1, <3>3 DEF t
  <2> QED
    BY <2>4, <2>5, <2>6
<1>8. AccPoints(new)
  BY <1>3 DEF AccPoints, Knows
<1>9. DOMAIN new.by_poly = Acc!Poly
  BY DEF Knows
<1>10. DOMAIN new.aliases \subseteq Keys(U)
  BY <1>1 DEF Knows
<1>11. Knows(new, U)
  BY <1>6, <1>7, <1>8, <1>9, <1>10 DEF Knows
<1> QED
  BY <1>11 DEF U

\* Both sides' way to enter a claim with a new key.
LEMMA KnowsMore ==
    ASSUME NEW acc, NEW T, Knows(acc, T), NEW k, k \notin Keys(T), k.poly \in Acc!Poly,
           NEW point \in Points, NEW claim
    PROVE  /\ Knows(Acc!InsertOrAlias(acc, k, point, claim), T \cup {Use(k, point)})
           /\ Knows(Acc!PopulateOrAlias(acc, k, point), T \cup {Use(k, point)})
<1> DEFINE U == T \cup {Use(k, point)}
           e == Acc!Existing(acc, k.poly, point)
<1>1. ASSUME Acc!PlacesAt(acc, k.poly, point) # {} PROVE Knows(Acc!Alias(acc, k, e), U)
  <2>1. \E i \in DOMAIN acc.by_poly[k.poly] :
           e = acc.by_poly[k.poly][i] /\ acc.openings[acc.by_poly[k.poly][i]].point = point
    BY <1>1, ExistingIs
  <2> HIDE DEF e
  <2> QED
    BY <2>1, KnowsAlias
<1>2. \A cl : Knows(Acc!Insert(acc, k, point, cl), U)
  <2> SUFFICES ASSUME NEW cl PROVE Knows(Acc!Insert(acc, k, point, cl), U)
    OBVIOUS
  <2> DEFINE new == Acc!Insert(acc, k, point, cl)
  <2>1. /\ DOMAIN new = DOMAIN acc /\ new.aliases = acc.aliases
        /\ new.openings = Acc!With(acc.openings, k, [point |-> point, claim |-> cl])
        /\ new.by_poly = [acc.by_poly EXCEPT ![k.poly] = Append(@, k)]
    BY DEF Acc!Insert, PolynomialOf, Knows
  <2> HIDE DEF new
  <2>2. Knows(new, U)
    BY <2>1, KnowsInsert
  <2> QED
    BY <2>2 DEF new
<1>3. Knows(Acc!Populate(acc, k, point), U)
  <2> DEFINE cl == Acc!ClaimOf(acc, k)
             ins == Acc!Insert(acc, k, point, cl)
             new == [ins EXCEPT !.by_poly = acc.by_poly]
  <2>1. /\ DOMAIN new = DOMAIN acc /\ new.aliases = acc.aliases
        /\ new.openings = Acc!With(acc.openings, k, [point |-> point, claim |-> cl])
        /\ new.by_poly = acc.by_poly
    BY DEF Acc!Insert, PolynomialOf, Knows
  <2>2. Acc!Populate(acc, k, point) = IF point = <<>> THEN new ELSE ins
    BY DEF Acc!Populate
  <2> HIDE DEF new, cl
  <2>3. Knows(new, U)
    BY <2>1, KnowsInsert
  <2>4. Knows(ins, U)
    BY <1>2
  <2> QED
    BY <2>2, <2>3, <2>4
<1>4. Acc!IsOpen(acc, k, point) <=> Acc!PlacesAt(acc, k.poly, point) # {}
  BY DEF Acc!IsOpen, PolynomialOf
<1>5. Acc!Existing(acc, PolynomialOf(k), point) = e
  BY DEF PolynomialOf
<1>6. Acc!InsertOrAlias(acc, k, point, claim)
        = IF Acc!IsOpen(acc, k, point) THEN Acc!Alias(acc, k, e) ELSE Acc!Insert(acc, k, point, claim)
  BY <1>5 DEF Acc!InsertOrAlias
<1>7. Acc!PopulateOrAlias(acc, k, point)
        = IF point # <<>> /\ Acc!IsOpen(acc, k, point) THEN Acc!Alias(acc, k, e)
          ELSE Acc!Populate(acc, k, point)
  BY <1>5 DEF Acc!PopulateOrAlias, Acc!OpenToVerifier
<1> HIDE DEF e, U
<1>8. Knows(Acc!InsertOrAlias(acc, k, point, claim), U)
  BY <1>1, <1>2, <1>4, <1>6
<1>9. Knows(Acc!PopulateOrAlias(acc, k, point), U)
  BY <1>1, <1>3, <1>4, <1>7
<1> QED
  BY <1>8, <1>9 DEF U

----------------------------------------------------------------------------
(* Sides that know claims. *)

\* A side that has appended the keys of some claims, each once, and knows them.
SideKnows(side, T) ==
    /\ DOMAIN side = {"acc", "transcript", "advice", "ok", "wrong", "unbalanced", "used", "appended"}
    /\ Knows(side.acc, T)
    /\ \E n \in Nat : PlacesOf(side.appended, n)
    /\ \A i, j \in DOMAIN side.appended : side.appended[i] = side.appended[j] => i = j
    /\ Range(side.appended) = Keys(T)

\* What appending leaves alone.
Unmoved(side, t) ==
    t.wrong = side.wrong /\ t.used = side.used /\ t.advice = side.advice /\ t.transcript = side.transcript

Sides == {"prover", "verifier"}
Grown(who, side, o) == IF who = "prover" THEN ProverAppend(side, o) ELSE VerifierAppend(side, o)
Appends(who, side, l) == IF who = "prover" THEN ProverAppends(side, l) ELSE VerifierAppends(side, l)
Out(who, x, r) == IF who = "prover" THEN x.prover[r] ELSE x.verifier[r]

\* One claim more.
LEMMA GrownKnows ==
    ASSUME NEW who \in Sides, NEW side, NEW T, SideKnows(side, T), NEW o, o.key \notin Keys(T),
           o.key.poly \in Acc!Poly, o.point \in Points
    PROVE  /\ SideKnows(Grown(who, side, o), T \cup {Use(o.key, o.point)})
           /\ Unmoved(side, Grown(who, side, o))
<1> DEFINE t == Grown(who, side, o)
           U == T \cup {Use(o.key, o.point)}
           a == side.appended
           k == o.key
<1>1. DOMAIN t = DOMAIN side /\ t.appended = Append(a, k) /\ Unmoved(side, t)
  BY DEF Grown, ProverAppend, VerifierAppend, SideKnows, Unmoved
<1>2. Knows(t.acc, U)
  <2>1. CASE who = "prover"
    <3>1. t.acc = Acc!InsertOrAlias(side.acc, o.key, o.point, o.claim)
      BY <2>1 DEF Grown, ProverAppend, SideKnows
    <3>2. Knows(Acc!InsertOrAlias(side.acc, o.key, o.point, o.claim), U)
      BY KnowsMore DEF SideKnows
    <3> QED
      BY <3>1, <3>2
  <2>2. CASE who = "verifier"
    <3>1. t.acc = Acc!PopulateOrAlias(side.acc, o.key, o.point)
      BY <2>2 DEF Grown, VerifierAppend, SideKnows
    <3>2. Knows(Acc!PopulateOrAlias(side.acc, o.key, o.point), U)
      <4> DEFINE cl == o.claim
      <4> HIDE DEF cl
      <4> QED
        BY KnowsMore DEF SideKnows
    <3> QED
      BY <3>1, <3>2
  <2> QED
    BY <2>1, <2>2 DEF Sides
<1>3. Keys(U) = Keys(T) \cup {k}
  BY KeysGrow
<1> HIDE DEF t, U
<1>4. PICK n \in Nat : PlacesOf(a, n)
  BY DEF SideKnows
<1>5. a \in Seq(Keys(U)) /\ k \in Keys(U) /\ Len(a) = n /\ DOMAIN a = 1 .. n
  <2>1. DOMAIN a = 1 .. n
    BY <1>4 DEF PlacesOf
  <2>2. \A i \in 1 .. n : a[i] \in Keys(U)
    BY <1>3, <2>1 DEF SideKnows, Range
  <2> HIDE DEF a
  <2> QED
    BY <1>3, <1>4, <2>1, <2>2 DEF PlacesOf
<1>6. \A i \in 1 .. n : a[i] # k
  BY <1>5 DEF SideKnows, Range
<1>7. \A i, j \in 1 .. n : a[i] = a[j] => i = j
  BY <1>5 DEF SideKnows
<1>8. Range(a) = Keys(T)
  BY DEF SideKnows
<1> HIDE DEF a, k
<1> DEFINE s == Append(a, k)
<1>9. /\ DOMAIN s = 1 .. n + 1 /\ s = [i \in 1 .. n + 1 |-> s[i]]
      /\ \A i \in 1 .. n : s[i] = a[i]
      /\ s[n + 1] = k
  <2>1. s \in Seq(Keys(U)) /\ Len(s) = n + 1
    BY <1>5
  <2>2. \A i \in 1 .. n : s[i] = a[i]
    BY <1>5
  <2>3. s[n + 1] = k
    BY <1>5
  <2> HIDE DEF s
  <2> QED
    BY <2>1, <2>2, <2>3
<1>10. Range(s) = Keys(U)
  <2>1. Range(s) = Range(a) \cup {k}
    BY <1>5, RangeFacts
  <2> QED
    BY <1>3, <1>8, <2>1
<1> HIDE DEF s
<1>11. \A i, j \in DOMAIN s : s[i] = s[j] => i = j
  <2> SUFFICES ASSUME NEW i \in 1 .. n + 1, NEW j \in 1 .. n + 1, s[i] = s[j] PROVE i = j
    BY <1>9
  <2>1. \A m \in 1 .. n + 1 : m \in 1 .. n \/ m = n + 1
    OBVIOUS
  <2> QED
    BY <1>6, <1>7, <1>9, <2>1
<1>12. \E m \in Nat : PlacesOf(s, m)
  BY <1>9 DEF PlacesOf
<1>13. SideKnows(t, U)
  BY <1>1, <1>2, <1>10, <1>11, <1>12 DEF SideKnows, s
<1> QED
  BY <1>1, <1>13 DEF t, U

\* The recursion over the claims, for either side.
Growing(who, side, l, n, f) ==
    f = [i \in 0 .. n |-> IF i = 0 THEN side ELSE Grown(who, f[i - 1], l[i])]

\* There is such a function for every side and every list.
LEMMA GrowingExists == \A who, side, l : \A n \in Nat : \E f : Growing(who, side, l, n, f)
<1> SUFFICES ASSUME NEW who, NEW side, NEW l PROVE \A n \in Nat : \E f : Growing(who, side, l, n, f)
  OBVIOUS
<1> DEFINE S == {n \in Nat : \E f : Growing(who, side, l, n, f)}
<1>1. 0 \in S
  <2> DEFINE f == [i \in 0 .. 0 |-> side]
  <2>1. f = [i \in 0 .. 0 |-> IF i = 0 THEN side ELSE Grown(who, f[i - 1], l[i])]
    OBVIOUS
  <2> QED
    BY <2>1 DEF Growing
<1>2. ASSUME NEW n \in Nat, n \in S PROVE n + 1 \in S
  <2>1. PICK f : Growing(who, side, l, n, f)
    BY <1>2
  <2> DEFINE g == [i \in 0 .. n + 1 |-> IF i \in 0 .. n THEN f[i] ELSE Grown(who, f[i - 1], l[i])]
             h == [i \in 0 .. n + 1 |-> IF i = 0 THEN side ELSE Grown(who, g[i - 1], l[i])]
  <2>2. ASSUME NEW i \in 0 .. n + 1 PROVE g[i] = h[i]
    <3>1. CASE i \in 0 .. n
      <4>1. f[i] = IF i = 0 THEN side ELSE Grown(who, f[i - 1], l[i])
        BY <2>1, <3>1 DEF Growing
      <4>2. i # 0 => g[i - 1] = f[i - 1]
        BY <3>1
      <4> QED
        BY <3>1, <4>1, <4>2
    <3>2. CASE i = n + 1
      <4>1. g[i - 1] = f[i - 1] /\ i # 0 /\ i \notin 0 .. n
        BY <3>2
      <4> QED
        BY <3>2, <4>1
    <3> QED
      BY <3>1, <3>2
  <2>3. g = h
    BY <2>2
  <2>4. Growing(who, side, l, n + 1, g)
    BY <2>3 DEF Growing
  <2> HIDE DEF g
  <2> QED
    BY <2>4
<1> HIDE DEF S
<1>3. \A n \in Nat : n \in S
  BY <1>1, <1>2, NatSetInduction
<1> QED
  BY <1>3 DEF S

\* A side appends a list one claim after the other.
LEMMA AppendsAre ==
    ASSUME NEW who \in Sides, NEW side, NEW l, Len(l) \in Nat
    PROVE  \E f : Growing(who, side, l, Len(l), f) /\ Appends(who, side, l) = f[Len(l)]
<1>1. CASE who = "prover"
  <2> DEFINE E(f) == [i \in 0 .. Len(l) |-> IF i = 0 THEN side ELSE ProverAppend(f[i - 1], l[i])]
             after == CHOOSE f : f = E(f)
  <2>1. \A f : Growing(who, side, l, Len(l), f) <=> f = E(f)
    BY <1>1 DEF Growing, Grown
  <2>2. ProverAppends(side, l) = after[Len(l)]
    BY DEF ProverAppends
  <2>3. \E f : f = E(f)
    BY <2>1, GrowingExists, Zenon
  <2>4. after = E(after)
    BY <2>3
  <2> HIDE DEF after, E
  <2> QED
    BY <1>1, <2>1, <2>2, <2>4 DEF Appends
<1>2. CASE who = "verifier"
  <2> DEFINE E(f) == [i \in 0 .. Len(l) |-> IF i = 0 THEN side ELSE VerifierAppend(f[i - 1], l[i])]
             after == CHOOSE f : f = E(f)
  <2>1. \A f : Growing(who, side, l, Len(l), f) <=> f = E(f)
    BY <1>2 DEF Growing, Grown
  <2>2. VerifierAppends(side, l) = after[Len(l)]
    BY DEF VerifierAppends
  <2>3. \E f : f = E(f)
    BY <2>1, GrowingExists, Zenon
  <2>4. after = E(after)
    BY <2>3
  <2> HIDE DEF after, E
  <2> QED
    BY <1>2, <2>1, <2>2, <2>4 DEF Appends
<1> QED
  BY <1>1, <1>2 DEF Sides

\* The polynomials and points of claims that can be appended.
Enterable(U) == \A u \in U : u.key.poly \in Acc!Poly /\ u.point \in Points

\* A list of claims with new keys.
LEMMA AppendsKnow ==
    ASSUME NEW who \in Sides, NEW side, NEW T, SideKnows(side, T), NEW l, NEW U, Says(l, U),
           Apart(T, U), Enterable(U)
    PROVE  /\ SideKnows(Appends(who, side, l), T \cup U)
           /\ Unmoved(side, Appends(who, side, l))
<1>1. PICK n \in Nat : PlacesOf(l, n)
  BY DEF Says
<1>2. Len(l) = n /\ DOMAIN l = 1 .. n
  BY <1>1, PlacesAreSeq
<1>3. PICK f : Growing(who, side, l, n, f) /\ Appends(who, side, l) = f[n]
  BY <1>2, AppendsAre
<1> DEFINE W(m) == T \cup {Use(l[i].key, l[i].point) : i \in 1 .. m}
           S == {m \in Nat : m <= n => SideKnows(f[m], W(m)) /\ Unmoved(side, f[m])}
<1>4. f[0] = side /\ \A m \in Nat : m < n => f[m + 1] = Grown(who, f[m], l[m + 1])
  BY <1>3 DEF Growing
<1>5. 0 \in S
  <2>1. W(0) = T
    OBVIOUS
  <2> HIDE DEF W
  <2> QED
    BY <1>4, <2>1 DEF Unmoved
<1>6. ASSUME NEW m \in Nat, m \in S PROVE m + 1 \in S
  <2>1. SUFFICES ASSUME m + 1 <= n PROVE SideKnows(f[m + 1], W(m + 1)) /\ Unmoved(side, f[m + 1])
    OBVIOUS
  <2> DEFINE o == l[m + 1]
             V == W(m)
  <2>2. SideKnows(f[m], V) /\ Unmoved(side, f[m]) /\ f[m + 1] = Grown(who, f[m], o)
    BY <1>4, <1>6, <2>1
  <2>3. m + 1 \in DOMAIN l
    BY <1>2, <2>1
  <2>4. Use(o.key, o.point) \in U
    BY <2>3 DEF Says
  <2>5. o.key.poly \in Acc!Poly /\ o.point \in Points
    <3>1. Use(o.key, o.point).key = o.key /\ Use(o.key, o.point).point = o.point
      BY UseIs
    <3> QED
      BY <2>4, <3>1 DEF Enterable
  <2>6. o.key \notin Keys(V)
    <3> SUFFICES ASSUME NEW v \in V PROVE v.key # o.key
      BY DEF Keys
    <3>1. CASE v \in T
      BY <2>4, <3>1, UseIs DEF Apart
    <3>2. CASE \E i \in 1 .. m : v = Use(l[i].key, l[i].point)
      <4>1. PICK i \in 1 .. m : v = Use(l[i].key, l[i].point)
        BY <3>2
      <4>2. i \in DOMAIN l /\ i # m + 1
        BY <1>2, <2>1
      <4>3. l[i].key # o.key
        BY <2>3, <4>2 DEF Says
      <4> QED
        BY <4>1, <4>3, UseIs
    <3> QED
      BY <3>1, <3>2
  <2>7. W(m + 1) = V \cup {Use(o.key, o.point)}
    <3>1. 1 .. m + 1 = (1 .. m) \cup {m + 1}
      OBVIOUS
    <3> QED
      BY <3>1
  <2> HIDE DEF V, o, W
  <2>8. SideKnows(Grown(who, f[m], o), V \cup {Use(o.key, o.point)}) /\ Unmoved(f[m], Grown(who, f[m], o))
    BY <2>2, <2>5, <2>6, GrownKnows
  <2> QED
    BY <2>2, <2>7, <2>8 DEF Unmoved
<1> HIDE DEF S
<1>7. \A m \in Nat : m \in S
  BY <1>5, <1>6, NatSetInduction
<1>8. SideKnows(f[n], W(n)) /\ Unmoved(side, f[n])
  <2> HIDE DEF W
  <2>1. n \in S /\ n <= n
    BY <1>7
  <2> QED
    BY <2>1 DEF S
<1>9. W(n) = T \cup U
  <2>1. \A i \in 1 .. n : Use(l[i].key, l[i].point) \in U
    BY <1>2 DEF Says
  <2>2. \A u \in U : \E i \in 1 .. n : u = Use(l[i].key, l[i].point)
    BY <1>2 DEF Says
  <2> QED
    BY <2>1, <2>2
<1> QED
  BY <1>3, <1>8, <1>9

\* The transcript takes what is pending.
LEMMA FlushKnows ==
    ASSUME NEW side, NEW T, SideKnows(side, T)
    PROVE  /\ SideKnows(Flush(side), T)
           /\ Flush(side).wrong = side.wrong /\ Flush(side).used = side.used
           /\ Flush(side).advice = side.advice
<1> DEFINE t == Flush(side)
           acc == Acc!Flushed(side.acc)
<1>1. /\ DOMAIN t = DOMAIN side /\ t.acc = acc /\ t.appended = side.appended
      /\ t.wrong = side.wrong /\ t.used = side.used /\ t.advice = side.advice
  BY DEF Flush, SideKnows
<1>2. /\ DOMAIN acc = DOMAIN side.acc /\ acc.openings = side.acc.openings
      /\ acc.aliases = side.acc.aliases /\ acc.by_poly = side.acc.by_poly
  BY DEF Acc!Flushed, SideKnows, Knows
<1> HIDE DEF t, acc
<1>3. \A k : Target(acc, k) = Target(side.acc, k)
  BY <1>2 DEF Target
<1>4. AccPoints(acc)
  BY <1>2 DEF SideKnows, Knows, AccPoints
<1>5. Knows(acc, T)
  <2>1. \A u \in T : /\ Target(acc, u.key) \in DOMAIN acc.openings \cap Keys(T)
                     /\ acc.openings[Target(acc, u.key)].point = u.point
                     /\ u.point \in Points
    BY <1>2, <1>3 DEF SideKnows, Knows
  <2>2. \A p \in Acc!Poly :
          /\ acc.by_poly[p] \in Seq(Keys(T))
          /\ \A i \in DOMAIN acc.by_poly[p] :
                /\ acc.by_poly[p][i] \in DOMAIN acc.openings \ DOMAIN acc.aliases
                /\ acc.by_poly[p][i].poly = p
    BY <1>2 DEF SideKnows, Knows
  <2> QED
    BY <1>2, <1>4, <2>1, <2>2 DEF SideKnows, Knows
<1>6. SideKnows(t, T)
  BY <1>1, <1>5 DEF SideKnows
<1> QED
  BY <1>1, <1>6 DEF t

\* The claims of a batch are known, at the points its instances assume.
Assumes(batch, n, T) == \A i \in 1 .. n : batch[i].uses \subseteq T
BatchUses(batch, n) == UNION {batch[i].uses : i \in 1 .. n}

\* The beginning of a batch: its claims are looked up, and none is missing.
LEMMA StartKnows ==
    ASSUME NEW side, NEW T, SideKnows(side, T), NEW b, NEW n, NEW batch, DOMAIN batch = 1 .. n,
           Assumes(batch, n, T)
    PROVE  /\ SideKnows(Start(side, b, batch), T)
           /\ Start(side, b, batch).wrong = side.wrong
           /\ Start(side, b, batch).used = side.used \cup Keys(BatchUses(batch, n))
           /\ Start(side, b, batch).advice = side.advice
<1> DEFINE t == Start(side, b, batch)
           uses == UNION {batch[i].uses : i \in DOMAIN batch}
           bad == {x \in uses : PointOf(side.acc, x.key) # x.point}
<1>1. /\ DOMAIN t = DOMAIN side /\ t.acc = side.acc /\ t.appended = side.appended
      /\ t.advice = side.advice
      /\ t.wrong = side.wrong \cup {u.key : u \in bad}
      /\ t.used = side.used \cup {u.key : u \in uses}
  BY DEF Start, SideKnows
<1> HIDE DEF t
<1>2. uses = BatchUses(batch, n)
  BY DEF BatchUses
<1>3. \A u \in uses : u \in T
  BY DEF Assumes
<1>4. \A u \in T : PointOf(side.acc, u.key) = u.point
  BY KnownPoint DEF SideKnows
<1>5. bad = {}
  BY <1>3, <1>4
<1>6. t.wrong = side.wrong
  BY <1>1, <1>5
<1>7. SideKnows(t, T)
  BY <1>1 DEF SideKnows
<1>8. t.used = side.used \cup Keys(BatchUses(batch, n))
  BY <1>1, <1>2 DEF Keys
<1> QED
  BY <1>1, <1>6, <1>7, <1>8 DEF t

\* What a batch does to a side.
Ran(side, t, T, V, Q) ==
    /\ SideKnows(t, T \cup V)
    /\ t.wrong = side.wrong /\ t.advice = side.advice
    /\ t.used = side.used \cup Q

\* A batch adds the claims its instances leave, with new keys.
Leaving(who, T, b, n, batch, max, U) ==
    /\ DOMAIN batch = 1 .. n /\ max = MaxRounds(batch)
    /\ Assumes(batch, n, T)
    /\ \A i \in 1 .. n : Says(Out(who, batch[i], Slice(batch[i], Challenges(b, max))), U[i])
    /\ \A i, j \in 1 .. n : i # j => Apart(U[i], U[j])
    /\ Apart(T, All(U, n)) /\ Enterable(All(U, n))

\* A batch whose instances find their claims and leave claims with keys of their own.
LEMMA BatchKnows ==
    ASSUME NEW who \in Sides, NEW side, NEW T, SideKnows(side, T), NEW b, NEW n \in Nat,
           NEW batch, NEW max, NEW U, Leaving(who, T, b, n, batch, max, U)
    PROVE  Ran(side, Run(who, side, b, batch), T, All(U, n), Keys(BatchUses(batch, n)))
<1> DEFINE r == Challenges(b, max)
           lists == [i \in 1 .. n |-> Out(who, batch[i], Slice(batch[i], r))]
           l == FlattenSeq(lists)
           start == Start(side, b, batch)
           all == Appends(who, start, l)
<1>0. /\ DOMAIN batch = 1 .. n /\ max = MaxRounds(batch)
      /\ Assumes(batch, n, T)
      /\ \A i \in 1 .. n : Says(Out(who, batch[i], Slice(batch[i], Challenges(b, max))), U[i])
      /\ \A i, j \in 1 .. n : i # j => Apart(U[i], U[j])
      /\ Apart(T, All(U, n)) /\ Enterable(All(U, n))
  BY DEF Leaving
<1> USE <1>0
<1>1. Run(who, side, b, batch) = Flush(all)
  <2>1. CASE who = "prover"
    <3>1. lists = [i \in DOMAIN batch |-> batch[i].prover[Slice(batch[i], r)]]
      BY <2>1 DEF Out
    <3>2. Run(who, side, b, batch) = ProveBatch(side, b, batch)
      BY <2>1 DEF Run
    <3>3. all = ProverAppends(start, l)
      BY <2>1 DEF Appends
    <3> QED
      BY <3>1, <3>2, <3>3 DEF ProveBatch
  <2>2. CASE who = "verifier"
    <3>1. lists = [i \in DOMAIN batch |-> batch[i].verifier[Slice(batch[i], r)]]
      BY <2>2 DEF Out
    <3>2. Run(who, side, b, batch) = VerifyBatch(side, b, batch)
      BY <2>2 DEF Run
    <3>3. all = VerifierAppends(start, l)
      BY <2>2 DEF Appends
    <3> QED
      BY <3>1, <3>2, <3>3 DEF VerifyBatch
  <2> QED
    BY <2>1, <2>2 DEF Sides
<1>2. PlacesOf(lists, n) /\ \A i \in 1 .. n : Says(lists[i], U[i])
  BY DEF PlacesOf
<1> HIDE DEF lists
<1>3. Says(l, All(U, n))
  BY <1>2, SaysFlatten
<1>4. /\ SideKnows(start, T) /\ start.wrong = side.wrong /\ start.advice = side.advice
      /\ start.used = side.used \cup Keys(BatchUses(batch, n))
  BY StartKnows
<1> HIDE DEF l, start
<1>5. SideKnows(all, T \cup All(U, n)) /\ Unmoved(start, all)
  BY <1>3, <1>4, AppendsKnow
<1> HIDE DEF all
<1>6. /\ SideKnows(Flush(all), T \cup All(U, n))
      /\ Flush(all).wrong = all.wrong /\ Flush(all).used = all.used /\ Flush(all).advice = all.advice
  BY <1>5, FlushKnows
<1> QED
  BY <1>1, <1>4, <1>5, <1>6 DEF Unmoved, Ran

----------------------------------------------------------------------------
(* What the instances leave. *)

\* What both sides append is the same, but for the prover's values.
Leaves(x, r, U) == Says(x.prover[r], U) /\ Says(x.verifier[r], U)

\* Either side's list says the claims the instance leaves.
LEMMA LeavesOut ==
    ASSUME NEW x, NEW r, NEW U, Leaves(x, r, U), NEW who
    PROVE  Says(Out(who, x, r), U)
<1> QED
  BY DEF Leaves, Out

\* No polynomial is in the list twice.
Different(polys) ==
    /\ \E n \in Nat : PlacesOf(polys, n)
    /\ \A i, j \in DOMAIN polys : polys[i] = polys[j] => i = j

\* Claims of a list of polynomials at one point.
LEMMA AtIs ==
    ASSUME NEW p, NEW s
    PROVE  At(p, s).poly = p /\ At(p, s).sumcheck = s
<1> QED
  BY DEF At

\* The key and the point of what a side appends.
LEMMA OpenedIs ==
    ASSUME NEW k, NEW p, NEW b
    PROVE  Opened(k, p, b).key = k /\ Opened(k, p, b).point = p /\ Expect(k, p).key = k /\ Expect(k, p).point = p
<1> QED
  BY DEF Opened, Expect

\* The claims on the polynomials of a list at one point.
LEMMA UsesAre ==
    ASSUME NEW polys, NEW s, NEW p, NEW u
    PROVE  u \in Uses(IdsAt(Range(polys), s), p) <=> \E i \in DOMAIN polys : u = Use(At(polys[i], s), p)
<1>1. u \in Uses(IdsAt(Range(polys), s), p) <=> \E k \in IdsAt(Range(polys), s) : u = Use(k, p)
  BY DEF Uses
<1>2. \A k : k \in IdsAt(Range(polys), s) <=> \E q \in Range(polys) : k = At(q, s)
  BY DEF IdsAt
<1>3. \A q : q \in Range(polys) <=> \E i \in DOMAIN polys : q = polys[i]
  BY DEF Range
<1> QED
  BY <1>1, <1>2, <1>3

\* A claim for each polynomial of a list.
LEMMA SaysEach ==
    ASSUME NEW polys, Different(polys), NEW s, NEW p, NEW b
    PROVE  /\ Says(OpenedEach(polys, s, p, b), Uses(IdsAt(Range(polys), s), p))
           /\ Says(ExpectEach(polys, s, p), Uses(IdsAt(Range(polys), s), p))
<1>1. PICK n \in Nat : PlacesOf(polys, n)
  BY DEF Different
<1>2. DOMAIN polys = 1 .. n
  BY <1>1 DEF PlacesOf
<1> DEFINE keys == [i \in 1 .. n |-> At(polys[i], s)]
           points == [i \in 1 .. n |-> p]
           U == Uses(IdsAt(Range(polys), s), p)
<1>3. \A i, j \in 1 .. n : keys[i] = keys[j] => i = j
  <2>1. \A i \in 1 .. n : keys[i].poly = polys[i]
    BY AtIs
  <2> HIDE DEF keys
  <2> QED
    BY <1>2, <2>1 DEF Different
<1>4. \A i \in 1 .. n : Use(keys[i], points[i]) \in U
  BY <1>2, UsesAre
<1>5. \A u \in U : \E i \in 1 .. n : u = Use(keys[i], points[i])
  BY <1>2, UsesAre
<1>6. Says(OpenedEach(polys, s, p, b), U)
  <2> DEFINE l == OpenedEach(polys, s, p, b)
  <2>1. l = [i \in 1 .. n |-> Opened(At(polys[i], s), p, b)]
    BY <1>2 DEF OpenedEach
  <2>2. PlacesOf(l, n) /\ \A i \in 1 .. n : l[i].key = keys[i] /\ l[i].point = points[i]
    BY <2>1, OpenedIs DEF PlacesOf
  <2> HIDE DEF l, keys, points, U
  <2>3. Listing(l, n, keys, points, U)
    BY <1>3, <1>4, <1>5, <2>2 DEF Listing
  <2>4. Says(l, U)
    BY <2>3, SaysFunction
  <2> QED
    BY <2>4 DEF l
<1>7. Says(ExpectEach(polys, s, p), U)
  <2> DEFINE l == ExpectEach(polys, s, p)
  <2>1. l = [i \in 1 .. n |-> Expect(At(polys[i], s), p)]
    BY <1>2 DEF ExpectEach
  <2>2. PlacesOf(l, n) /\ \A i \in 1 .. n : l[i].key = keys[i] /\ l[i].point = points[i]
    BY <2>1, OpenedIs DEF PlacesOf
  <2> HIDE DEF l, keys, points, U
  <2>3. Listing(l, n, keys, points, U)
    BY <1>3, <1>4, <1>5, <2>2 DEF Listing
  <2>4. Says(l, U)
    BY <2>3, SaysFunction
  <2> QED
    BY <2>4 DEF l
<1> QED
  BY <1>6, <1>7

\* One claim.
LEMMA SaysOne ==
    ASSUME NEW x, NEW u, u = Use(x.key, x.point)
    PROVE  Says(<<x>>, {u})
<1>1. PlacesOf(<<x>>, 1)
  BY DEF PlacesOf
<1>2. DOMAIN <<x>> = {1} /\ <<x>>[1] = x
  OBVIOUS
<1> QED
  BY <1>1, <1>2 DEF Says

\* A single claim.
LEMMA LeavesOne ==
    ASSUME NEW k, NEW p, NEW b
    PROVE  Says(<<Opened(k, p, b)>>, {Use(k, p)}) /\ Says(<<Expect(k, p)>>, {Use(k, p)})
<1>1. \A x : Says(<<x>>, {Use(x.key, x.point)})
  BY SaysOne
<1>2. Says(<<Opened(k, p, b)>>, {Use(Opened(k, p, b).key, Opened(k, p, b).point)})
  BY <1>1
<1>3. Says(<<Expect(k, p)>>, {Use(Expect(k, p).key, Expect(k, p).point)})
  BY <1>1
<1>4. /\ Opened(k, p, b).key = k /\ Opened(k, p, b).point = p
      /\ Expect(k, p).key = k /\ Expect(k, p).point = p
  BY OpenedIs
<1> QED
  BY <1>2, <1>3, <1>4, Zenon

\* Two claims of different keys.
LEMMA TwoJoin == \A x, y : <<x>> \o <<y>> = <<x, y>>
<1> SUFFICES ASSUME NEW x, NEW y PROVE <<x>> \o <<y>> = <<x, y>>
  OBVIOUS
<1> DEFINE S == {x, y}
           s == <<x>>
           t == <<y>>
           u == <<x, y>>
<1>1. s \in Seq(S) /\ t \in Seq(S) /\ u \in Seq(S)
  OBVIOUS
<1>2. Len(s) = 1 /\ Len(t) = 1 /\ Len(u) = 2 /\ s \o t \in Seq(S) /\ Len(s \o t) = 2
  BY <1>1
<1>3. \A i \in 1 .. 2 : i = 1 \/ i = 2
  OBVIOUS
<1>4. (s \o t)[1] = x /\ (s \o t)[2] = y
  BY <1>1, <1>2
<1>5. \A i \in 1 .. 2 : (s \o t)[i] = u[i]
  BY <1>3, <1>4
<1> HIDE DEF s, t, u
<1>6. s \o t = u
  BY <1>1, <1>2, <1>5, SeqEqual
<1> QED
  BY <1>6 DEF s, t, u

\* Two claims of different keys.
LEMMA LeavesTwo ==
    ASSUME NEW k, NEW p, NEW b, NEW j, NEW q, NEW d, j # k
    PROVE  /\ Says(<<Opened(k, p, b), Opened(j, q, d)>>, {Use(k, p), Use(j, q)})
           /\ Says(<<Expect(k, p), Expect(j, q)>>, {Use(k, p), Use(j, q)})
<1>1. \A x, y : <<x>> \o <<y>> = <<x, y>>
  BY TwoJoin
<1>2. Apart({Use(k, p)}, {Use(j, q)})
  BY UseIs DEF Apart
<1>3. {Use(k, p)} \cup {Use(j, q)} = {Use(k, p), Use(j, q)}
  OBVIOUS
<1>4. Says(<<Opened(k, p, b)>>, {Use(k, p)}) /\ Says(<<Expect(k, p)>>, {Use(k, p)})
      /\ Says(<<Opened(j, q, d)>>, {Use(j, q)}) /\ Says(<<Expect(j, q)>>, {Use(j, q)})
  BY LeavesOne
<1>5. Says(<<Opened(k, p, b)>> \o <<Opened(j, q, d)>>, {Use(k, p)} \cup {Use(j, q)})
  BY <1>2, <1>4, SaysJoin, Zenon
<1>6. Says(<<Expect(k, p)>> \o <<Expect(j, q)>>, {Use(k, p)} \cup {Use(j, q)})
  BY <1>2, <1>4, SaysJoin, Zenon
<1> QED
  BY <1>1, <1>3, <1>5, <1>6, Zenon

\* The last challenges of a batch, which an instance in its last rounds has.
Part(b, max, n) == SubSeq(Challenges(b, max), max - n + 1, max)

\* The last n challenges of a batch.
LEMMA PartFacts ==
    ASSUME NEW b \in Nat, NEW max \in Nat, NEW n \in 0 .. max
    PROVE  /\ Part(b, max, n) \in Points /\ Len(Part(b, max, n)) = n
           /\ \A j \in 1 .. n : Part(b, max, n)[j] = <<b, (max - n) + j>>
<1> DEFINE r == Challenges(b, max)
           a == max - n
           s == Part(b, max, n)
<1>1. r \in Points /\ Len(r) = max
  BY ChallengesPoint
<1>2. \A j \in 1 .. max : r[j] = <<b, j>>
  BY DEF Challenges
<1>3. s = SubSeq(r, a + 1, max)
  BY DEF Part
<1>4. a \in Nat /\ n = max - a /\ a <= max
  OBVIOUS
<1> HIDE DEF r, s, a
<1>7. max <= Len(r) /\ max \in Nat
  BY <1>1
<1>5. PartOf(s, r, a, n)
  BY <1>1, <1>3, <1>4, <1>7, PartPlaces
<1>6. \A j \in 1 .. n : s[j] = <<b, a + j>>
  BY <1>2, <1>4, <1>5 DEF PartOf
<1> QED
  BY <1>5, <1>6 DEF s, a, PartOf

\* An instance that ends with its batch is bound at the last challenges.
LEMMA PlainSlice ==
    ASSUME NEW x, Plain(x), NEW n \in Nat, x.rounds = n, NEW b \in Nat, NEW max \in Nat, n <= max
    PROVE  Slice(x, Challenges(b, max)) = Part(b, max, n)
<1>1. Len(Challenges(b, max)) = max
  BY ChallengesPoint
<1>2. x.offset[max] = max - n
  BY DEF Plain, RoundOffset
<1>3. (max - n) + n = max
  OBVIOUS
<1> QED
  BY <1>1, <1>2, <1>3, Zenon DEF Slice, Part

\* The last challenges of some of the last.
LEMMA PartTwice ==
    ASSUME NEW b \in Nat, NEW max \in Nat, NEW n \in 0 .. max, NEW m \in 0 .. n, NEW a, a = n - m
    PROVE  From(Part(b, max, n), a) = Part(b, max, m)
<1> DEFINE r == Part(b, max, n)
           s == From(r, a)
           t == Part(b, max, m)
<1>1. r \in Points /\ Len(r) = n /\ \A j \in 1 .. n : r[j] = <<b, (max - n) + j>>
  BY PartFacts
<1>2. t \in Points /\ Len(t) = m /\ \A j \in 1 .. m : t[j] = <<b, (max - m) + j>>
  BY PartFacts
<1>3. PlacesOf(t, m)
  BY <1>2, PointPlaces
<1> HIDE DEF r, t
<1>4. a \in Nat /\ a <= Len(r) /\ m = Len(r) - a
  BY <1>1
<1>5. PartOf(s, r, a, m)
  BY <1>1, <1>4, LastPart
<1> HIDE DEF s
<1>6. \A j \in 1 .. m : s[j] = t[j]
  <2> SUFFICES ASSUME NEW j \in 1 .. m PROVE s[j] = t[j]
    OBVIOUS
  <2>1. s[j] = r[a + j] /\ a + j \in 1 .. n
    BY <1>5 DEF PartOf
  <2>2. (max - n) + (a + j) = (max - m) + j
    OBVIOUS
  <2> QED
    BY <1>1, <1>2, <2>1, <2>2
<1>7. PlacesOf(s, m) /\ m \in Nat
  BY <1>4, <1>5 DEF PartOf
<1>8. s = t
  BY <1>3, <1>6, <1>7, SamePlaces, Zenon
<1> QED
  BY <1>8 DEF s, r, t

----------------------------------------------------------------------------
(* The polynomials of the lists. *)

\* The inputs of the constraint system are different polynomials.
LEMMA InputsDiffer == Different(R1CSInputs)
<1>1. PlacesOf(R1CSInputs, 35)
  BY DEF PlacesOf, R1CSInputs
<1>2. DOMAIN R1CSInputs = 1 .. 35
  BY <1>1 DEF PlacesOf
<1>3. \A i, j \in 1 .. 35 : R1CSInputs[i] = R1CSInputs[j] => i = j
  BY SMTT(100) DEF R1CSInputs, Virt, OpFlag
<1> QED
  BY <1>1, <1>2, <1>3 DEF Different

\* So are the factors of the product sumcheck.
LEMMA FactorsDiffer == Different(ProductFactors)
<1>1. PlacesOf(ProductFactors, 8)
  BY DEF PlacesOf, ProductFactors
<1>2. DOMAIN ProductFactors = 1 .. 8
  BY <1>1 DEF PlacesOf
<1>3. \A i, j \in 1 .. 8 : ProductFactors[i] = ProductFactors[j] => i = j
  BY SMTT(60) DEF ProductFactors, Virt, OpFlag, InstrFlag
<1> QED
  BY <1>1, <1>2, <1>3 DEF Different

\* The inputs that are no flags, and the factors.
VirtualInputs ==
    {"LeftInstructionInput", "RightInstructionInput", "Product", "ShouldBranch", "PC",
     "UnexpandedPC", "Imm", "RamAddress", "Rs1Value", "Rs2Value", "RdWriteValue",
     "RamReadValue", "RamWriteValue", "LeftLookupOperand", "RightLookupOperand",
     "NextUnexpandedPC", "NextPC", "NextIsVirtual", "NextIsFirstInSequence", "LookupOutput",
     "ShouldJump"}

\* The inputs: the ones that are no flags, and the circuit flags.
LEMMA InputsAre == Range(R1CSInputs) = {Virt(n) : n \in VirtualInputs} \cup CircuitFlags
<1>1. DOMAIN R1CSInputs = 1 .. 35
  BY DEF R1CSInputs
<1>2. \A i \in 1 .. 35 : i \in 1 .. 21 \/ i \in 22 .. 35
  OBVIOUS
<1>3. \A i \in 1 .. 21 : R1CSInputs[i] \in {Virt(n) : n \in VirtualInputs}
  <2>1. R1CSInputs[1] = Virt("LeftInstructionInput") /\ "LeftInstructionInput" \in VirtualInputs
    BY DEF R1CSInputs, VirtualInputs
  <2>2. R1CSInputs[2] = Virt("RightInstructionInput") /\ "RightInstructionInput" \in VirtualInputs
    BY DEF R1CSInputs, VirtualInputs
  <2>3. R1CSInputs[3] = Virt("Product") /\ "Product" \in VirtualInputs
    BY DEF R1CSInputs, VirtualInputs
  <2>4. R1CSInputs[4] = Virt("ShouldBranch") /\ "ShouldBranch" \in VirtualInputs
    BY DEF R1CSInputs, VirtualInputs
  <2>5. R1CSInputs[5] = Virt("PC") /\ "PC" \in VirtualInputs
    BY DEF R1CSInputs, VirtualInputs
  <2>6. R1CSInputs[6] = Virt("UnexpandedPC") /\ "UnexpandedPC" \in VirtualInputs
    BY DEF R1CSInputs, VirtualInputs
  <2>7. R1CSInputs[7] = Virt("Imm") /\ "Imm" \in VirtualInputs
    BY DEF R1CSInputs, VirtualInputs
  <2>8. R1CSInputs[8] = Virt("RamAddress") /\ "RamAddress" \in VirtualInputs
    BY DEF R1CSInputs, VirtualInputs
  <2>9. R1CSInputs[9] = Virt("Rs1Value") /\ "Rs1Value" \in VirtualInputs
    BY DEF R1CSInputs, VirtualInputs
  <2>10. R1CSInputs[10] = Virt("Rs2Value") /\ "Rs2Value" \in VirtualInputs
    BY DEF R1CSInputs, VirtualInputs
  <2>11. R1CSInputs[11] = Virt("RdWriteValue") /\ "RdWriteValue" \in VirtualInputs
    BY DEF R1CSInputs, VirtualInputs
  <2>12. R1CSInputs[12] = Virt("RamReadValue") /\ "RamReadValue" \in VirtualInputs
    BY DEF R1CSInputs, VirtualInputs
  <2>13. R1CSInputs[13] = Virt("RamWriteValue") /\ "RamWriteValue" \in VirtualInputs
    BY DEF R1CSInputs, VirtualInputs
  <2>14. R1CSInputs[14] = Virt("LeftLookupOperand") /\ "LeftLookupOperand" \in VirtualInputs
    BY DEF R1CSInputs, VirtualInputs
  <2>15. R1CSInputs[15] = Virt("RightLookupOperand") /\ "RightLookupOperand" \in VirtualInputs
    BY DEF R1CSInputs, VirtualInputs
  <2>16. R1CSInputs[16] = Virt("NextUnexpandedPC") /\ "NextUnexpandedPC" \in VirtualInputs
    BY DEF R1CSInputs, VirtualInputs
  <2>17. R1CSInputs[17] = Virt("NextPC") /\ "NextPC" \in VirtualInputs
    BY DEF R1CSInputs, VirtualInputs
  <2>18. R1CSInputs[18] = Virt("NextIsVirtual") /\ "NextIsVirtual" \in VirtualInputs
    BY DEF R1CSInputs, VirtualInputs
  <2>19. R1CSInputs[19] = Virt("NextIsFirstInSequence") /\ "NextIsFirstInSequence" \in VirtualInputs
    BY DEF R1CSInputs, VirtualInputs
  <2>20. R1CSInputs[20] = Virt("LookupOutput") /\ "LookupOutput" \in VirtualInputs
    BY DEF R1CSInputs, VirtualInputs
  <2>21. R1CSInputs[21] = Virt("ShouldJump") /\ "ShouldJump" \in VirtualInputs
    BY DEF R1CSInputs, VirtualInputs
  <2>22. \A i \in 1 .. 21 : i = 1 \/ i = 2 \/ i = 3 \/ i = 4 \/ i = 5 \/ i = 6 \/ i = 7 \/ i = 8 \/ i = 9 \/ i = 10
                            \/ i = 11 \/ i = 12 \/ i = 13 \/ i = 14 \/ i = 15 \/ i = 16 \/ i = 17 \/ i = 18 \/ i = 19 \/ i = 20 \/ i = 21
    OBVIOUS
  <2> HIDE DEF VirtualInputs
  <2> QED
    BY <2>1, <2>2, <2>3, <2>4, <2>5, <2>6, <2>7, <2>8, <2>9, <2>10, <2>11, <2>12, <2>13, <2>14,
       <2>15, <2>16, <2>17, <2>18, <2>19, <2>20, <2>21, <2>22
<1>4. \A n \in VirtualInputs : \E i \in 1 .. 21 : R1CSInputs[i] = Virt(n)
  BY DEF R1CSInputs, VirtualInputs
<1>5. \A i \in 22 .. 35 : R1CSInputs[i][1] = "op_flag"
  BY DEF R1CSInputs, OpFlag
<1>6. \A p \in Range(R1CSInputs) : \E i \in 1 .. 35 : p = R1CSInputs[i]
  BY <1>1 DEF Range
<1>7. \A i \in 1 .. 35 : R1CSInputs[i] \in Range(R1CSInputs)
  BY <1>1 DEF Range
<1>8. ASSUME NEW p \in Range(R1CSInputs) PROVE p \in {Virt(n) : n \in VirtualInputs} \cup CircuitFlags
  <2>1. PICK i \in 1 .. 35 : p = R1CSInputs[i]
    BY <1>6
  <2>2. CASE i \in 1 .. 21
    BY <1>3, <2>1, <2>2
  <2>3. CASE i \in 22 .. 35
    BY <1>5, <2>1, <2>3 DEF CircuitFlags
  <2> QED
    BY <1>2, <2>2, <2>3
<1>9. ASSUME NEW n \in VirtualInputs PROVE Virt(n) \in Range(R1CSInputs)
  <2>1. PICK i \in 1 .. 21 : R1CSInputs[i] = Virt(n)
    BY <1>4
  <2>2. i \in 1 .. 35
    OBVIOUS
  <2> QED
    BY <1>7, <2>1, <2>2
<1>10. CircuitFlags \subseteq Range(R1CSInputs)
  BY DEF CircuitFlags
<1> QED
  BY <1>8, <1>9, <1>10

\* The factors of the products.
LEMMA FactorsAre ==
    Range(ProductFactors) =
      {Virt("LeftInstructionInput"), Virt("RightInstructionInput"), OpFlag("Jump"),
       OpFlag("WriteLookupOutputToRD"), Virt("LookupOutput"), InstrFlag("Branch"),
       Virt("NextIsNoop"), OpFlag("VirtualInstruction")}
<1>1. DOMAIN ProductFactors = 1 .. 8
  BY DEF ProductFactors
<1>2. Range(ProductFactors) = {ProductFactors[i] : i \in 1 .. 8}
  BY <1>1 DEF Range
<1>3. 1 .. 8 = {1, 2, 3, 4, 5, 6, 7, 8}
  OBVIOUS
<1>4. Range(ProductFactors) = {ProductFactors[1], ProductFactors[2], ProductFactors[3], ProductFactors[4],
                               ProductFactors[5], ProductFactors[6], ProductFactors[7], ProductFactors[8]}
  BY <1>2, <1>3
<1> QED
  BY <1>4 DEF ProductFactors

\* The circuit flags other sumchecks ask for.
LEMMA FlagInputs ==
    /\ OpFlag("VirtualInstruction") \in CircuitFlags /\ OpFlag("IsFirstInSequence") \in CircuitFlags
    /\ OpFlag("Jump") \in CircuitFlags /\ OpFlag("WriteLookupOutputToRD") \in CircuitFlags
<1>1. /\ R1CSInputs[27] = OpFlag("Jump") /\ R1CSInputs[28] = OpFlag("WriteLookupOutputToRD")
      /\ R1CSInputs[29] = OpFlag("VirtualInstruction") /\ R1CSInputs[34] = OpFlag("IsFirstInSequence")
  BY DEF R1CSInputs
<1>2. DOMAIN R1CSInputs = 1 .. 35
  BY DEF R1CSInputs
<1>3. \A i \in 1 .. 35 : R1CSInputs[i] \in Range(R1CSInputs)
  BY <1>2 DEF Range
<1>4. \A n : OpFlag(n)[1] = "op_flag"
  BY DEF OpFlag
<1> QED
  BY <1>1, <1>3, <1>4 DEF CircuitFlags

LookupPolys ==
    <<Virt("LookupOutput"), Virt("LeftLookupOperand"), Virt("RightLookupOperand"),
      Virt("LeftInstructionInput"), Virt("RightInstructionInput")>>
ShiftPolys ==
    <<Virt("UnexpandedPC"), Virt("PC"), OpFlag("VirtualInstruction"), OpFlag("IsFirstInSequence"),
      InstrFlag("IsNoop")>>
InputPolys ==
    <<InstrFlag("LeftOperandIsRs1Value"), Virt("Rs1Value"), InstrFlag("LeftOperandIsPC"),
      Virt("UnexpandedPC"), InstrFlag("RightOperandIsRs2Value"), Virt("Rs2Value"),
      InstrFlag("RightOperandIsImm"), Virt("Imm")>>
ValuePolys == <<Virt("RdWriteValue"), Virt("Rs1Value"), Virt("Rs2Value")>>
AccessPolys == <<Virt("RegistersVal"), Virt("Rs1Ra"), Virt("Rs2Ra"), Virt("RdWa")>>
IncPolys == <<Comm("RamInc"), Comm("RdInc")>>

\* The short lists.
LEMMA ListsDiffer ==
    /\ Different(LookupPolys) /\ Different(ShiftPolys) /\ Different(InputPolys)
    /\ Different(ValuePolys) /\ Different(AccessPolys) /\ Different(IncPolys)
<1>1. Different(LookupPolys)
  <2>1. PlacesOf(LookupPolys, 5) /\ DOMAIN LookupPolys = 1 .. 5
    BY DEF PlacesOf, LookupPolys
  <2>2. \A i, j \in 1 .. 5 : LookupPolys[i] = LookupPolys[j] => i = j
    BY DEF LookupPolys, Virt
  <2> QED
    BY <2>1, <2>2 DEF Different
<1>2. Different(ShiftPolys)
  <2>1. PlacesOf(ShiftPolys, 5) /\ DOMAIN ShiftPolys = 1 .. 5
    BY DEF PlacesOf, ShiftPolys
  <2>2. \A i, j \in 1 .. 5 : ShiftPolys[i] = ShiftPolys[j] => i = j
    BY DEF ShiftPolys, Virt, OpFlag, InstrFlag
  <2> QED
    BY <2>1, <2>2 DEF Different
<1>3. Different(InputPolys)
  <2>1. PlacesOf(InputPolys, 8) /\ DOMAIN InputPolys = 1 .. 8
    BY DEF PlacesOf, InputPolys
  <2>2. \A i, j \in 1 .. 8 : InputPolys[i] = InputPolys[j] => i = j
    BY DEF InputPolys, Virt, InstrFlag
  <2> QED
    BY <2>1, <2>2 DEF Different
<1>4. Different(ValuePolys)
  <2>1. PlacesOf(ValuePolys, 3) /\ DOMAIN ValuePolys = 1 .. 3
    BY DEF PlacesOf, ValuePolys
  <2>2. \A i, j \in 1 .. 3 : ValuePolys[i] = ValuePolys[j] => i = j
    BY DEF ValuePolys, Virt
  <2> QED
    BY <2>1, <2>2 DEF Different
<1>5. Different(AccessPolys)
  <2>1. PlacesOf(AccessPolys, 4) /\ DOMAIN AccessPolys = 1 .. 4
    BY DEF PlacesOf, AccessPolys
  <2>2. \A i, j \in 1 .. 4 : AccessPolys[i] = AccessPolys[j] => i = j
    BY DEF AccessPolys, Virt
  <2> QED
    BY <2>1, <2>2 DEF Different
<1>6. Different(IncPolys)
  <2>1. PlacesOf(IncPolys, 2) /\ DOMAIN IncPolys = 1 .. 2
    BY DEF PlacesOf, IncPolys
  <2>2. \A i, j \in 1 .. 2 : IncPolys[i] = IncPolys[j] => i = j
    BY DEF IncPolys, Comm
  <2> QED
    BY <2>1, <2>2 DEF Different
<1> QED
  BY <1>1, <1>2, <1>3, <1>4, <1>5, <1>6

\* What is in a short list.
LEMMA RangeOf2 ==
    ASSUME NEW a, NEW b
    PROVE  Range(<<a, b>>) = {a, b}
<1> DEFINE s == <<a, b>>
<1>1. DOMAIN s = {1, 2}
  OBVIOUS
<1>2. s[1] = a /\ s[2] = b
  OBVIOUS
<1> HIDE DEF s
<1>3. Range(s) = {a, b}
  BY <1>1, <1>2 DEF Range
<1> QED
  BY <1>3 DEF s

\* What a list of three has.
LEMMA RangeOf3 ==
    ASSUME NEW a, NEW b, NEW d
    PROVE  Range(<<a, b, d>>) = {a, b, d}
<1> DEFINE s == <<a, b, d>>
<1>1. DOMAIN s = {1, 2, 3}
  OBVIOUS
<1>2. s[1] = a /\ s[2] = b /\ s[3] = d
  OBVIOUS
<1> HIDE DEF s
<1>3. Range(s) = {a, b, d}
  BY <1>1, <1>2 DEF Range
<1> QED
  BY <1>3 DEF s

\* What a list of four has.
LEMMA RangeOf4 ==
    ASSUME NEW a, NEW b, NEW d, NEW e
    PROVE  Range(<<a, b, d, e>>) = {a, b, d, e}
<1> DEFINE s == <<a, b, d, e>>
<1>1. DOMAIN s = {1, 2, 3, 4}
  OBVIOUS
<1>2. s[1] = a /\ s[2] = b /\ s[3] = d /\ s[4] = e
  OBVIOUS
<1> HIDE DEF s
<1>3. Range(s) = {a, b, d, e}
  BY <1>1, <1>2 DEF Range
<1> QED
  BY <1>3 DEF s

\* What a list of five has.
LEMMA RangeOf5 ==
    ASSUME NEW a, NEW b, NEW d, NEW e, NEW f
    PROVE  Range(<<a, b, d, e, f>>) = {a, b, d, e, f}
<1> DEFINE s == <<a, b, d, e, f>>
<1>1. DOMAIN s = {1, 2, 3, 4, 5}
  OBVIOUS
<1>2. s[1] = a /\ s[2] = b /\ s[3] = d /\ s[4] = e /\ s[5] = f
  OBVIOUS
<1> HIDE DEF s
<1>3. Range(s) = {a, b, d, e, f}
  BY <1>1, <1>2 DEF Range
<1> QED
  BY <1>3 DEF s

\* What a list of eight has.
LEMMA RangeOf8 ==
    ASSUME NEW a, NEW b, NEW d, NEW e, NEW f, NEW g, NEW h, NEW k
    PROVE  Range(<<a, b, d, e, f, g, h, k>>) = {a, b, d, e, f, g, h, k}
<1> DEFINE s == <<a, b, d, e, f, g, h, k>>
<1>1. DOMAIN s = {1, 2, 3, 4, 5, 6, 7, 8}
  OBVIOUS
<1>2. s[1] = a /\ s[2] = b /\ s[3] = d /\ s[4] = e /\ s[5] = f /\ s[6] = g /\ s[7] = h /\ s[8] = k
  OBVIOUS
<1> HIDE DEF s
<1>3. Range(s) = {a, b, d, e, f, g, h, k}
  BY <1>1, <1>2 DEF Range
<1> QED
  BY <1>3 DEF s

\* The polynomials of the short lists.
LEMMA ListRanges ==
    /\ Range(LookupPolys) = {Virt("LookupOutput"), Virt("LeftLookupOperand"),
                             Virt("RightLookupOperand"), Virt("LeftInstructionInput"),
                             Virt("RightInstructionInput")}
    /\ Range(ShiftPolys) = {Virt("UnexpandedPC"), Virt("PC"),
                            OpFlag("VirtualInstruction"), OpFlag("IsFirstInSequence"),
                            InstrFlag("IsNoop")}
    /\ Range(InputPolys) = {InstrFlag("LeftOperandIsRs1Value"), Virt("Rs1Value"),
                            InstrFlag("LeftOperandIsPC"), Virt("UnexpandedPC"),
                            InstrFlag("RightOperandIsRs2Value"), Virt("Rs2Value"),
                            InstrFlag("RightOperandIsImm"), Virt("Imm")}
    /\ Range(ValuePolys) = {Virt("RdWriteValue"), Virt("Rs1Value"), Virt("Rs2Value")}
    /\ Range(AccessPolys) = {Virt("RegistersVal"), Virt("Rs1Ra"), Virt("Rs2Ra"),
                             Virt("RdWa")}
    /\ Range(IncPolys) = {Comm("RamInc"), Comm("RdInc")}
<1>1. Range(LookupPolys) = {Virt("LookupOutput"), Virt("LeftLookupOperand"),
                            Virt("RightLookupOperand"), Virt("LeftInstructionInput"),
                            Virt("RightInstructionInput")}
  BY RangeOf5 DEF LookupPolys
<1>2. Range(ShiftPolys) = {Virt("UnexpandedPC"), Virt("PC"),
                           OpFlag("VirtualInstruction"), OpFlag("IsFirstInSequence"),
                           InstrFlag("IsNoop")}
  BY RangeOf5 DEF ShiftPolys
<1>3. Range(InputPolys) = {InstrFlag("LeftOperandIsRs1Value"), Virt("Rs1Value"),
                           InstrFlag("LeftOperandIsPC"), Virt("UnexpandedPC"),
                           InstrFlag("RightOperandIsRs2Value"), Virt("Rs2Value"),
                           InstrFlag("RightOperandIsImm"), Virt("Imm")}
  BY RangeOf8 DEF InputPolys
<1>4. Range(ValuePolys) = {Virt("RdWriteValue"), Virt("Rs1Value"), Virt("Rs2Value")}
  BY RangeOf3 DEF ValuePolys
<1>5. Range(AccessPolys) = {Virt("RegistersVal"), Virt("Rs1Ra"), Virt("Rs2Ra"),
                            Virt("RdWa")}
  BY RangeOf4 DEF AccessPolys
<1>6. Range(IncPolys) = {Comm("RamInc"), Comm("RdInc")}
  BY RangeOf2 DEF IncPolys
<1> QED
  BY <1>1, <1>2, <1>3, <1>4, <1>5, <1>6

\* The flags of the lookup tables.
LEMMA TableFlagsDiffer == Different(TableFlags) /\ DOMAIN TableFlags = 1 .. NumLookupTables
<1>1. NumLookupTables \in Nat
  BY OneHotAssumption
<1>2. DOMAIN TableFlags = 1 .. NumLookupTables /\ PlacesOf(TableFlags, NumLookupTables)
  BY DEF PlacesOf, TableFlags
<1>3. \A i, j \in 1 .. NumLookupTables : TableFlags[i] = TableFlags[j] => i = j
  BY DEF TableFlags, VirtAt
<1> QED
  BY <1>1, <1>2, <1>3 DEF Different

\* The one-hot polynomials, in three groups.
OneHotPlaces(c, n, m, k) ==
    /\ PlacesOf(RaPolynomials(c), n + m + k)
    /\ \A i \in 1 .. n : RaPolynomials(c)[i] = CommAt("InstructionRa", i)
    /\ \A i \in 1 .. m : RaPolynomials(c)[n + i] = CommAt("BytecodeRa", i)
    /\ \A i \in 1 .. k : RaPolynomials(c)[n + m + i] = CommAt("RamRa", i)

\* Where the one-hot polynomials are in their list.
LEMMA RaPlaces ==
    ASSUME NEW c \in Configs, NEW n, n = InstructionD, NEW m, m = ChunksOf(c.bytecode_log_K),
           NEW k, k = ChunksOf(c.ram_log_K)
    PROVE  n \in Nat /\ m \in Nat /\ k \in Nat /\ OneHotPlaces(c, n, m, k)
<1>1. n \in Nat /\ m \in Nat /\ k \in Nat
  BY ChunksAreMany, ConfigAssumption
<1> DEFINE a == [i \in 1 .. n |-> CommAt("InstructionRa", i)]
           b == [i \in 1 .. m |-> CommAt("BytecodeRa", i)]
           d == [i \in 1 .. k |-> CommAt("RamRa", i)]
           ab == a \o b
           all == ab \o d
<1>2. RaPolynomials(c) = all
  BY DEF RaPolynomials
<1>3. PlacesOf(a, n) /\ PlacesOf(b, m) /\ PlacesOf(d, k)
  BY DEF PlacesOf
<1>4. /\ \A i \in 1 .. n : a[i] = CommAt("InstructionRa", i)
      /\ \A i \in 1 .. m : b[i] = CommAt("BytecodeRa", i)
      /\ \A i \in 1 .. k : d[i] = CommAt("RamRa", i)
  OBVIOUS
<1> HIDE DEF a, b, d
<1>5. Joined(a, n, b, m) /\ PlacesOf(ab, n + m)
  BY <1>1, <1>3, JoinPlaces, JoinedPlaces, Zenon
<1>6. /\ \A i \in 1 .. n : ab[i] = a[i]
      /\ \A i \in 1 .. m : ab[n + i] = b[i]
  BY <1>5 DEF Joined
<1>7. n + m \in Nat
  BY <1>1
<1> HIDE DEF ab
<1>8. Joined(ab, n + m, d, k) /\ PlacesOf(all, n + m + k)
  BY <1>1, <1>3, <1>5, <1>7, JoinPlaces, JoinedPlaces, Zenon
<1>9. /\ \A i \in 1 .. n + m : all[i] = ab[i]
      /\ \A i \in 1 .. k : all[n + m + i] = d[i]
  BY <1>8 DEF Joined
<1> HIDE DEF all
<1>10. \A i \in 1 .. n : all[i] = a[i]
  <2>1. \A i \in 1 .. n : i \in 1 .. n + m
    BY <1>1
  <2> QED
    BY <1>6, <1>9, <2>1
<1>11. \A i \in 1 .. m : all[n + i] = b[i]
  <2>1. \A i \in 1 .. m : n + i \in 1 .. n + m
    BY <1>1
  <2> QED
    BY <1>6, <1>9, <2>1
<1> QED
  BY <1>1, <1>2, <1>4, <1>8, <1>9, <1>10, <1>11 DEF OneHotPlaces

\* A committed polynomial is known by its name and its number.
LEMMA CommIs ==
    ASSUME NEW a, NEW i, NEW b, NEW j
    PROVE  CommAt(a, i) = CommAt(b, j) <=> a = b /\ i = j
<1> QED
  BY DEF CommAt

\* One of three intervals.
LEMMA ThreeParts ==
    ASSUME NEW n \in Nat, NEW m \in Nat, NEW k \in Nat, NEW i \in 1 .. n + m + k
    PROVE  \/ i \in 1 .. n
           \/ \E j \in 1 .. m : i = n + j
           \/ \E j \in 1 .. k : i = n + m + j
<1>1. CASE i <= n
  BY <1>1
<1>2. CASE n < i /\ i <= n + m
  <2>1. i - n \in 1 .. m /\ i = n + (i - n)
    BY <1>2
  <2> QED
    BY <2>1
<1>3. CASE n + m < i
  <2>1. i - (n + m) \in 1 .. k /\ i = n + m + (i - (n + m))
    BY <1>3
  <2> QED
    BY <2>1
<1> QED
  BY <1>1, <1>2, <1>3

\* The one-hot polynomials of a proof.
LEMMA RaIs ==
    ASSUME NEW c \in Configs, NEW p
    PROVE  p \in Range(RaPolynomials(c)) <=>
             \/ \E i \in 1 .. InstructionD : p = CommAt("InstructionRa", i)
             \/ \E i \in 1 .. ChunksOf(c.bytecode_log_K) : p = CommAt("BytecodeRa", i)
             \/ \E i \in 1 .. ChunksOf(c.ram_log_K) : p = CommAt("RamRa", i)
<1> DEFINE n == InstructionD
           m == ChunksOf(c.bytecode_log_K)
           k == ChunksOf(c.ram_log_K)
           s == RaPolynomials(c)
<1>0. n = InstructionD /\ m = ChunksOf(c.bytecode_log_K) /\ k = ChunksOf(c.ram_log_K)
  OBVIOUS
<1> HIDE DEF n, m, k
<1>1. n \in Nat /\ m \in Nat /\ k \in Nat /\ OneHotPlaces(c, n, m, k)
  BY <1>0, RaPlaces
<1>2. /\ DOMAIN s = 1 .. n + m + k
      /\ \A i \in 1 .. n : s[i] = CommAt("InstructionRa", i)
      /\ \A i \in 1 .. m : s[n + i] = CommAt("BytecodeRa", i)
      /\ \A i \in 1 .. k : s[n + m + i] = CommAt("RamRa", i)
  BY <1>1 DEF OneHotPlaces, PlacesOf
<1> HIDE DEF s
<1>3. /\ \A i \in 1 .. n : i \in 1 .. n + m + k
      /\ \A i \in 1 .. m : n + i \in 1 .. n + m + k
      /\ \A i \in 1 .. k : n + m + i \in 1 .. n + m + k
  BY <1>1
<1>4. \A i \in 1 .. n + m + k : \/ i \in 1 .. n
                                \/ \E j \in 1 .. m : i = n + j
                                \/ \E j \in 1 .. k : i = n + m + j
  BY <1>1, ThreeParts
<1>5. p \in Range(s) <=> \E i \in 1 .. n + m + k : p = s[i]
  BY <1>2 DEF Range
<1>6. ASSUME p \in Range(s)
      PROVE  \/ \E i \in 1 .. n : p = CommAt("InstructionRa", i)
             \/ \E i \in 1 .. m : p = CommAt("BytecodeRa", i)
             \/ \E i \in 1 .. k : p = CommAt("RamRa", i)
  <2>1. PICK i \in 1 .. n + m + k : p = s[i]
    BY <1>5, <1>6
  <2> QED
    BY <1>2, <1>4, <2>1
<1>7. ASSUME \/ \E i \in 1 .. n : p = CommAt("InstructionRa", i)
             \/ \E i \in 1 .. m : p = CommAt("BytecodeRa", i)
             \/ \E i \in 1 .. k : p = CommAt("RamRa", i)
      PROVE  p \in Range(s)
  <2>1. ASSUME NEW i \in 1 .. n, p = CommAt("InstructionRa", i) PROVE p \in Range(s)
    <3>1. p = s[i] /\ i \in 1 .. n + m + k
      BY <1>2, <1>3, <2>1
    <3> QED
      BY <1>5, <3>1
  <2>2. ASSUME NEW i \in 1 .. m, p = CommAt("BytecodeRa", i) PROVE p \in Range(s)
    <3>1. p = s[n + i] /\ n + i \in 1 .. n + m + k
      BY <1>2, <1>3, <2>2
    <3> QED
      BY <1>5, <3>1
  <2>3. ASSUME NEW i \in 1 .. k, p = CommAt("RamRa", i) PROVE p \in Range(s)
    <3>1. p = s[n + m + i] /\ n + m + i \in 1 .. n + m + k
      BY <1>2, <1>3, <2>3
    <3> QED
      BY <1>5, <3>1
  <2> QED
    BY <1>7, <2>1, <2>2, <2>3
<1> QED
  BY <1>0, <1>6, <1>7 DEF s

\* No one-hot polynomial is in the list twice.
LEMMA RaDiffer ==
    ASSUME NEW c \in Configs
    PROVE  Different(RaPolynomials(c))
<1> DEFINE n == InstructionD
           m == ChunksOf(c.bytecode_log_K)
           k == ChunksOf(c.ram_log_K)
           s == RaPolynomials(c)
<1>0. n = InstructionD /\ m = ChunksOf(c.bytecode_log_K) /\ k = ChunksOf(c.ram_log_K)
  OBVIOUS
<1> HIDE DEF n, m, k
<1>1. n \in Nat /\ m \in Nat /\ k \in Nat /\ OneHotPlaces(c, n, m, k)
  BY <1>0, RaPlaces
<1>2. /\ PlacesOf(s, n + m + k) /\ DOMAIN s = 1 .. n + m + k
      /\ \A i \in 1 .. n : s[i] = CommAt("InstructionRa", i)
      /\ \A i \in 1 .. m : s[n + i] = CommAt("BytecodeRa", i)
      /\ \A i \in 1 .. k : s[n + m + i] = CommAt("RamRa", i)
  BY <1>1 DEF OneHotPlaces, PlacesOf
<1> HIDE DEF s
<1>3. \A i \in 1 .. n + m + k : \/ i \in 1 .. n
                                \/ \E j \in 1 .. m : i = n + j
                                \/ \E j \in 1 .. k : i = n + m + j
  BY <1>1, ThreeParts
<1>4. "InstructionRa" # "BytecodeRa" /\ "InstructionRa" # "RamRa" /\ "BytecodeRa" # "RamRa"
  OBVIOUS
<1>5. ASSUME NEW i \in 1 .. n + m + k, NEW j \in 1 .. n + m + k, s[i] = s[j] PROVE i = j
  <2>1. CASE i \in 1 .. n
    BY <1>2, <1>3, <1>4, <1>5, <2>1, CommIs
  <2>2. CASE \E a \in 1 .. m : i = n + a
    BY <1>2, <1>3, <1>4, <1>5, <2>2, CommIs
  <2>3. CASE \E a \in 1 .. k : i = n + m + a
    BY <1>2, <1>3, <1>4, <1>5, <2>3, CommIs
  <2> QED
    BY <1>3, <2>1, <2>2, <2>3
<1>6. n + m + k \in Nat
  BY <1>1
<1> QED
  BY <1>2, <1>5, <1>6 DEF Different, s

----------------------------------------------------------------------------
(* Claims of a list at one point. *)

\* The claims on polynomials of a list, at one point of one sumcheck.
EachOf(polys, s, p) == Uses(IdsAt(Range(polys), s), p)

\* One of them.
LEMMA InEach ==
    ASSUME NEW polys, NEW s, NEW p, NEW q \in Range(polys)
    PROVE  Use(At(q, s), p) \in EachOf(polys, s, p)
<1> QED
  BY DEF EachOf, Uses, IdsAt

\* What each of them has.
LEMMA EachIs ==
    ASSUME NEW polys, NEW s, NEW p, NEW u \in EachOf(polys, s, p)
    PROVE  u.key.sumcheck = s /\ u.key.poly \in Range(polys) /\ u.point = p
<1>1. PICK q \in Range(polys) : u = Use(At(q, s), p)
  BY DEF EachOf, Uses, IdsAt
<1>2. u.key = At(q, s) /\ u.point = p
  BY <1>1, UseIs
<1> QED
  BY <1>2, AtIs

\* Claims by these sumchecks, on polynomials of the proof.
Sound(U, N, c) ==
    \A u \in U : u.key.sumcheck \in N /\ u.key.poly \in Polynomials(c) /\ u.point \in Points

\* They are claims on polynomials of the proof, at points.
LEMMA SoundEach ==
    ASSUME NEW polys, NEW s, NEW p \in Points, NEW c, Range(polys) \subseteq Polynomials(c)
    PROVE  Sound(EachOf(polys, s, p), {s}, c)
<1> QED
  BY EachIs DEF Sound

\* A single claim on a polynomial of the proof.
LEMMA SoundOne ==
    ASSUME NEW q, NEW s, NEW p \in Points, NEW c, q \in Polynomials(c)
    PROVE  Sound({Use(At(q, s), p)}, {s}, c)
<1>1. Use(At(q, s), p).key = At(q, s) /\ Use(At(q, s), p).point = p
  BY UseIs
<1>2. At(q, s).poly = q /\ At(q, s).sumcheck = s
  BY AtIs
<1> HIDE DEF Use, At
<1> QED
  BY <1>1, <1>2 DEF Sound

\* Two sets of such claims.
LEMMA SoundUnion ==
    ASSUME NEW U, NEW V, NEW N, NEW M, NEW c, Sound(U, N, c), Sound(V, M, c)
    PROVE  Sound(U \cup V, N \cup M, c)
<1> QED
  BY DEF Sound

\* Claims on these polynomials alone.
Of(U, P) == \A u \in U : u.key.poly \in P

\* Claims on different polynomials have different keys.
LEMMA OtherPolys ==
    ASSUME NEW U, NEW V, NEW P, NEW Q, Of(U, P), Of(V, Q), P \cap Q = {}
    PROVE  Apart(U, V)
<1> QED
  BY DEF Of, Apart

\* Claims of different sumchecks have different keys.
LEMMA OtherSumchecks ==
    ASSUME NEW U, NEW V, NEW N, NEW M, NEW c, Sound(U, N, c), Sound(V, M, c), N \cap M = {}
    PROVE  Apart(U, V)
<1> QED
  BY DEF Sound, Apart

\* The polynomials of the lists are polynomials of the proof.
LEMMA PolynomialsHave ==
    ASSUME NEW c \in Configs
    PROVE  /\ Range(R1CSInputs) \subseteq Polynomials(c)
           /\ Range(ProductFactors) \subseteq Polynomials(c)
           /\ Range(TableFlags) \subseteq Polynomials(c)
           /\ Range(RaPolynomials(c)) \subseteq Polynomials(c)
           /\ \A v \in Witnesses : Virt(v) \in Polynomials(c)
           /\ \A v \in VirtualInputs : Virt(v) \in Polynomials(c)
           /\ \A i \in 1 .. VirtualD : VirtAt("InstructionRa", i) \in Polynomials(c)
           /\ Comm("RamInc") \in Polynomials(c) /\ Comm("RdInc") \in Polynomials(c)
           /\ \A kind \in AdviceKinds : Advice(kind) \in Polynomials(c)
           /\ \A f \in InputFlags : InstrFlag(f) \in Polynomials(c)
           /\ InstrFlag("IsNoop") \in Polynomials(c)
<1>1. \A v \in VirtualInputs : Virt(v) \in Range(R1CSInputs)
  BY InputsAre
<1>2. /\ Range(R1CSInputs) \subseteq Polynomials(c)
      /\ Range(ProductFactors) \subseteq Polynomials(c)
      /\ Range(TableFlags) \subseteq Polynomials(c)
      /\ Range(RaPolynomials(c)) \subseteq Polynomials(c)
  BY DEF Polynomials
<1>3. /\ \A v \in Witnesses : Virt(v) \in Polynomials(c)
      /\ \A i \in 1 .. VirtualD : VirtAt("InstructionRa", i) \in Polynomials(c)
      /\ \A kind \in AdviceKinds : Advice(kind) \in Polynomials(c)
  BY DEF Polynomials
<1>4. /\ Comm("RamInc") \in Polynomials(c) /\ Comm("RdInc") \in Polynomials(c)
      /\ \A f \in InputFlags : InstrFlag(f) \in Polynomials(c)
      /\ InstrFlag("IsNoop") \in Polynomials(c)
  BY DEF Polynomials
<1> QED
  BY <1>1, <1>2, <1>3, <1>4

\* The polynomials of the short lists are polynomials of the proof.
LEMMA ShortPolynomials ==
    ASSUME NEW c \in Configs
    PROVE  /\ Range(LookupPolys) \subseteq Polynomials(c)
           /\ Range(ShiftPolys) \subseteq Polynomials(c)
           /\ Range(InputPolys) \subseteq Polynomials(c)
           /\ Range(ValuePolys) \subseteq Polynomials(c)
           /\ Range(AccessPolys) \subseteq Polynomials(c)
           /\ Range(IncPolys) \subseteq Polynomials(c)
<1>1. \A v \in VirtualInputs : Virt(v) \in Polynomials(c)
  BY PolynomialsHave
<1>2. /\ "LookupOutput" \in VirtualInputs /\ "LeftLookupOperand" \in VirtualInputs
      /\ "RightLookupOperand" \in VirtualInputs /\ "LeftInstructionInput" \in VirtualInputs
      /\ "RightInstructionInput" \in VirtualInputs /\ "UnexpandedPC" \in VirtualInputs
      /\ "PC" \in VirtualInputs /\ "Rs1Value" \in VirtualInputs /\ "Rs2Value" \in VirtualInputs
      /\ "Imm" \in VirtualInputs /\ "RdWriteValue" \in VirtualInputs
  BY DEF VirtualInputs
<1>3. CircuitFlags \subseteq Polynomials(c)
  BY PolynomialsHave, InputsAre
<1>4. \A f \in InputFlags : InstrFlag(f) \in Polynomials(c)
  BY PolynomialsHave
<1>5. /\ "LeftOperandIsRs1Value" \in InputFlags /\ "LeftOperandIsPC" \in InputFlags
      /\ "RightOperandIsRs2Value" \in InputFlags /\ "RightOperandIsImm" \in InputFlags
  BY DEF InputFlags
<1>6. /\ InstrFlag("IsNoop") \in Polynomials(c) /\ Comm("RamInc") \in Polynomials(c)
      /\ Comm("RdInc") \in Polynomials(c) /\ \A v \in Witnesses : Virt(v) \in Polynomials(c)
  BY PolynomialsHave
<1>7. /\ "RegistersVal" \in Witnesses /\ "Rs1Ra" \in Witnesses
      /\ "Rs2Ra" \in Witnesses /\ "RdWa" \in Witnesses
  BY DEF Witnesses
<1>8. Range(LookupPolys) \subseteq Polynomials(c)
  BY <1>1, <1>2, ListRanges
<1>9. Range(ShiftPolys) \subseteq Polynomials(c)
  BY <1>1, <1>2, <1>3, <1>6, FlagInputs, ListRanges
<1>10. Range(InputPolys) \subseteq Polynomials(c)
  BY <1>1, <1>2, <1>4, <1>5, ListRanges
<1>11. Range(ValuePolys) \subseteq Polynomials(c)
  BY <1>1, <1>2, ListRanges
<1>12. Range(AccessPolys) \subseteq Polynomials(c)
  BY <1>6, <1>7, ListRanges
<1>13. Range(IncPolys) \subseteq Polynomials(c)
  BY <1>6, ListRanges
<1> QED
  BY <1>8, <1>9, <1>10, <1>11, <1>12, <1>13

----------------------------------------------------------------------------
(* Batches. *)

\* An instance that finds its claims and leaves claims on polynomials of the proof.
Given(x, b, max, T, U, c) ==
    /\ x.uses \subseteq T
    /\ Leaves(x, Slice(x, Challenges(b, max)), U)
    /\ \E N : Sound(U, N, c)

\* Claims on polynomials of the proof can be stored.
LEMMA SoundEnterable ==
    ASSUME NEW c \in Configs, NEW U, NEW N, Sound(U, N, c)
    PROVE  Enterable(U)
<1>1. Polynomials(c) \subseteq {k.poly : k \in OpeningIds}
  BY OpeningIdAssumption
<1>2. Acc!Poly = {k.poly : k \in OpeningIds}
  BY DEF Acc!Poly, PolynomialOf
<1> QED
  BY <1>1, <1>2 DEF Sound, Enterable

\* The instances of a batch, the claims they find and the claims they leave, all with keys of their own.
Givens(T, b, n, batch, max, U, c) ==
    /\ DOMAIN batch = 1 .. n /\ max = MaxRounds(batch)
    /\ \A i \in 1 .. n : Given(batch[i], b, max, T, U[i], c)
    /\ \A i, j \in 1 .. n : i # j => Apart(U[i], U[j])
    /\ \A i \in 1 .. n : Apart(T, U[i])

\* Such a batch, for either side.
LEMMA GivensLeaving ==
    ASSUME NEW who, NEW T, NEW c \in Configs, NEW b, NEW n \in Nat, NEW batch, NEW max, NEW U,
           Givens(T, b, n, batch, max, U, c)
    PROVE  Leaving(who, T, b, n, batch, max, U)
<1>0. /\ DOMAIN batch = 1 .. n /\ max = MaxRounds(batch)
      /\ \A i \in 1 .. n : Given(batch[i], b, max, T, U[i], c)
      /\ \A i, j \in 1 .. n : i # j => Apart(U[i], U[j])
      /\ \A i \in 1 .. n : Apart(T, U[i])
  BY DEF Givens
<1>1. Assumes(batch, n, T)
  BY <1>0 DEF Assumes, Given
<1>2. \A i \in 1 .. n : Says(Out(who, batch[i], Slice(batch[i], Challenges(b, max))), U[i])
  BY <1>0, LeavesOut DEF Given
<1>3. Apart(T, All(U, n))
  BY <1>0 DEF Apart, All
<1>4. \A i \in 1 .. n : Enterable(U[i])
  BY <1>0, SoundEnterable DEF Given
<1>5. Enterable(All(U, n))
  BY <1>4 DEF Enterable, All
<1> QED
  BY <1>0, <1>1, <1>2, <1>3, <1>5 DEF Leaving

\* What such a batch does to a side.
LEMMA BatchRuns ==
    ASSUME NEW who \in Sides, NEW side, NEW T, SideKnows(side, T), NEW c \in Configs, NEW b,
           NEW n \in Nat, NEW batch, NEW max, NEW U, Givens(T, b, n, batch, max, U, c)
    PROVE  Ran(side, Run(who, side, b, batch), T, All(U, n), Keys(BatchUses(batch, n)))
<1>1. Leaving(who, T, b, n, batch, max, U)
  BY GivensLeaving, Zenon
<1> QED
  BY <1>1, BatchKnows, Zenon

\* Having no key in common, the other way round.
LEMMA ApartTurned ==
    ASSUME NEW U, NEW V, Apart(U, V)
    PROVE  Apart(V, U)
<1> QED
  BY DEF Apart

\* The rounds of a batch.
LEMMA MaxRoundsIs ==
    ASSUME NEW n \in Nat \ {0}, NEW batch, DOMAIN batch = 1 .. n, NEW m \in Nat,
           \A i \in 1 .. n : batch[i].rounds \in Nat /\ batch[i].rounds <= m,
           \E i \in 1 .. n : batch[i].rounds = m
    PROVE  MaxRounds(batch) = m
<1>1. /\ MaxRounds(batch) \in Nat
      /\ \A i \in 1 .. n : batch[i].rounds <= MaxRounds(batch)
      /\ \E i \in 1 .. n : batch[i].rounds = MaxRounds(batch)
  BY MaxRoundsFacts
<1>2. PICK i \in 1 .. n : batch[i].rounds = MaxRounds(batch)
  BY <1>1
<1>3. MaxRounds(batch) <= m
  BY <1>2
<1>4. m <= MaxRounds(batch)
  BY <1>1
<1> QED
  BY <1>1, <1>3, <1>4

\* Batches of so many instances.
OneGivens(T, b, x1, max, U1, c) ==
    /\ max = MaxRounds(<<x1>>)
    /\ Given(x1, b, max, T, U1, c) /\ Apart(T, U1)

\* A batch of one.
LEMMA OneRuns ==
    ASSUME NEW who \in Sides, NEW side, NEW T, SideKnows(side, T), NEW c \in Configs, NEW b,
           NEW x1, NEW max, NEW U1,
           OneGivens(T, b, x1, max, U1, c)
    PROVE  Ran(side, Run(who, side, b, <<x1>>), T, U1,
               Keys(x1.uses))
<1> DEFINE batch == <<x1>>
           U == <<U1>>
           n == 1
<1>1. DOMAIN batch = 1 .. n /\ n \in Nat
  OBVIOUS
<1>2. \A i \in 1 .. n : i = 1
  OBVIOUS
<1>3. /\ batch[1] = x1
      /\ U[1] = U1
  OBVIOUS
<1>4. max = MaxRounds(batch)
  BY DEF OneGivens
<1>5. All(U, n) = U1
  <2>1. 1 .. n = {1}
    OBVIOUS
  <2> HIDE DEF U, n
  <2>2. All(U, n) = UNION {U[i] : i \in {1}}
    BY <2>1 DEF All
  <2> QED
    BY <1>3, <2>2
<1>6. BatchUses(batch, n) = x1.uses
  <2>1. 1 .. n = {1}
    OBVIOUS
  <2> HIDE DEF batch, n
  <2>2. BatchUses(batch, n) = UNION {batch[i].uses : i \in {1}}
    BY <2>1 DEF BatchUses
  <2> QED
    BY <1>3, <2>2
<1> HIDE DEF batch, U, n
<1>7. \A i \in 1 .. n : Given(batch[i], b, max, T, U[i], c) /\ Apart(T, U[i])
  BY <1>2, <1>3 DEF OneGivens
<1>8. \A i, j \in 1 .. n : i # j => Apart(U[i], U[j])
  BY <1>2
<1>9. Givens(T, b, n, batch, max, U, c)
  BY <1>1, <1>4, <1>7, <1>8 DEF Givens
<1>10. Ran(side, Run(who, side, b, batch), T, All(U, n), Keys(BatchUses(batch, n)))
  BY <1>1, <1>9, BatchRuns, Zenon
<1> QED
  BY <1>5, <1>6, <1>10, Zenon DEF batch

\* Two instances of a batch and their claims.
TwoGivens(T, b, x1, x2, max, U1, U2, c) ==
    /\ max = MaxRounds(<<x1, x2>>)
    /\ Given(x1, b, max, T, U1, c) /\ Apart(T, U1)
    /\ Given(x2, b, max, T, U2, c) /\ Apart(T, U2)
    /\ Apart(U1, U2)

\* A batch of two.
LEMMA TwoRuns ==
    ASSUME NEW who \in Sides, NEW side, NEW T, SideKnows(side, T), NEW c \in Configs, NEW b,
           NEW x1, NEW x2, NEW max, NEW U1, NEW U2,
           TwoGivens(T, b, x1, x2, max, U1, U2, c)
    PROVE  Ran(side, Run(who, side, b, <<x1, x2>>), T, U1 \cup U2,
               Keys(x1.uses \cup x2.uses))
<1> DEFINE batch == <<x1, x2>>
           U == <<U1, U2>>
           n == 2
<1>1. DOMAIN batch = 1 .. n /\ n \in Nat
  OBVIOUS
<1>2. \A i \in 1 .. n : i = 1 \/ i = 2
  OBVIOUS
<1>3. /\ batch[1] = x1 /\ batch[2] = x2
      /\ U[1] = U1 /\ U[2] = U2
  OBVIOUS
<1>4. max = MaxRounds(batch)
  BY DEF TwoGivens
<1>5. All(U, n) = U1 \cup U2
  <2>1. 1 .. n = {1, 2}
    OBVIOUS
  <2> HIDE DEF U, n
  <2>2. All(U, n) = UNION {U[i] : i \in {1, 2}}
    BY <2>1 DEF All
  <2> QED
    BY <1>3, <2>2
<1>6. BatchUses(batch, n) = x1.uses \cup x2.uses
  <2>1. 1 .. n = {1, 2}
    OBVIOUS
  <2> HIDE DEF batch, n
  <2>2. BatchUses(batch, n) = UNION {batch[i].uses : i \in {1, 2}}
    BY <2>1 DEF BatchUses
  <2> QED
    BY <1>3, <2>2
<1> HIDE DEF batch, U, n
<1>7. \A i \in 1 .. n : Given(batch[i], b, max, T, U[i], c) /\ Apart(T, U[i])
  BY <1>2, <1>3 DEF TwoGivens
<1>8. \A i, j \in 1 .. n : i # j => Apart(U[i], U[j])
  <2>1. /\ Apart(U1, U2) /\ Apart(U2, U1)
    BY ApartTurned DEF TwoGivens
  <2> QED
    BY <1>2, <1>3, <2>1
<1>9. Givens(T, b, n, batch, max, U, c)
  BY <1>1, <1>4, <1>7, <1>8 DEF Givens
<1>10. Ran(side, Run(who, side, b, batch), T, All(U, n), Keys(BatchUses(batch, n)))
  BY <1>1, <1>9, BatchRuns, Zenon
<1> QED
  BY <1>5, <1>6, <1>10, Zenon DEF batch

\* Three of them.
ThreeGivens(T, b, x1, x2, x3, max, U1, U2, U3, c) ==
    /\ max = MaxRounds(<<x1, x2, x3>>)
    /\ Given(x1, b, max, T, U1, c) /\ Apart(T, U1)
    /\ Given(x2, b, max, T, U2, c) /\ Apart(T, U2)
    /\ Given(x3, b, max, T, U3, c) /\ Apart(T, U3)
    /\ Apart(U1, U2) /\ Apart(U1, U3)
    /\ Apart(U2, U3)

\* A batch of three.
LEMMA ThreeRuns ==
    ASSUME NEW who \in Sides, NEW side, NEW T, SideKnows(side, T), NEW c \in Configs, NEW b,
           NEW x1, NEW x2, NEW x3, NEW max, NEW U1, NEW U2, NEW U3,
           ThreeGivens(T, b, x1, x2, x3, max, U1, U2, U3, c)
    PROVE  Ran(side, Run(who, side, b, <<x1, x2, x3>>), T, U1 \cup U2 \cup U3,
               Keys(x1.uses \cup x2.uses \cup x3.uses))
<1> DEFINE batch == <<x1, x2, x3>>
           U == <<U1, U2, U3>>
           n == 3
<1>1. DOMAIN batch = 1 .. n /\ n \in Nat
  OBVIOUS
<1>2. \A i \in 1 .. n : i = 1 \/ i = 2 \/ i = 3
  OBVIOUS
<1>3. /\ batch[1] = x1 /\ batch[2] = x2 /\ batch[3] = x3
      /\ U[1] = U1 /\ U[2] = U2 /\ U[3] = U3
  OBVIOUS
<1>4. max = MaxRounds(batch)
  BY DEF ThreeGivens
<1>5. All(U, n) = U1 \cup U2 \cup U3
  <2>1. 1 .. n = {1, 2, 3}
    OBVIOUS
  <2> HIDE DEF U, n
  <2>2. All(U, n) = UNION {U[i] : i \in {1, 2, 3}}
    BY <2>1 DEF All
  <2> QED
    BY <1>3, <2>2
<1>6. BatchUses(batch, n) = x1.uses \cup x2.uses \cup x3.uses
  <2>1. 1 .. n = {1, 2, 3}
    OBVIOUS
  <2> HIDE DEF batch, n
  <2>2. BatchUses(batch, n) = UNION {batch[i].uses : i \in {1, 2, 3}}
    BY <2>1 DEF BatchUses
  <2> QED
    BY <1>3, <2>2
<1> HIDE DEF batch, U, n
<1>7. \A i \in 1 .. n : Given(batch[i], b, max, T, U[i], c) /\ Apart(T, U[i])
  BY <1>2, <1>3 DEF ThreeGivens
<1>8. \A i, j \in 1 .. n : i # j => Apart(U[i], U[j])
  <2>1. /\ Apart(U1, U2) /\ Apart(U2, U1)
        /\ Apart(U1, U3) /\ Apart(U3, U1)
        /\ Apart(U2, U3) /\ Apart(U3, U2)
    BY ApartTurned DEF ThreeGivens
  <2> QED
    BY <1>2, <1>3, <2>1
<1>9. Givens(T, b, n, batch, max, U, c)
  BY <1>1, <1>4, <1>7, <1>8 DEF Givens
<1>10. Ran(side, Run(who, side, b, batch), T, All(U, n), Keys(BatchUses(batch, n)))
  BY <1>1, <1>9, BatchRuns, Zenon
<1> QED
  BY <1>5, <1>6, <1>10, Zenon DEF batch

\* Five of them.
FiveGivens(T, b, x1, x2, x3, x4, x5, max, U1, U2, U3, U4, U5, c) ==
    /\ max = MaxRounds(<<x1, x2, x3, x4, x5>>)
    /\ Given(x1, b, max, T, U1, c) /\ Apart(T, U1)
    /\ Given(x2, b, max, T, U2, c) /\ Apart(T, U2)
    /\ Given(x3, b, max, T, U3, c) /\ Apart(T, U3)
    /\ Given(x4, b, max, T, U4, c) /\ Apart(T, U4)
    /\ Given(x5, b, max, T, U5, c) /\ Apart(T, U5)
    /\ Apart(U1, U2) /\ Apart(U1, U3) /\ Apart(U1, U4) /\ Apart(U1, U5)
    /\ Apart(U2, U3) /\ Apart(U2, U4) /\ Apart(U2, U5)
    /\ Apart(U3, U4) /\ Apart(U3, U5)
    /\ Apart(U4, U5)

\* A batch of five.
LEMMA FiveRuns ==
    ASSUME NEW who \in Sides, NEW side, NEW T, SideKnows(side, T), NEW c \in Configs, NEW b,
           NEW x1, NEW x2, NEW x3, NEW x4, NEW x5, NEW max, NEW U1, NEW U2, NEW U3, NEW U4, NEW U5,
           FiveGivens(T, b, x1, x2, x3, x4, x5, max, U1, U2, U3, U4, U5, c)
    PROVE  Ran(side, Run(who, side, b, <<x1, x2, x3, x4, x5>>), T, U1 \cup U2 \cup U3 \cup U4 \cup U5,
               Keys(x1.uses \cup x2.uses \cup x3.uses \cup x4.uses \cup x5.uses))
<1> DEFINE batch == <<x1, x2, x3, x4, x5>>
           U == <<U1, U2, U3, U4, U5>>
           n == 5
<1>1. DOMAIN batch = 1 .. n /\ n \in Nat
  OBVIOUS
<1>2. \A i \in 1 .. n : i = 1 \/ i = 2 \/ i = 3 \/ i = 4 \/ i = 5
  OBVIOUS
<1>3. /\ batch[1] = x1 /\ batch[2] = x2 /\ batch[3] = x3 /\ batch[4] = x4 /\ batch[5] = x5
      /\ U[1] = U1 /\ U[2] = U2 /\ U[3] = U3 /\ U[4] = U4 /\ U[5] = U5
  OBVIOUS
<1>4. max = MaxRounds(batch)
  BY DEF FiveGivens
<1>5. All(U, n) = U1 \cup U2 \cup U3 \cup U4 \cup U5
  <2>1. 1 .. n = {1, 2, 3, 4, 5}
    OBVIOUS
  <2> HIDE DEF U, n
  <2>2. All(U, n) = UNION {U[i] : i \in {1, 2, 3, 4, 5}}
    BY <2>1 DEF All
  <2> QED
    BY <1>3, <2>2
<1>6. BatchUses(batch, n) = x1.uses \cup x2.uses \cup x3.uses \cup x4.uses \cup x5.uses
  <2>1. 1 .. n = {1, 2, 3, 4, 5}
    OBVIOUS
  <2> HIDE DEF batch, n
  <2>2. BatchUses(batch, n) = UNION {batch[i].uses : i \in {1, 2, 3, 4, 5}}
    BY <2>1 DEF BatchUses
  <2> QED
    BY <1>3, <2>2
<1> HIDE DEF batch, U, n
<1>7. \A i \in 1 .. n : Given(batch[i], b, max, T, U[i], c) /\ Apart(T, U[i])
  BY <1>2, <1>3 DEF FiveGivens
<1>8. \A i, j \in 1 .. n : i # j => Apart(U[i], U[j])
  <2>1. /\ Apart(U1, U2) /\ Apart(U2, U1)
        /\ Apart(U1, U3) /\ Apart(U3, U1)
        /\ Apart(U1, U4) /\ Apart(U4, U1)
        /\ Apart(U1, U5) /\ Apart(U5, U1)
        /\ Apart(U2, U3) /\ Apart(U3, U2)
        /\ Apart(U2, U4) /\ Apart(U4, U2)
        /\ Apart(U2, U5) /\ Apart(U5, U2)
        /\ Apart(U3, U4) /\ Apart(U4, U3)
        /\ Apart(U3, U5) /\ Apart(U5, U3)
        /\ Apart(U4, U5) /\ Apart(U5, U4)
    BY ApartTurned DEF FiveGivens
  <2> QED
    BY <1>2, <1>3, <2>1
<1>9. Givens(T, b, n, batch, max, U, c)
  BY <1>1, <1>4, <1>7, <1>8 DEF Givens
<1>10. Ran(side, Run(who, side, b, batch), T, All(U, n), Keys(BatchUses(batch, n)))
  BY <1>1, <1>9, BatchRuns, Zenon
<1> QED
  BY <1>5, <1>6, <1>10, Zenon DEF batch

=============================================================================
