---------------------------- MODULE SequenceFacts ----------------------------
(***************************************************************************)
(* Facts about naturals and sequences that the proofs of several           *)
(* components rest on: induction over a set of naturals, prefixes, and     *)
(* what FlattenSeq of the community modules returns.                       *)
(***************************************************************************)
EXTENDS Integers, Sequences, SequencesExt, TLAPS, WellFoundedInduction, SequenceTheorems

----------------------------------------------------------------------------
(* Induction over a set of naturals. *)

\* A nonempty set of naturals has a least element.
LEMMA LeastElement ==
    ASSUME NEW T \in SUBSET Nat, T # {}
    PROVE  \E x \in T : \A y \in T : x <= y
<1>1. PICK x \in T : \A y \in T : ~(<<y, x>> \in OpToRel(<, Nat))
  BY NatLessThanWellFounded, WFMin, Zenon
<1>2. \A y \in T : ~(y < x)
  BY <1>1 DEF OpToRel
<1> QED
  BY <1>2

\* A set of naturals that has 0 and every successor has all of them.
LEMMA NatSetInduction ==
    ASSUME NEW S, 0 \in S, \A n \in Nat : n \in S => n + 1 \in S
    PROVE  \A n \in Nat : n \in S
<1> DEFINE T == {n \in Nat : n \notin S}
<1>1. SUFFICES ASSUME T # {} PROVE FALSE
  OBVIOUS
<1>2. PICK x \in T : \A y \in T : x <= y
  BY <1>1, LeastElement
<1>3. x # 0 /\ x - 1 \in Nat /\ x - 1 \notin T
  BY <1>2
<1> QED
  BY <1>3

----------------------------------------------------------------------------
(* Prefixes and ranges. *)

\* A sequence is a prefix of itself and of what continues it.
LEMMA PrefixFacts ==
    ASSUME NEW S, NEW a \in Seq(S), NEW b \in Seq(S)
    PROVE  /\ IsPrefix(a, a)
           /\ IsPrefix(a, a \o b)
           /\ IsPrefix(<<>>, a)
BY DEF IsPrefix

\* A prefix stays one when the sequence grows.
LEMMA PrefixConcat ==
    ASSUME NEW S, NEW a \in Seq(S), NEW b \in Seq(S), NEW c \in Seq(S), IsPrefix(a, b)
    PROVE  IsPrefix(a, b \o c)
BY SMTT(30) DEF IsPrefix

\* A sequence cut in two.
LEMMA CutInTwo ==
    ASSUME NEW S, NEW a \in Seq(S), NEW n \in 0 .. Len(a)
    PROVE  /\ SubSeq(a, 1, n) \in Seq(S) /\ SubSeq(a, n + 1, Len(a)) \in Seq(S)
           /\ SubSeq(a, 1, n) \o SubSeq(a, n + 1, Len(a)) = a
<1>1. 1 \in 1 .. Len(a) + 1 /\ n \in 1 - 1 .. Len(a) /\ Len(a) \in n .. Len(a)
  BY LenProperties
<1>2. SubSeq(a, 1, n) \o SubSeq(a, n + 1, Len(a)) = SubSeq(a, 1, Len(a))
  BY <1>1, ConcatAdjacentSubSeq
<1>3. SubSeq(a, 1, Len(a)) = a
  BY SubSeqFull
<1>4. SubSeq(a, 1, n) \in Seq(S) /\ SubSeq(a, n + 1, Len(a)) \in Seq(S)
  BY LenProperties
<1> QED
  BY <1>2, <1>3, <1>4

\* The second of two sequences, after the first.
LEMMA ConcatAt ==
    ASSUME NEW S, NEW a \in Seq(S), NEW b \in Seq(S), NEW j \in 1 .. Len(b)
    PROVE  (a \o b)[Len(a) + j] = b[j]
OBVIOUS

\* The first of a list and the others.
LEMMA HeadAndTail ==
    ASSUME NEW S, NEW a \in Seq(S), a # <<>>
    PROVE  /\ Head(a) \in S /\ Tail(a) \in Seq(S) /\ Len(Tail(a)) = Len(a) - 1
           /\ Head(a) = a[1] /\ \A i \in 1 .. Len(Tail(a)) : Tail(a)[i] = a[i + 1]
           /\ a = <<Head(a)>> \o Tail(a)
<1>1. /\ Head(a) \in S /\ Tail(a) \in Seq(S) /\ Len(Tail(a)) = Len(a) - 1 /\ Head(a) = a[1]
      /\ \A i \in 1 .. Len(Tail(a)) : Tail(a)[i] = a[i + 1]
      /\ Len(a) \in Nat \ {0}
  BY HeadTailProperties, EmptySeq
<1> DEFINE h == Head(a)
           t == Tail(a)
<1> HIDE DEF h, t
<1>2. <<h>> \o t \in Seq(S) /\ Len(<<h>> \o t) = Len(a)
  BY <1>1 DEF h, t
<1>3. ASSUME NEW i \in 1 .. Len(a) PROVE a[i] = (<<h>> \o t)[i]
  <2>1. CASE i = 1
    <3>1. t \in Seq(S) /\ h \in S /\ a[1] = h
      BY <1>1 DEF h, t
    <3>2. (<<h>> \o t)[1] = h
      BY <3>1
    <3> QED
      BY <2>1, <3>1, <3>2
  <2>2. CASE i \in 2 .. Len(a)
    <3>1. i - 1 \in 1 .. Len(t) /\ (i - 1) + 1 = i /\ t \in Seq(S) /\ h \in S
      BY <1>1, <2>2 DEF h, t
    <3>2. t[i - 1] = a[i]
      BY <1>1, <3>1 DEF t
    <3>3. <<h>> \in Seq(S) /\ Len(<<h>>) + (i - 1) = i
      BY <2>2, <3>1
    <3>4. (<<h>> \o t)[Len(<<h>>) + (i - 1)] = t[i - 1]
      <4> DEFINE g == <<h>>
                 j == i - 1
      <4>1. g \in Seq(S) /\ j \in 1 .. Len(t)
        BY <3>1, <3>3
      <4> HIDE DEF g, j
      <4>2. (g \o t)[Len(g) + j] = t[j]
        BY <3>1, <4>1, ConcatAt
      <4> QED
        BY <4>2 DEF g, j
    <3> QED
      BY <3>2, <3>3, <3>4
  <2>3. i = 1 \/ i \in 2 .. Len(a)
    BY <1>1
  <2> QED
    BY <2>1, <2>2, <2>3
<1>4. a = <<h>> \o t
  BY <1>2, <1>3, SeqEqual
<1> QED
  BY <1>1, <1>4 DEF h, t

\* The elements of a sequence that grows.
LEMMA RangeFacts ==
    ASSUME NEW S, NEW a \in Seq(S), NEW b \in Seq(S), NEW x \in S
    PROVE  /\ Range(a \o b) = Range(a) \cup Range(b)
           /\ Range(Append(a, x)) = Range(a) \cup {x}
           /\ Range(<<>>) = {}
<1>1. Range(a \o b) \subseteq Range(a) \cup Range(b)
  BY DEF Range
<1>2. Range(a) \subseteq Range(a \o b)
  <2>1. ASSUME NEW i \in DOMAIN a PROVE a[i] \in Range(a \o b)
    <3>1. i \in DOMAIN (a \o b) /\ (a \o b)[i] = a[i]
      BY <2>1
    <3> QED
      BY <3>1 DEF Range
  <2> QED
    BY <2>1 DEF Range
<1>3. Range(b) \subseteq Range(a \o b)
  <2>1. ASSUME NEW i \in DOMAIN b PROVE b[i] \in Range(a \o b)
    <3>1. Len(a) + i \in DOMAIN (a \o b) /\ (a \o b)[Len(a) + i] = b[i]
      BY <2>1
    <3> QED
      BY <3>1 DEF Range
  <2> QED
    BY <2>1 DEF Range
<1>4. Range(Append(a, x)) = Range(a) \cup {x}
  <2>1. Range(Append(a, x)) \subseteq Range(a) \cup {x}
    BY DEF Range
  <2>2. ASSUME NEW i \in DOMAIN a PROVE a[i] \in Range(Append(a, x))
    <3>1. i \in DOMAIN Append(a, x) /\ Append(a, x)[i] = a[i]
      BY <2>2
    <3> QED
      BY <3>1 DEF Range
  <2>3. x \in Range(Append(a, x))
    <3>1. Len(a) + 1 \in DOMAIN Append(a, x) /\ Append(a, x)[Len(a) + 1] = x
      OBVIOUS
    <3> QED
      BY <3>1 DEF Range
  <2> QED
    BY <2>1, <2>2, <2>3 DEF Range
<1>5. Range(<<>>) = {}
  BY DEF Range
<1> QED
  BY <1>1, <1>2, <1>3, <1>4, <1>5

----------------------------------------------------------------------------
(* FlattenSeq. *)

\* The recursion of FlattenSeq over the first n sequences.
Flattening(ss, n, f) == f = [i \in 1 .. n |-> IF i = 1 THEN ss[i] ELSE f[i - 1] \o ss[i]]

\* Some function satisfies it.
LEMMA FlatteningExists == \A ss : \A n \in Nat : \E f : Flattening(ss, n, f)
<1> SUFFICES ASSUME NEW ss PROVE \A n \in Nat : \E f : Flattening(ss, n, f)
  OBVIOUS
<1> DEFINE S == {n \in Nat : \E f : Flattening(ss, n, f)}
<1>1. 0 \in S
  <2>1. Flattening(ss, 0, [i \in 1 .. 0 |-> <<>>])
    BY DEF Flattening
  <2> QED
    BY <2>1
<1>2. ASSUME NEW n \in Nat, n \in S PROVE n + 1 \in S
  <2>1. PICK f : Flattening(ss, n, f)
    BY <1>2
  <2> DEFINE g == [i \in 1 .. n + 1 |->
                      IF i \in 1 .. n THEN f[i] ELSE IF i = 1 THEN ss[i] ELSE f[i - 1] \o ss[i]]
             h == [i \in 1 .. n + 1 |-> IF i = 1 THEN ss[i] ELSE g[i - 1] \o ss[i]]
  <2>2. ASSUME NEW i \in 1 .. n + 1 PROVE g[i] = h[i]
    <3>1. CASE i \in 1 .. n
      <4>1. f[i] = IF i = 1 THEN ss[i] ELSE f[i - 1] \o ss[i]
        BY <2>1, <3>1 DEF Flattening
      <4>2. i # 1 => g[i - 1] = f[i - 1]
        BY <3>1
      <4> QED
        BY <3>1, <4>1, <4>2
    <3>2. CASE i = n + 1
      <4>1. i # 1 => g[i - 1] = f[i - 1]
        BY <3>2
      <4> QED
        BY <3>2, <4>1
    <3> QED
      BY <3>1, <3>2
  <2>3. g = h
    BY <2>2, ZenonT(40)
  <2>4. Flattening(ss, n + 1, g)
    BY <2>3 DEF Flattening
  <2> HIDE DEF g
  <2> QED
    BY <2>4
<1> HIDE DEF S
<1>3. \A n \in Nat : n \in S
  BY <1>1, <1>2, NatSetInduction
<1> QED
  BY <1>3 DEF S

\* FlattenSeq is its last value.
LEMMA FlattenIsLast ==
    ASSUME NEW T, NEW ss \in Seq(T), ss # <<>>
    PROVE  \E f : Flattening(ss, Len(ss), f) /\ FlattenSeq(ss) = f[Len(ss)]
<1> DEFINE E(f) == [i \in 1 .. Len(ss) |-> IF i = 1 THEN ss[i] ELSE f[i - 1] \o ss[i]]
           flatten == CHOOSE f : f = E(f)
<1>1. Len(ss) \in Nat /\ Len(ss) # 0
  OBVIOUS
<1>2. FlattenSeq(ss) = flatten[Len(ss)]
  BY <1>1 DEF FlattenSeq
<1>3. \E f : f = E(f)
  BY <1>1, FlatteningExists DEF Flattening
<1>4. flatten = E(flatten)
  BY <1>3
<1> HIDE DEF flatten
<1> QED
  BY <1>2, <1>4 DEF Flattening

\* Flattening nothing.
LEMMA FlattenEmpty == FlattenSeq(<<>>) = <<>>
BY DEF FlattenSeq

\* What one more sequence adds.
LEMMA FlattenAppend ==
    ASSUME NEW S, NEW ss \in Seq(Seq(S)), NEW x \in Seq(S)
    PROVE  FlattenSeq(Append(ss, x)) = FlattenSeq(ss) \o x
<1> DEFINE n == Len(ss)
           tt == Append(ss, x)
<1>1. /\ n \in Nat /\ tt \in Seq(Seq(S)) /\ tt # <<>> /\ Len(tt) = n + 1 /\ tt[n + 1] = x
      /\ \A i \in 1 .. n : tt[i] = ss[i]
  BY AppendProperties, LenProperties
<1>2. FlattenSeq(<<>>) = <<>>
  BY FlattenEmpty
<1> HIDE DEF tt
<1>3. PICK g : Flattening(tt, n + 1, g) /\ FlattenSeq(tt) = g[n + 1]
  <2>1. \E g : Flattening(tt, Len(tt), g) /\ FlattenSeq(tt) = g[Len(tt)]
    BY <1>1, FlattenIsLast, Zenon
  <2> QED
    BY <1>1, <2>1
<1>4. g[n + 1] = IF n + 1 = 1 THEN x ELSE g[n] \o x
  <2>1. n + 1 \in 1 .. n + 1 /\ (n + 1) - 1 = n
    BY <1>1
  <2>2. g[n + 1] = IF n + 1 = 1 THEN tt[n + 1] ELSE g[(n + 1) - 1] \o tt[n + 1]
    BY <1>3, <2>1 DEF Flattening
  <2> QED
    BY <1>1, <2>1, <2>2
<1>5. CASE ss = <<>>
  <2>1. FlattenSeq(tt) = x /\ <<>> \o x = x
    BY <1>3, <1>4, <1>5
  <2> QED
    BY <1>2, <1>5, <2>1 DEF tt
<1>6. CASE ss # <<>>
  <2>1. n # 0
    BY <1>6
  <2>2. PICK f : Flattening(ss, n, f) /\ FlattenSeq(ss) = f[n]
    BY <1>6, FlattenIsLast
  <2> DEFINE P == {i \in Nat : i \in 1 .. n => f[i] = g[i]}
  <2>3. 0 \in P
    OBVIOUS
  <2>4. ASSUME NEW i \in Nat, i \in P PROVE i + 1 \in P
    <3>1. CASE i + 1 \in 1 .. n
      <4>0. i + 1 \in 1 .. n + 1 /\ (i + 1) - 1 = i
        BY <1>1, <3>1
      <4>1. /\ f[i + 1] = IF i + 1 = 1 THEN ss[i + 1] ELSE f[(i + 1) - 1] \o ss[i + 1]
            /\ g[i + 1] = IF i + 1 = 1 THEN tt[i + 1] ELSE g[(i + 1) - 1] \o tt[i + 1]
        BY <1>3, <2>2, <3>1, <4>0 DEF Flattening
      <4>2. i + 1 = 1 \/ f[i] = g[i]
        BY <2>4, <3>1
      <4> QED
        BY <1>1, <3>1, <4>0, <4>1, <4>2
    <3> QED
      BY <3>1
  <2> HIDE DEF P
  <2>5. n \in P
    BY <1>1, <2>3, <2>4, NatSetInduction
  <2>6. f[n] = g[n]
    BY <1>1, <2>1, <2>5 DEF P
  <2> QED
    BY <1>1, <1>2, <1>3, <1>4, <2>1, <2>2, <2>6 DEF tt
<1> QED
  BY <1>5, <1>6

\* The first n + 1 elements are the first n and one more.
LEMMA OneMore ==
    ASSUME NEW T, NEW ss \in Seq(T), NEW n \in Nat, n < Len(ss)
    PROVE  /\ SubSeq(ss, 1, n) \in Seq(T)
           /\ Len(SubSeq(ss, 1, n)) = n
           /\ ss[n + 1] \in T
           /\ SubSeq(ss, 1, n + 1) = Append(SubSeq(ss, 1, n), ss[n + 1])
<1>1. SubSeq(ss, 1, n) \in Seq(T) /\ Len(SubSeq(ss, 1, n)) = n /\ ss[n + 1] \in T
  OBVIOUS
<1>2. SubSeq(ss, 1, n + 1) \in Seq(T) /\ Len(SubSeq(ss, 1, n + 1)) = n + 1
  OBVIOUS
<1>3. ASSUME NEW i \in 1 .. n + 1
      PROVE  SubSeq(ss, 1, n + 1)[i] = Append(SubSeq(ss, 1, n), ss[n + 1])[i]
  <2>1. CASE i \in 1 .. n
    BY <1>1, <2>1
  <2>2. CASE i = n + 1
    BY <1>1, <2>2
  <2> QED
    BY <2>1, <2>2
<1>4. Append(SubSeq(ss, 1, n), ss[n + 1]) \in Seq(T) /\ Len(Append(SubSeq(ss, 1, n), ss[n + 1])) = n + 1
  BY <1>1
<1>5. SubSeq(ss, 1, n + 1) = Append(SubSeq(ss, 1, n), ss[n + 1])
  BY <1>2, <1>3, <1>4, SeqEqual
<1> QED
  BY <1>1, <1>5

\* The first n sequences, flattened.
FlattenTo(ss, n) == FlattenSeq(SubSeq(ss, 1, n))

\* One sequence at a time.
LEMMA FlattenToFacts ==
    ASSUME NEW S, NEW ss \in Seq(Seq(S))
    PROVE  /\ Len(ss) \in Nat
           /\ FlattenTo(ss, 0) = <<>>
           /\ FlattenTo(ss, Len(ss)) = FlattenSeq(ss)
           /\ \A n \in Nat : n < Len(ss) =>
                 ss[n + 1] \in Seq(S) /\ FlattenTo(ss, n + 1) = FlattenTo(ss, n) \o ss[n + 1]
<1>1. SubSeq(ss, 1, 0) = <<>> /\ SubSeq(ss, 1, Len(ss)) = ss /\ <<>> \in Seq(S) /\ Len(ss) \in Nat
  BY SubSeqEmpty, SubSeqFull, LenProperties
<1>2. FlattenSeq(<<>>) = <<>>
  BY FlattenEmpty
<1>3. ASSUME NEW n \in Nat, n < Len(ss)
      PROVE  ss[n + 1] \in Seq(S) /\ FlattenTo(ss, n + 1) = FlattenTo(ss, n) \o ss[n + 1]
  <2> DEFINE u == SubSeq(ss, 1, n)
             v == SubSeq(ss, 1, n + 1)
             x == ss[n + 1]
  <2>1. u \in Seq(Seq(S)) /\ x \in Seq(S) /\ v = Append(u, x)
    BY <1>3, OneMore
  <2> HIDE DEF u, v, x
  <2>2. FlattenSeq(v) = FlattenSeq(u) \o x
    BY <2>1, FlattenAppend
  <2> QED
    BY <2>1, <2>2, Zenon DEF u, v, x, FlattenTo
<1> QED
  BY <1>1, <1>2, <1>3, Zenon DEF FlattenTo

\* Flattening gives a sequence of the items.
LEMMA FlattenType ==
    ASSUME NEW S, NEW ss \in Seq(Seq(S))
    PROVE  FlattenSeq(ss) \in Seq(S)
<1> DEFINE P == {n \in Nat : n <= Len(ss) => FlattenTo(ss, n) \in Seq(S)}
<1>0. Len(ss) \in Nat /\ FlattenTo(ss, 0) = <<>>
  BY FlattenToFacts
<1>1. 0 \in P
  <2>1. FlattenTo(ss, 0) \in Seq(S)
    BY <1>0, EmptySeq, Zenon
  <2> QED
    BY <2>1
<1>2. ASSUME NEW n \in Nat, n \in P PROVE n + 1 \in P
  <2>1. CASE n < Len(ss)
    <3>1. ss[n + 1] \in Seq(S) /\ FlattenTo(ss, n + 1) = FlattenTo(ss, n) \o ss[n + 1]
      BY <2>1, FlattenToFacts
    <3>2. FlattenTo(ss, n) \in Seq(S)
      BY <1>0, <1>2, <2>1
    <3>3. FlattenTo(ss, n + 1) \in Seq(S)
      BY <3>1, <3>2, ConcatProperties
    <3> QED
      BY <3>3
  <2> QED
    BY <1>0, <2>1
<1>3. Len(ss) \in P
  <2> HIDE DEF P
  <2> QED BY <1>0, <1>1, <1>2, NatSetInduction
<1> QED
  BY <1>0, <1>3, FlattenToFacts

\* Flattening two lists after each other.
LEMMA FlattenConcat ==
    ASSUME NEW S, NEW ss \in Seq(Seq(S)), NEW tt \in Seq(Seq(S))
    PROVE  FlattenSeq(ss \o tt) = FlattenSeq(ss) \o FlattenSeq(tt)
<1> DEFINE uu == ss \o tt
           m == Len(ss)
           P == {n \in Nat : n <= Len(tt) => FlattenTo(uu, m + n) = FlattenSeq(ss) \o FlattenTo(tt, n)}
<1>1. FlattenSeq(ss) \in Seq(S) /\ m \in Nat /\ Len(tt) \in Nat
  BY FlattenType, LenProperties
<1>2. uu \in Seq(Seq(S)) /\ Len(uu) = m + Len(tt)
  BY ConcatProperties
<1>3. \A n \in Nat : n < Len(tt) => uu[m + n + 1] = tt[n + 1]
  BY <1>1
<1>4. SubSeq(uu, 1, m) = ss
  <2>1. SubSeq(uu, 1, m) \in Seq(Seq(S)) /\ Len(SubSeq(uu, 1, m)) = m
    BY <1>1, <1>2
  <2>2. \A i \in 1 .. m : SubSeq(uu, 1, m)[i] = ss[i]
    BY <1>1
  <2> QED
    BY <2>1, <2>2, SeqEqual
<1> HIDE DEF uu
<1>5. 0 \in P
  <2>1. FlattenTo(uu, m) = FlattenSeq(ss)
    BY <1>4 DEF FlattenTo
  <2>2. FlattenTo(tt, 0) = <<>> /\ FlattenSeq(ss) \o <<>> = FlattenSeq(ss) /\ m + 0 = m
    BY <1>1, FlattenToFacts, ConcatEmptySeq
  <2> QED
    BY <2>1, <2>2
<1>6. ASSUME NEW n \in Nat, n \in P PROVE n + 1 \in P
  <2>1. CASE n < Len(tt)
    <3> DEFINE x == tt[n + 1]
    <3>1. x \in Seq(S) /\ FlattenTo(tt, n + 1) = FlattenTo(tt, n) \o x
      BY <2>1, FlattenToFacts
    <3>2. FlattenTo(uu, m + n) = FlattenSeq(ss) \o FlattenTo(tt, n)
      BY <1>1, <1>6, <2>1
    <3>3. FlattenTo(uu, (m + n) + 1) = FlattenTo(uu, m + n) \o uu[(m + n) + 1]
      <4>1. \A k \in Nat : k < Len(uu) => FlattenTo(uu, k + 1) = FlattenTo(uu, k) \o uu[k + 1]
        BY <1>2, FlattenToFacts
      <4>2. m + n \in Nat /\ m + n < Len(uu)
        BY <1>1, <1>2, <2>1
      <4> QED
        BY <4>1, <4>2, Zenon
    <3>4. uu[(m + n) + 1] = x /\ (m + n) + 1 = m + (n + 1)
      BY <1>1, <1>3, <2>1
    <3>5. FlattenTo(tt, n) \in Seq(S)
      <4>1. SubSeq(tt, 1, n) \in Seq(Seq(S))
        BY <2>1, OneMore
      <4> QED
        BY <4>1, FlattenType DEF FlattenTo
    <3> HIDE DEF x
    <3>6. (FlattenSeq(ss) \o FlattenTo(tt, n)) \o x = FlattenSeq(ss) \o (FlattenTo(tt, n) \o x)
      <4> DEFINE a == FlattenSeq(ss)
                 b == FlattenTo(tt, n)
      <4>1. a \in Seq(S) /\ b \in Seq(S) /\ x \in Seq(S)
        BY <1>1, <3>1, <3>5
      <4> HIDE DEF a, b
      <4>2. (a \o b) \o x = a \o (b \o x)
        BY <4>1, ConcatAssociative, SMTT(30)
      <4> QED
        BY <4>2 DEF a, b
    <3>7. FlattenTo(uu, m + (n + 1)) = FlattenSeq(ss) \o FlattenTo(tt, n + 1)
      BY <3>1, <3>2, <3>3, <3>4, <3>6, Zenon
    <3> QED
      BY <3>7
  <2> QED
    BY <1>1, <2>1
<1>7. Len(tt) \in P
  <2> HIDE DEF P
  <2> QED BY <1>1, <1>5, <1>6, NatSetInduction
<1>8. FlattenTo(uu, Len(uu)) = FlattenSeq(uu) /\ FlattenTo(tt, Len(tt)) = FlattenSeq(tt)
  BY <1>2, FlattenToFacts
<1> QED
  BY <1>1, <1>2, <1>7, <1>8 DEF uu

\* A list of one sequence.
LEMMA FlattenOne ==
    ASSUME NEW S, NEW x \in Seq(S)
    PROVE  FlattenSeq(<<x>>) = x
<1>1. <<>> \in Seq(Seq(S)) /\ Append(<<>>, x) = <<x>> /\ <<>> \o x = x
  BY ConcatEmptySeq
<1> QED
  BY <1>1, FlattenEmpty, FlattenAppend

\* Sequences of at most b items make at most b for each.
LEMMA FlattenLen ==
    ASSUME NEW S, NEW ss \in Seq(Seq(S)), NEW b \in Nat, \A i \in 1 .. Len(ss) : Len(ss[i]) <= b
    PROVE  Len(FlattenSeq(ss)) <= b * Len(ss)
<1> DEFINE P == {n \in Nat : n <= Len(ss) => Len(FlattenTo(ss, n)) <= b * n}
<1>0. Len(ss) \in Nat
  BY LenProperties
<1>1. 0 \in P
  BY FlattenToFacts
<1>2. ASSUME NEW n \in Nat, n \in P PROVE n + 1 \in P
  <2>1. CASE n < Len(ss)
    <3> DEFINE x == ss[n + 1]
               u == FlattenTo(ss, n)
    <3>1. x \in Seq(S) /\ FlattenTo(ss, n + 1) = u \o x
      BY <2>1, FlattenToFacts
    <3>2. Len(x) <= b /\ Len(u) <= b * n
      BY <1>0, <1>2, <2>1
    <3>3. u \in Seq(S)
      <4>1. SubSeq(ss, 1, n) \in Seq(Seq(S))
        BY <2>1, OneMore
      <4> QED
        BY <4>1, FlattenType DEF FlattenTo
    <3> HIDE DEF u, x
    <3>4. Len(FlattenTo(ss, n + 1)) = Len(u) + Len(x) /\ Len(u) \in Nat /\ Len(x) \in Nat
      BY <3>1, <3>3
    <3>5. b * (n + 1) = b * n + b /\ b * n \in Nat
      OBVIOUS
    <3>6. Len(FlattenTo(ss, n + 1)) <= b * (n + 1)
      BY <3>2, <3>4, <3>5
    <3> QED
      BY <3>6
  <2> QED
    BY <1>0, <2>1
<1>3. Len(ss) \in P
  <2> HIDE DEF P
  <2> QED BY <1>0, <1>1, <1>2, NatSetInduction
<1> QED
  BY <1>0, <1>3, FlattenToFacts

=============================================================================
