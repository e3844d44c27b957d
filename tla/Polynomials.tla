---------------------------- MODULE Polynomials ----------------------------
(***************************************************************************)
(* The field of the proof system, vectors of field elements, and           *)
(* multilinear polynomials, given by their evaluations on the hypercube.   *)
(*                                                                         *)
(* The field is as small as TLC's integers allow: the square of an element *)
(* is below 2^31.  Challenges are elements chosen by an instance; the      *)
(* checks compare polynomials at these points.                             *)
(***************************************************************************)
EXTENDS Integers, Sequences

CONSTANT FieldSize

ASSUME FieldAssumption ==
    /\ FieldSize \in 3..46337
    /\ \A d \in 2..215 : d < FieldSize => FieldSize % d # 0

a ++ b == (a + b) % FieldSize

a -- b == (a - b) % FieldSize

a ** b == (a * b) % FieldSize

\* 2^n for the powers an index of at most 64 bits needs.
TwoTo[n \in 0..64] == IF n = 0 THEN 1 ELSE 2 ** TwoTo[n - 1]

\* The sum and the product of term(i) for i in from..to, in this order.
SumOf(from, to, term(_)) ==
    LET sum[i \in (from - 1)..to] == IF i < from THEN 0 ELSE term(i) ++ sum[i - 1]
    IN sum[to]

\* The same for many terms, in blocks.
LongSumOf(from, to, term(_)) ==
    LET last(b) == from + 32 * b + 31
    IN  SumOf(0, (to - from) \div 32,
              LAMBDA b : SumOf(from + 32 * b, IF last(b) < to THEN last(b) ELSE to, term))

ProductOf(from, to, term(_)) ==
    LET product[i \in (from - 1)..to] == IF i < from THEN 1 ELSE product[i - 1] ** term(i)
    IN product[to]

(***************************************************************************)
(* Vectors of field elements, indexed from 0 as in the code, and the       *)
(* inverse of a field element.                                             *)
(***************************************************************************)

\* The vector of the n values entry(0) .. entry(n - 1).
Vec(n, entry(_)) == SubSeq([i \in 1..n |-> entry(i - 1)], 1, n)

At(v, i) == v[i + 1]

Last(v) == v[Len(v)]

\* The variables of a polynomial with n evaluations.
LogOf(n) == CHOOSE k \in 0..20 : 2^k = n

Zeros(n) == Vec(n, LAMBDA i : 0)

OneVec(n) == Vec(n, LAMBDA i : 1)

Sum(v) == SumOf(1, Len(v), LAMBDA i : v[i])

Product(v) == ProductOf(1, Len(v), LAMBDA i : v[i])

Dot(u, v) == SumOf(1, Len(u), LAMBDA i : u[i] ** v[i])

Scale(v, c) == Vec(Len(v), LAMBDA i : c ** At(v, i))

AddVec(u, v) == Vec(Len(u), LAMBDA i : At(u, i) ++ At(v, i))

Rev(v) == Vec(Len(v), LAMBDA i : At(v, Len(v) - 1 - i))

Take(v, n) == SubSeq(v, 1, n)

Drop(v, n) == SubSeq(v, n + 1, Len(v))

Pow(a, n) ==
    LET power[k \in 0..n] ==
            IF k = 0 THEN 1
            ELSE LET half == power[k \div 2]
                 IN IF k % 2 = 0 THEN half ** half ELSE half ** half ** a
    IN power[n]

\* By Fermat's theorem; the inverse of 0 is 0, where the code panics.
FieldInverse(a) == Pow(a % FieldSize, FieldSize - 2)

a // b == a ** FieldInverse(b)

\* Bit i, from the least significant, of an index.
BitOf(index, i) == (index \div 2^i) % 2

\* The point of the hypercube with this index: its bits from the first.
Corner(index, n) == Vec(n, LAMBDA i : BitOf(index, n - 1 - i))

-----------------------------------------------------------------------------
(***************************************************************************)
(* The equality polynomial and its relatives: poly/eq_poly.rs,             *)
(* poly/eq_plus_one_poly.rs, poly/lt_poly.rs, poly/range_mask_polynomial.rs*)
(* and the split form of poly/split_eq_poly.rs.                            *)
(***************************************************************************)

\* eq(x, y) of two numbers.
EqBit(x, y) == x ** y ++ (1 -- x) ** (1 -- y)

\* EqPolynomial::mle, and mle_endian when the second point is little-endian.
EqMle(x, y) == ProductOf(1, Len(x), LAMBDA i : EqBit(x[i], y[i]))

EqMleEndian(x, y) == EqMle(x, Rev(y))

ZeroSelector(r) == ProductOf(1, Len(r), LAMBDA i : 1 -- r[i])

\* One step of evals_serial: every entry is split by the next variable.
SplitEach(evals, r) ==
    Vec(2 * Len(evals), LAMBDA i : LET high == At(evals, i \div 2) ** r
                                   IN IF i % 2 = 1 THEN high ELSE At(evals, i \div 2) -- high)

EvalsSerial(r, scaling) ==
    LET evals[j \in 0..Len(r)] ==
            IF j = 0 THEN <<scaling>> ELSE SplitEach(evals[j - 1], r[j])
    IN evals[Len(r)]

Evals(r) == EvalsSerial(r, 1)

\* evals_parallel: the last variable first, the table doubled to the right.
EvalsParallel(r, scaling) ==
    LET double(evals, x) ==
            LET right == Scale(evals, x)
            IN Vec(Len(evals), LAMBDA i : At(evals, i) -- At(right, i)) \o right
        evals[j \in 0..Len(r)] ==
            IF j = 0 THEN <<scaling>> ELSE double(evals[j - 1], r[Len(r) + 1 - j])
    IN evals[Len(r)]

\* evals_for_aligned_block.
EvalsForAlignedBlock(r, start, size) ==
    LET prefix == Len(r) - LogOf(size)
        bits   == Corner(start \div size, prefix)
    IN EvalsSerial(Drop(r, prefix), EqMle(Take(r, prefix), bits))

\* evals_for_max_aligned_block: the size of the block.
MaxAlignedBlock(r, start, remaining) ==
    LET Largest(S) == CHOOSE n \in S : \A m \in S : m <= n
        powers     == {2^k : k \in 0..Len(r)}
    IN Largest({n \in powers : n <= remaining /\ (start = 0 \/ start % n = 0)})

\* evals_serial_cached: the table of every prefix of r.
EvalsCached(r) ==
    LET tables[j \in 0..Len(r)] ==
            IF j = 0 THEN <<<<1>>>>
            ELSE LET before == tables[j - 1]
                 IN Append(before, SplitEach(Last(before), r[j]))
    IN tables[Len(r)]

\* evals_serial_cached_rev: the table of every suffix of r.
EvalsCachedRev(r) ==
    LET double(evals, x) ==
            LET right == Scale(evals, x)
            IN Vec(Len(evals), LAMBDA i : At(evals, i) -- At(right, i)) \o right
        tables[j \in 0..Len(r)] ==
            IF j = 0 THEN <<<<1>>>>
            ELSE LET before == tables[j - 1]
                 IN Append(before, double(Last(before), r[Len(r) + 1 - j]))
    IN tables[Len(r)]

-----------------------------------------------------------------------------
\* EqPlusOnePolynomial: y = x + 1.

EqPlusOne(x, y) ==
    LET l == Len(x)
        lower(k)  == ProductOf(l - k + 1, l, LAMBDA i : x[i] ** (1 -- y[i]))
        kth(k)    == (1 -- x[l - k]) ** y[l - k]
        higher(k) == ProductOf(1, l - k - 1, LAMBDA i : EqBit(x[i], y[i]))
    IN SumOf(0, l - 1, LAMBDA k : lower(k) ** kth(k) ** higher(k))

\* EqPlusOnePolynomial::evals: entry y of the second table comes from the prefix
\* of r that ends before the lowest set bit of y.
EqPlusOneEvals(r) ==
    LET l == Len(r)
        lowestSet(y) == CHOOSE b \in 0..(l - 1) : BitOf(y, b) = 1 /\ \A c \in 0..(b - 1) : BitOf(y, c) = 0
        cached == EvalsCached(r)
        entry(y) ==
            LET i == l - 1 - lowestSet(y)
            IN At(At(cached, i), y \div 2^(l - i)) ** (1 -- At(r, i))
               ** ProductOf(i + 2, l, LAMBDA j : r[j])
    IN Vec(2^l, LAMBDA y : IF y = 0 THEN 0 ELSE entry(y))

\* EqPlusOnePrefixSuffixPoly::new.
EqPlusOnePrefixSuffix(r) ==
    LET hi == Take(r, Len(r) \div 2)
        lo == Drop(r, Len(r) \div 2)
    IN [prefix0 |-> EqPlusOneEvals(lo),
        suffix0 |-> Evals(hi),
        prefix1 |-> Vec(2^Len(lo), LAMBDA j : IF j = 0 THEN EqMle(OneVec(Len(lo)), lo) ELSE 0),
        suffix1 |-> EqPlusOneEvals(hi)]

-----------------------------------------------------------------------------
\* LtPolynomial: lt_evals, the value at j of j < r.
LtEvals(r) ==
    LET double(evals, x) ==
            LET right == Scale(evals, x)
            IN Vec(Len(evals), LAMBDA i : At(evals, i) ++ (x -- At(right, i))) \o right
        evals[j \in 0..Len(r)] ==
            IF j = 0 THEN <<0>> ELSE double(evals[j - 1], r[Len(r) + 1 - j])
    IN evals[Len(r)]

\* RangeMaskPolynomial::evaluate_mle, one of its two loops: r < bound.
LtBound(r, bound) ==
    LET bits == Corner(bound, Len(r))
        step[i \in 0..Len(r)] ==
            IF i = 0 THEN [lt |-> 0, eq |-> 1]
            ELSE LET s == step[i - 1]
                 IN IF bits[i] = 1
                    THEN [lt |-> s.lt ++ s.eq ** (1 -- r[i]), eq |-> s.eq ** r[i]]
                    ELSE [lt |-> s.lt, eq |-> s.eq ** (1 -- r[i])]
    IN step[Len(r)].lt

RangeMask(r, start, end) == LtBound(r, end) -- LtBound(r, start)

-----------------------------------------------------------------------------
(***************************************************************************)
(* Multilinear polynomials, given by their evaluations on the hypercube:   *)
(* poly/dense_mlpoly.rs, poly/compact_polynomial.rs,                       *)
(* poly/multilinear_polynomial.rs, poly/identity_poly.rs,                  *)
(* poly/lt_poly.rs and poly/multiquadratic_poly.rs.  A variable is bound   *)
(* to a challenge from the least or from the most significant one.         *)
(***************************************************************************)

LowToHigh == "LowToHigh"
HighToLow == "HighToLow"

\* The line through a at 0 and b at 1.
Line(a, b, r) == a ++ r ** (b -- a)

\* DensePolynomial::bound_poly_var_top and its variants.
BoundTop(z, r) ==
    LET n == Len(z) \div 2
    IN Vec(n, LAMBDA i : Line(At(z, i), At(z, i + n), r))

BoundTopManyOnes(z, r) ==
    LET n == Len(z) \div 2
        bound(a, b) == IF a = b THEN a
                       ELSE IF b -- a = 1 THEN a ++ r ELSE a ++ r ** (b -- a)
    IN Vec(n, LAMBDA i : bound(At(z, i), At(z, i + n)))

NewFromBoundTop(z, r) ==
    LET n == Len(z) \div 2
        bound(low, high) == IF low = 0 /\ high = 0 THEN 0 ELSE low ++ r ** (high -- low)
    IN Vec(n, LAMBDA i : bound(At(z, i), At(z, i + n)))

\* For polynomials whose evaluations are 0 and 1.
NewFromBoundTopFlags(z, r) ==
    LET n == Len(z) \div 2
        bound(low, high) == CASE low = 0 /\ high = 1 -> r
                              [] low = 1 /\ high = 1 -> 1
                              [] low = 1 /\ high = 0 -> 1 -- r
                              [] OTHER -> 0
    IN Vec(n, LAMBDA i : bound(At(z, i), At(z, i + n)))

\* bound_poly_var_bot.
BoundBot(z, r) == Vec(Len(z) \div 2, LAMBDA i : Line(At(z, 2 * i), At(z, 2 * i + 1), r))

\* bind and bind_parallel.
Bind(z, r, order) == IF order = LowToHigh THEN BoundBot(z, r) ELSE BoundTop(z, r)

\* CompactPolynomial::bind, before the first binding: the coefficients are
\* integers, and the smaller is subtracted from the larger.
CompactBind(coeffs, r, order) ==
    LET n == Len(coeffs) \div 2
        bound(a, b) == CASE a = b -> a % FieldSize
                         [] a < b -> a ++ (b - a) ** r
                         [] a > b -> a -- (a - b) ** r
    IN Vec(n, LAMBDA i : IF order = LowToHigh
                         THEN bound(At(coeffs, 2 * i), At(coeffs, 2 * i + 1))
                         ELSE bound(At(coeffs, i), At(coeffs, i + n)))

\* sumcheck_evals: the values at 0, 2, 3 .. degree of the line through a and b.
LineEvals(a, b, degree) ==
    Vec(degree, LAMBDA i : IF i = 0 THEN a ELSE b ++ i ** (b -- a))

SumcheckEvals(z, index, degree, order) ==
    IF order = HighToLow
    THEN LineEvals(At(z, index), At(z, index + Len(z) \div 2), degree)
    ELSE LineEvals(At(z, 2 * index), At(z, 2 * index + 1), degree)

-----------------------------------------------------------------------------
\* Evaluations of a polynomial at a point, the most significant variable first.

EvaluateDotProduct(z, r) == Dot(z, Evals(r))

\* evaluate and split_eq_evaluate.
Evaluate(z, r) ==
    LET m  == Len(r) \div 2
        e1 == Evals(Take(r, m))
        e2 == Evals(Drop(r, m))
    IN SumOf(0, Len(e1) - 1, LAMBDA x1 :
         At(e1, x1) ** SumOf(0, Len(e2) - 1, LAMBDA x2 : At(e2, x2) ** At(z, x1 * Len(e2) + x2)))

\* inside_out_serial and inside_out_parallel.
InsideOut(z, r) ==
    LET slope(a, b, x) == CASE b -- a = 0 -> a
                            [] b -- a = 1 -> a ++ x
                            [] OTHER -> a ++ x ** (b -- a)
        current[i \in 0..Len(r)] ==
            IF i = 0 THEN z
            ELSE LET before == current[i - 1]
                     stride == Len(before) \div 2
                 IN Vec(stride, LAMBDA j : slope(At(before, j), At(before, j + stride), r[i]))
    IN At(current[Len(r)], 0)

\* linear_combination: the polynomials may have different lengths.
LinearCombination(polys, coeffs) ==
    LET longest == CHOOSE n \in {Len(polys[i]) : i \in DOMAIN polys} :
                       \A i \in DOMAIN polys : Len(polys[i]) <= n
    IN Vec(longest, LAMBDA j : SumOf(1, Len(polys), LAMBDA i :
           IF j < Len(polys[i]) THEN coeffs[i] ** At(polys[i], j) ELSE 0))

\* batch_evaluate.
BatchEvaluate(polys, r) ==
    LET m  == Len(r) \div 2
        e1 == Evals(Take(r, m))
        e2 == Evals(Drop(r, m))
        inner(z, x1) == SumOf(0, Len(e2) - 1, LAMBDA x2 : At(e2, x2) ** At(z, x1 * Len(e2) + x2))
    IN Vec(Len(polys), LAMBDA k :
           SumOf(0, Len(e1) - 1, LAMBDA x1 : At(e1, x1) ** inner(At(polys, k), x1)))

-----------------------------------------------------------------------------
\* The identity: the index itself.
IdentityNew(n) == [vars |-> n, bound |-> 0, value |-> 0]

IdentityBind(p, r, order) ==
    [p EXCEPT !.bound = @ + 1,
              !.value = IF order = LowToHigh THEN @ ++ TwoTo[p.bound] ** r ELSE @ ++ @ ++ r]

IdentityEvaluate(r) == SumOf(1, Len(r), LAMBDA i : r[i] ** TwoTo[Len(r) - i])

IdentitySumcheckEvals(p, index, degree, order) ==
    LET m     == IF order = LowToHigh THEN TwoTo[p.bound] ELSE TwoTo[p.vars - 1 - p.bound]
        first == IF order = LowToHigh THEN p.value ++ (m ++ m) ** index
                 ELSE p.value ** (m ++ m) ++ index
    IN Vec(degree, LAMBDA i : IF i = 0 THEN first ELSE first ++ (i + 1) ** m)

\* One operand of an interleaved index; bound from the most significant variable.
OperandNew(n, side) == [vars |-> n, bound |-> 0, value |-> 0, side |-> side]

OperandBind(p, r) ==
    LET own == (p.bound % 2 = 0) <=> (p.side = "Left")
    IN [p EXCEPT !.bound = @ + 1, !.value = IF own THEN @ ++ @ ++ r ELSE @]

OperandEvaluate(r, side) ==
    LET half == Len(r) \div 2
    IN SumOf(0, half - 1, LAMBDA i :
           At(r, IF side = "Left" THEN 2 * i ELSE 2 * i + 1) ** TwoTo[half - 1 - i])

\* uninterleave_bits: the even bits of an index are those of the right operand.
Uninterleave(index, side) ==
    SumOf(0, 9, LAMBDA i : BitOf(index, IF side = "Left" THEN 2 * i + 1 ELSE 2 * i) * 2^i)

OperandSumcheckEvals(p, index, degree) ==
    LET unbound == p.vars - p.bound
        even    == p.bound % 2 = 0
        own     == even <=> (p.side = "Left")
        pairs   == IF ~even /\ own THEN (unbound + 1) \div 2 ELSE unbound \div 2
        first   == p.value ** TwoTo[pairs] ++ Uninterleave(index, p.side)
    IN Vec(degree, LAMBDA i : IF i = 0 \/ ~own THEN first ELSE first ++ (i + 1) ** TwoTo[pairs - 1])

\* UnmapRamAddressPolynomial: k * 8 + start_address.
UnmapEvaluate(r, start) == 8 ** IdentityEvaluate(r) ++ start

UnmapFinalClaim(p, start) == 8 ** p.value ++ start

UnmapSumcheckEvals(p, start, index, degree, order) ==
    LET evals == IdentitySumcheckEvals(p, index, degree, order)
    IN Vec(degree, LAMBDA i : 8 ** At(evals, i) ++ start)

-----------------------------------------------------------------------------
\* LtPolynomial: split in a high and a low half.
LtNew(r) ==
    LET hi == Take(r, Len(r) \div 2)
        lo == Drop(r, Len(r) \div 2)
    IN [lo |-> LtEvals(lo), hi |-> LtEvals(hi), eq |-> Evals(hi), loVars |-> Len(lo)]

LtBind(p, r, order) ==
    IF order = HighToLow
    THEN IF Len(p.hi) # 1
         THEN [p EXCEPT !.hi = BoundTop(@, r), !.eq = BoundTop(@, r)]
         ELSE [p EXCEPT !.lo = BoundTop(@, r), !.loVars = @ - 1]
    ELSE IF p.loVars # 0
         THEN [p EXCEPT !.lo = BoundBot(@, r), !.loVars = @ - 1]
         ELSE [p EXCEPT !.hi = BoundBot(@, r), !.eq = BoundBot(@, r)]

LtCoeff(p, i) ==
    LET hi == i \div 2^p.loVars
        lo == i % 2^p.loVars
    IN At(p.hi, hi) ++ At(p.eq, hi) ** At(p.lo, lo)

=============================================================================
