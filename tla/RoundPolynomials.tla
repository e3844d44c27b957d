-------------------------- MODULE RoundPolynomials --------------------------
(***************************************************************************)
(* The messages of a sumcheck as univariate polynomials, and the forms in  *)
(* which its prover keeps the polynomials they are computed from.          *)
(***************************************************************************)
EXTENDS Polynomials

(***************************************************************************)
(* Univariate polynomials, given by their coefficients (poly/unipoly.rs),  *)
(* and Lagrange interpolation on the integers around 0                     *)
(* (poly/lagrange_poly.rs) for the univariate skip                         *)
(* (subprotocols/univariate_skip.rs).                                      *)
(***************************************************************************)

\* newton_interpolation: divided differences at 0 .. n - 1, then Horner.
NewtonInterpolation(evals) ==
    LET n == Len(evals)
        differences[k \in 0..(n - 1)] ==
            IF k = 0 THEN evals
            ELSE LET before == differences[k - 1]
                 IN Vec(n, LAMBDA i : IF i < k THEN At(before, i)
                                      ELSE (At(before, i) -- At(before, i - 1)) // k)
        dd == differences[n - 1]
        horner[k \in 0..(n - 1)] ==
            LET here  == n - 1 - k
                above == horner[k - 1]
            IN IF k = 0 THEN Vec(n, LAMBDA i : IF i = 0 THEN At(dd, n - 1) ELSE 0)
               ELSE Vec(n, LAMBDA i : IF i = 0 THEN At(dd, here) -- here ** At(above, 0)
                                      ELSE At(above, i - 1) -- here ** At(above, i))
    IN IF n = 0 THEN <<0>> ELSE horner[n - 1]

TwoInv == (FieldSize + 1) \div 2

FromEvalsDegree2(e0, e1, e2) ==
    LET c2 == (e0 -- e1 -- e1 ++ e2) ** TwoInv
    IN <<e0, e1 -- e0 -- c2, c2>>

FromEvalsDegree3(e0, e1, e2, e3) ==
    LET c3 == (e3 -- e0 ++ (e1 -- e2) ** 3) // 6
        c2 == (e0 -- e1 -- e1 ++ e2) ** TwoInv -- 3 ** c3
    IN <<e0, e1 -- e0 -- c2 -- c3, c2, c3>>

FromEvals(evals) ==
    CASE Len(evals) = 3 -> FromEvalsDegree2(evals[1], evals[2], evals[3])
      [] Len(evals) = 4 -> FromEvalsDegree3(evals[1], evals[2], evals[3], evals[4])
      [] OTHER -> NewtonInterpolation(evals)

\* from_evals_and_hint: the value at 1 is the hint without the value at 0.
FromEvalsAndHint(hint, evals) ==
    FromEvals(<<evals[1], hint -- evals[1]>> \o Drop(evals, 1))

\* from_evals_toom: the last value is the leading coefficient.
FromEvalsToom(evals) ==
    LET n       == Len(evals)
        leading == Last(evals)
        reduced == Vec(n - 1, LAMBDA i : At(evals, i) -- leading ** Pow(i, n - 1))
        c2      == (evals[3] ++ evals[1] -- evals[2] -- evals[2] -- 6 ** leading) ** TwoInv
    IN CASE n = 3 -> <<evals[1], evals[2] -- evals[1] -- leading, leading>>
         [] n = 4 -> <<evals[1], evals[2] -- evals[1] -- leading -- c2, c2, leading>>
         [] OTHER -> Append(NewtonInterpolation(reduced), leading)

\* eval_with_coeffs.
Eval(coeffs, x) ==
    LET step[i \in 1..Len(coeffs)] ==
            IF i = 1 THEN [sum |-> coeffs[1], power |-> x]
            ELSE LET s == step[i - 1]
                 IN [sum |-> s.sum ++ s.power ** coeffs[i], power |-> s.power ** x]
    IN step[Len(coeffs)].sum

\* add_assign, sub: the shorter polynomial is padded.
PaddedAt(v, i) == IF i < Len(v) THEN At(v, i) ELSE 0

Longer(u, v) == IF Len(u) >= Len(v) THEN Len(u) ELSE Len(v)

PolyAdd(u, v) == Vec(Longer(u, v), LAMBDA i : PaddedAt(u, i) ++ PaddedAt(v, i))

PolySub(u, v) == Vec(Longer(u, v), LAMBDA i : PaddedAt(u, i) -- PaddedAt(v, i))

\* from_linear_times_quadratic_with_hint: (a + bX)(c + dX + eX^2), d from the hint.
LinearTimesQuadratic(a, b, c, e, hint) ==
    LET d == (hint -- a ** c) // (a ++ b) -- c -- e
    IN <<a ** c, a ** d ++ b ** c, a ** e ++ b ** d, b ** e>>

\* divide_with_remainder, for a divisor with a leading coefficient.
DivideWithRemainder(p, divisor) ==
    LET degree(v) == Len(v) - 1
        trim(v) == LET used == {i \in 1..Len(v) : v[i] # 0}
                   IN IF used = {} THEN <<>>
                      ELSE Take(v, CHOOSE n \in used : \A m \in used : m <= n)
        inverse == FieldInverse(Last(divisor))
        step[k \in 0..Len(p)] ==
            IF k = 0 THEN [q |-> Zeros(degree(p) - degree(divisor) + 1), rem |-> p]
            ELSE LET s == step[k - 1]
                     c == Last(s.rem) ** inverse
                     d == degree(s.rem) - degree(divisor)
                 IN IF s.rem = <<>> \/ Len(s.rem) < Len(divisor) THEN s
                    ELSE [q   |-> [s.q EXCEPT ![d + 1] = c],
                          rem |-> trim(Vec(Len(s.rem), LAMBDA i :
                                      IF i < d THEN At(s.rem, i)
                                      ELSE At(s.rem, i) -- c ** At(divisor, i - d)))]
    IN IF Len(p) < Len(divisor) THEN [q |-> <<>>, rem |-> p] ELSE step[Len(p)]

\* CompressedUniPoly: without the linear coefficient, which the hint gives back.
Compress(coeffs) == <<coeffs[1]>> \o Drop(coeffs, 2)

\* A mutant: the constant, which counts at 0 and at 1, is taken off once.
LinearTermOnce(compressed, hint) == hint -- Sum(compressed)

LinearTerm(compressed, hint) == hint -- compressed[1] -- Sum(compressed)

Decompress(compressed, hint) ==
    <<compressed[1], LinearTerm(compressed, hint)>> \o Drop(compressed, 1)

EvalFromHint(compressed, hint, x) ==
    compressed[1] ++ x ** LinearTerm(compressed, hint)
    ++ SumOf(2, Len(compressed), LAMBDA i : compressed[i] ** Pow(x, i))

-----------------------------------------------------------------------------
\* The symmetric domain of n consecutive integers around 0.
DomainStart(n) == -((n - 1) \div 2)

\* binomial_coeff.
Binomial(n, k) ==
    LET least == IF k <= n - k THEN k ELSE n - k
        res[i \in 0..least] == IF i = 0 THEN 1 ELSE (res[i - 1] * (n - i + 1)) \div i
    IN res[least]

\* fact: exact in 64 bits up to 20, here modulo the field.
Fact(n) == ProductOf(1, n, LAMBDA i : i)

\* den_row_i64: the product of the distances from node i to the other nodes.
DenRow(n) ==
    Vec(n, LAMBDA i : (IF (n - 1 - i) % 2 = 1 THEN -1 ELSE 1) ** Fact(i) ** Fact(n - 1 - i))

InvDenom(n) == LET row == DenRow(n) IN Vec(n, LAMBDA i : FieldInverse(At(row, i)))

Distances(n, r) == Vec(n, LAMBDA i : r -- (DomainStart(n) + i))

\* distances: the node that r is, if any.
HitsOf(n, r) == {i \in 0..(n - 1) : r -- (DomainStart(n) + i) = 0}

\* bary_terms_from_dists.
BaryTerms(n, r) ==
    LET dists == Distances(n, r)
        inv   == InvDenom(n)
    IN Vec(n, LAMBDA i : At(inv, i) // At(dists, i))

\* LagrangePolynomial::evals and evaluate.
LagrangeEvals(n, r) ==
    LET hits  == HitsOf(n, r)
        normalised(terms) ==
            LET inv == FieldInverse(Sum(terms)) IN Vec(n, LAMBDA i : At(terms, i) ** inv)
    IN IF hits # {} THEN Vec(n, LAMBDA i : IF i \in hits THEN 1 ELSE 0)
       ELSE normalised(BaryTerms(n, r))

LagrangeEvaluate(values, r) ==
    LET n     == Len(values)
        hits  == HitsOf(n, r)
        terms == BaryTerms(n, r)
    IN IF hits # {} THEN At(values, CHOOSE i \in hits : TRUE)
       ELSE Dot(values, terms) // Sum(terms)

\* lagrange_kernel.
LagrangeKernel(n, x, y) ==
    LET of(hx, hy, tx, ty) ==
            CASE hx # {} /\ hy # {} -> IF hx = hy THEN 1 ELSE 0
              [] hx # {} /\ hy = {} -> At(ty, CHOOSE i \in hx : TRUE) // Sum(ty)
              [] hx = {} /\ hy # {} -> At(tx, CHOOSE i \in hy : TRUE) // Sum(tx)
              [] OTHER -> Dot(tx, ty) // (Sum(tx) ** Sum(ty))
    IN of(HitsOf(n, x), HitsOf(n, y), BaryTerms(n, x), BaryTerms(n, y))

\* interpolate_coeffs: divided differences, and the basis in monomials.
InterpolateCoeffs(values) ==
    LET n == Len(values)
        start == DomainStart(n)
        differences[k \in 0..(n - 1)] ==
            IF k = 0 THEN values
            ELSE LET before == differences[k - 1]
                 IN Vec(n - k, LAMBDA i : (At(before, i + 1) -- At(before, i)) // k)
        basis[k \in 0..(n - 1)] ==
            IF k = 0 THEN <<1>>
            ELSE LET before == basis[k - 1]
                     a      == start + k - 1
                 IN Vec(k + 1, LAMBDA j : (IF j = 0 THEN 0 ELSE At(before, j - 1)) -- a ** PaddedAt(before, j))
    IN Vec(n, LAMBDA j : SumOf(0, n - 1, LAMBDA k : At(differences[k], 0) ** PaddedAt(basis[k], j)))

\* evaluate_many.
EvaluateMany(values, points) ==
    LET coeffs == InterpolateCoeffs(values)
    IN Vec(Len(points), LAMBDA i :
           IF Len(points) > Len(values) THEN Eval(coeffs, At(points, i))
           ELSE Dot(values, LagrangeEvals(Len(values), At(points, i))))

\* generalized_binomial: t choose k, of any integer t.
GeneralizedBinomial(t, k) ==
    CASE t >= 0 /\ k > t  -> 0
      [] t >= 0 /\ k <= t -> Binomial(t, k)
      [] t < 0            -> (IF k % 2 = 1 THEN -1 ELSE 1) * Binomial(k - t - 1, k)

\* shift_coeffs: p(shift) from p(0) .. p(n - 1).
ShiftCoeffs(n, shift) ==
    Vec(n, LAMBDA i : (IF (n - 1 - i) % 2 = 1 THEN -1 ELSE 1)
                      * GeneralizedBinomial(shift, i) * GeneralizedBinomial(shift - i - 1, n - 1 - i))

\* power_sums: the sums of the powers of the nodes, exact in 128 bits.
PowerSums(n, len) ==
    Vec(len, LAMBDA k : SumOf(0, n - 1, LAMBDA j : Pow(DomainStart(n) + j, k)))

\* UniPoly::check_sum_evals: the sum over the domain is the claim.
CheckSumEvals(coeffs, n, claim) ==
    LET sums == PowerSums(n, Len(coeffs))
    IN SumOf(1, Len(coeffs), LAMBDA i : coeffs[i] ** sums[i]) = claim

-----------------------------------------------------------------------------
\* uniskip_targets: the nodes outside the base window, on both sides in turn.
UniskipTargets(domain, degree) ==
    LET left  == DomainStart(domain)
        right == left + domain - 1
        step[k \in 0..degree] ==
            IF k = 0 THEN [targets |-> <<>>, n |-> left - 1, p |-> right + 1, turn |-> "n"]
            ELSE LET s == step[k - 1]
                     takeN == s.n >= -degree /\ (s.turn = "n" \/ s.p > degree)
                 IN IF takeN
                    THEN [s EXCEPT !.targets = Append(@, s.n), !.n = @ - 1, !.turn = "p"]
                    ELSE [s EXCEPT !.targets = Append(@, s.p), !.p = @ + 1, !.turn = "n"]
    IN step[degree].targets

\* build_uniskip_first_round_poly.
BuildUniskipPoly(domain, degree, base, extended, tau) ==
    LET targets == UniskipTargets(domain, degree)
        valueAt(z) ==
            IF \E i \in DOMAIN targets : targets[i] = z
            THEN extended[CHOOSE i \in DOMAIN targets : targets[i] = z]
            ELSE At(base, z - DomainStart(domain))
        multiply(t1, kernel) ==
            Vec(Len(t1) + Len(kernel) - 1, LAMBDA k : SumOf(0, Len(kernel) - 1, LAMBDA i :
                IF k - i \in 0..(Len(t1) - 1) THEN At(kernel, i) ** At(t1, k - i) ELSE 0))
    IN multiply(InterpolateCoeffs(Vec(2 * degree + 1, LAMBDA i : valueAt(i - degree))),
                InterpolateCoeffs(LagrangeEvals(domain, tau)))

-----------------------------------------------------------------------------
(***************************************************************************)
(* GruenSplitEqPolynomial (poly/split_eq_poly.rs): eq(w, x) as the product *)
(* of the part that is bound, a linear factor in the variable of this      *)
(* round and two tables over the other variables; and the multiquadratic   *)
(* polynomials of poly/multiquadratic_poly.rs on the grid {0, 1, inf}^n.   *)
(***************************************************************************)

\* new_with_scaling.
GruenNew(w, order, scaling) ==
    LET m == Len(w) \div 2
        rest == IF order = LowToHigh THEN Take(w, Len(w) - 1) ELSE Drop(w, 1)
        first == Take(rest, m)
        second == Drop(rest, m)
    IN IF order = LowToHigh
       THEN [index |-> Len(w), scalar |-> scaling, w |-> w, order |-> order,
             inner |-> EvalsCached(second), outer |-> EvalsCached(first)]
       ELSE [index |-> 0, scalar |-> scaling, w |-> w, order |-> order,
             inner |-> EvalsCachedRev(first), outer |-> EvalsCachedRev(second)]

\* get_current_w.
CurrentW(g) == IF g.order = LowToHigh THEN At(g.w, g.index - 1) ELSE At(g.w, g.index)

EInCurrent(g) == Last(g.inner)

EOutCurrent(g) == Last(g.outer)

GruenLen(g) == IF g.order = LowToHigh THEN 2^g.index ELSE 2^(Len(g.w) - g.index)

Pop(tables) == Take(tables, Len(tables) - 1)

\* bind: a table that is not needed any more is dropped, never the first.
GruenBind(g, r) ==
    LET index == IF g.order = LowToHigh THEN g.index - 1 ELSE g.index + 1
        half  == Len(g.w) \div 2
        popIn == /\ Len(g.inner) > 1
                 /\ IF g.order = LowToHigh THEN half < index ELSE index <= half
        popOut == /\ ~popIn
                  /\ Len(g.outer) > 1
                  /\ g.order = LowToHigh => 0 < index
        wr    == CurrentW(g) ** r
    IN [g EXCEPT !.index  = index,
                 !.scalar = @ ** (((1 -- CurrentW(g)) -- r) ++ wr ++ wr),
                 !.inner  = IF popIn THEN Pop(@) ELSE @,
                 !.outer  = IF popOut THEN Pop(@) ELSE @]

\* E_out_in_for_window and E_active_for_window.
WindowTables(g, window) ==
    LET size == IF window < g.index THEN window ELSE g.index
        head == g.index - size
        m    == Len(g.w) \div 2
        outBits == IF head < m THEN head ELSE m
    IN [outer |-> At(g.outer, outBits), inner |-> At(g.inner, head - outBits)]

ActiveTable(g, window) ==
    IF window <= 1 \/ window > g.index THEN <<1>>
    ELSE Evals(SubSeq(g.w, g.index - window + 1, g.index - 1))

\* par_fold_out_in: the sum over both tables of value(g) at the group index.
FoldOutIn(g, value(_)) ==
    LET inner == EInCurrent(g)
        outer == EOutCurrent(g)
    IN SumOf(0, Len(outer) - 1, LAMBDA xOut :
           At(outer, xOut) ** SumOf(0, Len(inner) - 1, LAMBDA xIn :
               At(inner, xIn) ** value(xOut * Len(inner) + xIn)))

\* gruen_poly_deg_3: the linear factor times c + dX + eX^2, d from the claim.
GruenPolyDeg3(g, c, e, claim) ==
    LET eq1 == g.scalar ** CurrentW(g)
        eq0 == g.scalar -- eq1
        m   == eq1 -- eq0
        s0  == eq0 ** c
        s1  == claim -- s0
        q1  == s1 // eq1
        q2  == (q1 ++ q1 -- c) ++ e ++ e
        q3  == (q2 ++ q1 -- c) ++ 4 ** e
    IN FromEvals(<<s0, s1, (eq1 ++ m) ** q2, (eq1 ++ m ++ m) ** q3>>)

\* gruen_poly_deg_2.
GruenPolyDeg2(g, q0, claim) ==
    LET eq1 == g.scalar ** CurrentW(g)
        eq0 == g.scalar -- eq1
        m   == eq1 -- eq0
        s0  == eq0 ** q0
        s1  == claim -- s0
        q1  == s1 // eq1
    IN FromEvals(<<s0, s1, (eq1 ++ m) ** (q1 ++ q1 -- q0)>>)

\* gruen_poly_from_evals: q at 1, 2 .. and its leading coefficient.
GruenPolyFromEvals(g, qEvals, claim) ==
    LET l0 == g.scalar ** EqBit(0, CurrentW(g))
        l1 == g.scalar ** EqBit(1, CurrentW(g))
        q0 == (claim -- l1 ** qEvals[1]) // l0
        q  == FromEvalsToom(<<q0>> \o qEvals)
    IN Vec(Len(q) + 1, LAMBDA i : (IF i < Len(q) THEN At(q, i) ** l0 ELSE 0)
                                  ++ (IF i > 0 THEN At(q, i - 1) ** (l1 -- l0) ELSE 0))

\* merge.
GruenMerge(g) ==
    EvalsParallel(IF g.order = LowToHigh THEN Take(g.w, g.index) ELSE Drop(g.w, g.index), g.scalar)

-----------------------------------------------------------------------------
\* expand_linear_grid_to_multiquadratic: the slope is the value at infinity.
\* Digit i of an index of the result, base 3, is 0, 1 or infinity.
ExpandGrid(input, dim) ==
    LET expand(cur, stride, blocks) ==
            Vec(3 * stride * blocks, LAMBDA k :
                LET b == k \div (3 * stride)
                    d == (k \div stride) % 3
                    f0 == At(cur, b * 2 * stride + (k % stride))
                    f1 == At(cur, b * 2 * stride + stride + (k % stride))
                IN CASE d = 0 -> f0 [] d = 1 -> f1 [] d = 2 -> f1 -- f0)
        grid[k \in 0..dim] ==
            IF k = 0 THEN input ELSE expand(grid[k - 1], 3^(k - 1), 2^(dim - k))
    IN grid[dim]

\* bind_first_variable.
BindFirstVariable(evals, r) ==
    Vec(Len(evals) \div 3, LAMBDA i :
        At(evals, 3 * i) ** (1 -- r) ++ At(evals, 3 * i + 1) ** r
        ++ At(evals, 3 * i + 2) ** r ** (r -- 1))

\* project_to_first_variable: the other variables are 0 or 1, weighted by eq.
ProjectToFirst(evals, active, first) ==
    LET vars == LogOf(Len(active))
        index(b) == LET digits[i \in 0..vars] ==
                            IF i = 0 THEN first ELSE digits[i - 1] + BitOf(b, i - 1) * 3^i
                    IN digits[vars]
    IN SumOf(0, Len(active) - 1, LAMBDA b : At(evals, index(b)) ** At(active, b))

-----------------------------------------------------------------------------
(***************************************************************************)
(* One-hot polynomials over the cycles, kept as the index of every cycle   *)
(* while the first three variables are bound (poly/ra_poly.rs), and the    *)
(* products of several of them (subprotocols/mles_product_sum.rs).         *)
(***************************************************************************)

\* The index of a cycle that has none.
NoIndex == -1

\* RaPolynomial::new: entry k of the table is eq(k, r).
RaNew(indices, table) ==
    [bound |-> 0, tables |-> <<table>>, indices |-> indices, order |-> LowToHigh, values |-> <<>>]

\* The entry of a cycle in the table of one label.
RaEntry(p, label, cycle) ==
    LET i == At(p.indices, cycle)
    IN IF i = NoIndex THEN 0 ELSE At(At(p.tables, label), i)

RaRound1Coeff(p, j) == RaEntry(p, 0, j)

\* The label of a table is the bits of the bound variables, the first bound first.
RaRound2Coeff(p, j) ==
    LET mid == Len(p.indices) \div 2
    IN IF p.order = HighToLow THEN RaEntry(p, 0, j) ++ RaEntry(p, 1, mid + j)
       ELSE RaEntry(p, 0, 2 * j) ++ RaEntry(p, 1, 2 * j + 1)

RaRound3Coeff(p, j) ==
    LET n == Len(p.indices) \div 4
    IN IF p.order = HighToLow
       THEN RaEntry(p, 0, j) ++ RaEntry(p, 1, j + n) ++ RaEntry(p, 2, j + n * 2) ++ RaEntry(p, 3, j + n * 3)
       ELSE RaEntry(p, 0, 4 * j) ++ RaEntry(p, 2, 4 * j + 1) ++ RaEntry(p, 1, 4 * j + 2) ++ RaEntry(p, 3, 4 * j + 3)

\* RaPolynomial::get_bound_coeff.
RaCoeff(p, j) ==
    CASE p.bound = 0 -> RaRound1Coeff(p, j)
      [] p.bound = 1 -> RaRound2Coeff(p, j)
      [] p.bound = 2 -> RaRound3Coeff(p, j)
      [] OTHER       -> At(p.values, j)

RaLen(p) == IF p.bound < 3 THEN Len(p.indices) \div 2^p.bound ELSE Len(p.values)

\* Every table is scaled by eq(0, r) and by eq(1, r).
SplitTables(tables, r) ==
    Vec(2 * Len(tables), LAMBDA i : Scale(At(tables, i \div 2), EqBit(i % 2, r)))

RaRound1Bind(p, r, order) ==
    [p EXCEPT !.bound = 1, !.tables = SplitTables(@, r), !.order = order]

RaRound2Bind(p, r) == [p EXCEPT !.bound = 2, !.tables = SplitTables(@, r)]

\* The third binding leaves a dense polynomial.
RaRound3Bind(p, r) ==
    LET q == [p EXCEPT !.tables = SplitTables(@, r)]
        n == Len(p.indices) \div 8
        reversed == <<0, 4, 2, 6, 1, 5, 3, 7>>
        value(j) == IF p.order = HighToLow
                    THEN SumOf(0, 7, LAMBDA label : RaEntry(q, label, j + n * label))
                    ELSE SumOf(0, 7, LAMBDA i : RaEntry(q, At(reversed, i), 8 * j + i))
    IN [p EXCEPT !.bound = 3, !.tables = <<>>, !.indices = <<>>, !.values = Vec(n, value)]

\* bind_parallel.
RaBind(p, r, order) ==
    CASE p.bound = 0 -> RaRound1Bind(p, r, order)
      [] p.bound = 1 -> RaRound2Bind(p, r)
      [] p.bound = 2 -> RaRound3Bind(p, r)
      [] OTHER       -> [p EXCEPT !.values = Bind(@, r, order)]

\* final_sumcheck_claim: panics before the third binding.
RaFinal(p) == IF p.bound = 3 THEN p.values[1] ELSE -1

\* sumcheck_evals.
RaSumcheckEvals(p, index, degree, order) ==
    IF order = HighToLow
    THEN LineEvals(RaCoeff(p, index), RaCoeff(p, index + RaLen(p) \div 2), degree)
    ELSE LineEvals(RaCoeff(p, 2 * index), RaCoeff(p, 2 * index + 1), degree)

-----------------------------------------------------------------------------
\* A product of d lines, each given by its values at 0 and at 1, is evaluated
\* at 1, 2 .. d - 1; its leading coefficient, the value at infinity, comes last.

Slope(line) == line[2] -- line[1]

LineAt(line, x) == line[1] ++ x ** Slope(line)

\* eval_linear_prod_naive_assign, and the unrolled products of 6 and of 7 lines.
NaiveProduct(lines) ==
    LET d == Len(lines)
    IN Vec(d, LAMBDA i : IF i = d - 1 THEN ProductOf(1, d, LAMBDA k : Slope(lines[k]))
                         ELSE ProductOf(1, d, LAMBDA k : LineAt(lines[k], i + 1)))

\* Extrapolations of a polynomial of degree 2, 4, 8 and 16 from that many values
\* in a row and its leading coefficient.
Ex2(f, inf) == 2 ** (f[2] ++ inf) -- f[1]

Ex4(f, inf6) == 2 ** (2 ** (inf6 ++ f[4] -- f[3] ++ f[2]) -- f[3]) -- f[1]

\* The next two values.
Ex4Two(f, inf6) ==
    LET step == f[4] -- f[3]
        f4   == 2 ** (2 ** (inf6 ++ step ++ f[2]) -- f[3]) -- f[1]
    IN <<f4, 2 ** (2 ** (f4 -- step ++ inf6) -- f[4]) -- f[2]>>

Ex8(f, infFact) ==
    8 ** (f[2] ++ f[8]) ++ 56 ** (f[4] ++ f[6]) ++ infFact
    -- 28 ** (f[3] ++ f[7]) -- 70 ** f[5] -- f[1]

Ex16(f, infFact) ==
    16 ** (f[2] ++ f[16]) -- 120 ** (f[3] ++ f[15]) ++ 560 ** (f[4] ++ f[14])
    -- 1820 ** (f[5] ++ f[13]) ++ 4368 ** (f[6] ++ f[12]) -- 8008 ** (f[7] ++ f[11])
    ++ 11440 ** (f[8] ++ f[10]) -- 12870 ** f[9] -- f[1] ++ infFact

\* The values at 1 .. and, last, at infinity of a product: pointwise.
Times(u, v) == Vec(Len(u), LAMBDA i : At(u, i) ** At(v, i))

\* eval_linear_prod_2_internal: at 1, 2 and infinity.
Product2(p, q) == <<p[2] ** q[2], LineAt(p, 2) ** LineAt(q, 2), Slope(p) ** Slope(q)>>

\* Product2 up to the value at 3 or 4.
Extend2(a, last) ==
    LET a3 == Ex2(<<a[1], a[2]>>, a[3])
    IN IF last = 3 THEN <<a[1], a[2], a3, a[3]>>
       ELSE <<a[1], a[2], a3, Ex2(<<a[2], a3>>, a[3]), a[3]>>

Product2To(p, q, last) == Extend2(Product2(p, q), last)

\* eval_prod_4_assign, eval_prod_5_assign and eval_linear_prod_4_internal.
EvalProd4(l) == Times(Product2To(l[1], l[2], 3), Product2To(l[3], l[4], 3))

EvalProd5(l) ==
    LET line == <<l[3][2], LineAt(l[3], 2), LineAt(l[3], 3), LineAt(l[3], 4), Slope(l[3])>>
    IN Times(Product2To(l[1], l[2], 4), Times(line, Product2To(l[4], l[5], 4)))

Product4(l) == Times(Product2To(l[1], l[2], 4), Product2To(l[3], l[4], 4))

\* batch_helper: the values at 5 .. 8 from those at 1 .. 4.
Extend4(a) ==
    LET inf6 == 6 ** a[5]
        next == Ex4Two(Take(a, 4), inf6)
        more == Ex4Two(<<a[3], a[4], next[1], next[2]>>, inf6)
    IN Take(a, 4) \o next \o more \o <<a[5]>>

\* eval_linear_prod_8_internal.
Product8(l) == Times(Extend4(Product4(Take(l, 4))), Extend4(Product4(Drop(l, 4))))

\* eval_prod_8_assign: the value at 8 is not computed.
EvalProd8(l) ==
    LET inf6(a) == 6 ** a[5]
        upTo7(a) == LET next == Ex4Two(Take(a, 4), inf6(a))
                    IN Take(a, 4) \o next \o <<Ex4(<<a[3], a[4], next[1], next[2]>>, inf6(a)), a[5]>>
    IN Times(upTo7(Product4(Take(l, 4))), upTo7(Product4(Drop(l, 4))))

\* eval_prod_9_accumulate.
EvalProd9(l) ==
    LET line == Vec(9, LAMBDA i : IF i = 8 THEN Slope(l[9]) ELSE LineAt(l[9], i + 1))
    IN Times(Product8(Take(l, 8)), line)

\* expand8_to16 and expand16_to_u32: count values more, by windows of width values.
Expand(values, width, inf, count, next(_, _)) ==
    LET infFact == Fact(width) ** inf
        f[k \in 0..count] ==
            IF k = 0 THEN values
            ELSE LET before == f[k - 1]
                 IN Append(before, next(SubSeq(before, Len(before) - width + 1, Len(before)), infFact))
    IN f[count]

Expand8To16(vals, count) == Expand(Take(vals, 8), 8, vals[9], count, Ex8)

\* The product of two halves of eight lines each.
JoinEights(a, b, count) ==
    Append(Times(Expand8To16(a, count), Expand8To16(b, count)), a[9] ** b[9])

\* eval_prod_16_assign.
EvalProd16(l) == JoinEights(Product8(Take(l, 8)), Product8(Drop(l, 8)), 7)

\* eval_half_16_base: the values at 1 .. 16 of 16 lines, and at infinity.
EvalHalf16Base(l) == JoinEights(Product8(Take(l, 8)), Product8(Drop(l, 8)), 8)

Expand16To32(vals) == Append(Expand(Take(vals, 16), 16, vals[17], 15, Ex16), vals[17])

EvalProd32(l) ==
    Times(Expand16To32(EvalHalf16Base(Take(l, 16))), Expand16To32(EvalHalf16Base(Drop(l, 16))))

\* eval_linear_prod_assign.
EvalLinearProd(l) ==
    CASE Len(l) = 2  -> <<l[1][2] ** l[2][2], Slope(l[1]) ** Slope(l[2])>>
      [] Len(l) = 3  -> Times(Product2(l[1], l[2]), <<l[3][2], LineAt(l[3], 2), Slope(l[3])>>)
      [] Len(l) = 4  -> EvalProd4(l)
      [] Len(l) = 5  -> EvalProd5(l)
      [] Len(l) = 8  -> EvalProd8(l)
      [] Len(l) = 16 -> EvalProd16(l)
      [] Len(l) = 32 -> EvalProd32(l)
      [] OTHER       -> NaiveProduct(l)

\* eval_linear_prod_accumulate: other products are unrolled.
EvalLinearProdAccumulate(l) ==
    CASE Len(l) = 2 -> <<l[1][2] ** l[2][2], Slope(l[1]) ** Slope(l[2])>>
      [] Len(l) = 3 -> Times(Product2(l[1], l[2]), <<l[3][2], LineAt(l[3], 2), Slope(l[3])>>)
      [] Len(l) = 5 -> EvalProd5(l)
      [] Len(l) = 9 -> EvalProd9(l)
      [] OTHER      -> NaiveProduct(l)

-----------------------------------------------------------------------------
\* The lines of the polynomials in the variable of this round.
LinesAt(polys, g) == Vec(Len(polys), LAMBDA i : <<RaCoeff(At(polys, i), 2 * g), RaCoeff(At(polys, i), 2 * g + 1)>>)

\* compute_mles_product_sum_evals_generic and its macros for 4, 8, 16 and 32.
ProductSumEvals(polys, gruen) ==
    Vec(Len(polys), LAMBDA k :
        gruen.scalar ** FoldOutIn(gruen, LAMBDA g : At(EvalLinearProd(LinesAt(polys, g)), k)))

\* impl_mles_sum_of_products_evals_d: the sum of n products of d polynomials.
SumOfProductsEvals(polys, d, gruen) ==
    LET group(t) == SubSeq(polys, t * d + 1, (t + 1) * d)
        n        == Len(polys) \div d
    IN Vec(d, LAMBDA k : gruen.scalar ** FoldOutIn(gruen, LAMBDA g :
           SumOf(0, n - 1, LAMBDA t : At(EvalLinearProd(LinesAt(group(t), g)), k))))

\* finish_mles_product_sum_from_evals: times the linear factor of eq.
FinishProductSum(evals, claim, gruen) ==
    LET w  == CurrentW(gruen)
        e0 == (claim -- w ** evals[1]) // (1 -- w)
        q  == FromEvalsToom(<<e0>> \o evals)
    IN Vec(Len(q) + 1, LAMBDA i : PaddedAt(q, i) ** (1 -- w)
                                  ++ (IF i = 0 THEN 0 ELSE At(q, i - 1) ** (w ++ w -- 1)))

ProductSum(polys, claim, gruen) == FinishProductSum(ProductSumEvals(polys, gruen), claim, gruen)

=============================================================================
