-------------------------- MODULE ClaimReductions --------------------------
(***************************************************************************)
(* The sumchecks that bring several claims about one polynomial to one     *)
(* point (zkvm/claim_reductions/), and the evaluation of the register      *)
(* values (zkvm/registers/val_evaluation.rs). The first rounds of a        *)
(* reduction work on two short tables, P over the low variables of the     *)
(* point and Q that has summed the high ones away; the others on the       *)
(* polynomials, folded over the challenges of the first rounds.            *)
(***************************************************************************)
EXTENDS RamSumchecks

\* Q[lo], the sum over hi of values[hi, lo] eq[hi].
SumHigh(values, eq) ==
    LET n == Len(values) \div Len(eq)
    IN Vec(n, LAMBDA lo : SumOf(0, Len(eq) - 1, LAMBDA hi : At(values, lo + hi * n) ** At(eq, hi)))

\* The sum over lo of values[hi, lo] eq[lo], for every hi.
SumLow(values, eq) ==
    LET n == Len(eq)
    IN Vec(Len(values) \div n, LAMBDA hi : SumOf(0, n - 1, LAMBDA lo : At(values, lo + hi * n) ** At(eq, lo)))

\* The values at 0 and at 2 of the round polynomial of a product.
QuadraticEvals(p, q) ==
    Vec(2, LAMBDA x : SumOf(0, Len(p) \div 2 - 1, LAMBDA j :
        At(SumcheckEvals(p, j, 2, LowToHigh), x) ** At(SumcheckEvals(q, j, 2, LowToHigh), x)))

\* The weighted sum of vectors.
Weighted(vectors, weights) ==
    Vec(Len(vectors[1]), LAMBDA i : SumOf(1, Len(vectors), LAMBDA k : weights[k] ** vectors[k][i + 1]))

Powers(g, n) == Vec(n, LAMBDA i : Pow(g, i))

BindAll(polys, r) == Vec(Len(polys), LAMBDA i : BoundBot(At(polys, i), r))

\* The weighted sum of openings, the first weight being 1.
WeightedClaims(claims, gamma) == Dot(claims, Powers(gamma, Len(claims)))

-----------------------------------------------------------------------------
\* registers/val_evaluation.rs: ValEvaluationSumcheckProver.
RdIndex(d, j) ==
    LET writes == At(d.registers, j).rd
    IN IF writes = {} THEN NoIndex ELSE (CHOOSE a \in writes : TRUE).reg

RegValInitialize(d) ==
    [inc |-> RdInc(d), lt |-> LtNew(d.rCycle),
     wa  |-> RaNew(Vec(Len(d.registers), LAMBDA j : RdIndex(d, j)), Evals(d.rRegister))]

RegValMessage(st, claim) ==
    LET line(f(_), j) == <<f(2 * j), f(2 * j + 1)>>
        factors(j) == <<line(LAMBDA i : At(st.inc, i), j), line(LAMBDA i : RaCoeff(st.wa, i), j),
                        line(LAMBDA i : LtCoeff(st.lt, i), j)>>
        total(f(_)) == SumOf(0, Len(st.inc) \div 2 - 1, LAMBDA j :
                           ProductOf(1, 3, LAMBDA k : f(factors(j)[k])))
        at(x) == total(LAMBDA l : LineAt(l, x))
    IN FromEvalsToom(<<claim -- at(1), at(1), at(2), total(Slope)>>)

RegValIngest(st, r) ==
    [inc |-> BoundBot(st.inc, r), wa |-> RaBind(st.wa, r, LowToHigh), lt |-> LtBind(st.lt, r, LowToHigh)]

RegValPoints(d, challenges) ==
    [RdInc |-> Rev(challenges), RdWa |-> d.rRegister \o Rev(challenges)]

RegValClaims(st) == [RdInc |-> st.inc[1], RdWa |-> RaFinal(st.wa)]

RegValExpected(d, challenges, op) == op["RdInc"] ** op["RdWa"] ** LtEval(Rev(challenges), d.rCycle)

RegValConstraint(d, challenges, op) ==
    LET values == <<LtEval(Rev(challenges), d.rCycle)>>
    IN values[1] ** op["RdInc"] ** op["RdWa"]

-----------------------------------------------------------------------------
\* ram_ra.rs: three claims about ra, at one address and at three cycles. The
\* prefix takes the smaller half of the variables.
RamRaValues(d) ==
    LET f == Evals(d.rAddress)
    IN Vec(Len(d.ram), LAMBDA j : IF AccessedWord(d, j) = NoIndex THEN 0 ELSE At(f, AccessedWord(d, j)))

HighPart(r) == Take(r, Len(r) - Len(r) \div 2)

LowPart(r) == Drop(r, Len(r) - Len(r) \div 2)

\* Phase1State::initialize_from_aligned_address, compute_Q_arrays.
RamRaRedInitialize(d) ==
    [phase |-> 1, challenges |-> <<>>,
     p |-> [i \in 1..3 |-> Evals(LowPart(d.rCycles[i]))],
     q |-> [i \in 1..3 |-> SumHigh(RamRaValues(d), Evals(HighPart(d.rCycles[i])))]]

RamRaRedPhase1Message(d, st, claim) ==
    FromEvalsAndHint(claim, Weighted([i \in 1..3 |-> QuadraticEvals(st.p[i], st.q[i])], Powers(d.gamma, 3)))

\* Phase2State::gen.
RamRaRedPhase2(d, challenges) ==
    LET prefix == Rev(challenges)
        scale(i) == EqMle(LowPart(d.rCycles[i]), prefix)
    IN [phase |-> 2, h |-> SumLow(RamRaValues(d), Evals(prefix)),
        eq |-> [i \in 1..3 |-> Evals(HighPart(d.rCycles[i]))],
        coeffs |-> [i \in 1..3 |-> Pow(d.gamma, i - 1) ** scale(i)]]

RamRaRedPhase2Message(st, claim) ==
    FromEvalsAndHint(claim, QuadraticEvals(st.h, Weighted(st.eq, st.coeffs)))

RamRaRedMessage(d, st, claim) ==
    IF st.phase = 1 THEN RamRaRedPhase1Message(d, st, claim) ELSE RamRaRedPhase2Message(st, claim)

RamRaRedIngest(d, st, r) ==
    IF st.phase = 2 THEN [st EXCEPT !.h = BoundBot(@, r), !.eq = BindAll(@, r)]
    ELSE LET bound == [st EXCEPT !.challenges = Append(@, r), !.p = BindAll(@, r), !.q = BindAll(@, r)]
         IN IF Len(bound.p[1]) = 1 THEN RamRaRedPhase2(d, bound.challenges) ELSE bound

RamRaRedPoints(d, challenges) == [RamRa |-> d.rAddress \o Rev(challenges)]

RamRaRedClaims(st) == [RamRa |-> st.h[1]]

RamRaRedInputClaim(d, op) == WeightedClaims(<<op["RamRaRaf"], op["RamRaRw"], op["RamRaVal"]>>, d.gamma)

RamRaRedEq(d, challenges) ==
    WeightedClaims([i \in 1..3 |-> EqMle(d.rCycles[i], Rev(challenges))], d.gamma)

RamRaRedExpected(d, challenges, op) == RamRaRedEq(d, challenges) ** op["RamRa"]

RamRaRedConstraint(d, challenges, op) ==
    LET values == <<RamRaRedEq(d, challenges)>>
    IN values[1] ** op["RamRa"]

-----------------------------------------------------------------------------
\* increments.rs: RamInc at two points and RdInc at two others. The last round
\* of the first phase does not bind: its challenge only enters phase 2.
IncPolys(d) == <<RamInc(d), RamInc(d), RdInc(d), RdInc(d)>>

IncInitialize(d) ==
    [phase |-> 1, challenges |-> <<>>,
     p |-> [i \in 1..4 |-> Evals(LowPart(d.rCycles[i]))],
     q |-> [i \in 1..4 |-> SumHigh(IncPolys(d)[i], Evals(HighPart(d.rCycles[i])))]]

IncPhase1Message(d, st, claim) ==
    FromEvalsAndHint(claim, Weighted([i \in 1..4 |-> QuadraticEvals(st.p[i], st.q[i])], Powers(d.gamma, 4)))

IncPhase2(d, challenges) ==
    LET prefix == Rev(challenges)
        eq(i)  == EvalsSerial(HighPart(d.rCycles[i]), EqMle(prefix, LowPart(d.rCycles[i])))
        pair(i) == Weighted(<<eq(i), eq(i + 1)>>, <<1, d.gamma>>)
    IN [phase |-> 2, ram |-> SumLow(RamInc(d), Evals(prefix)), rd |-> SumLow(RdInc(d), Evals(prefix)),
        eqRam |-> pair(1), eqRd |-> pair(3)]

IncPhase2Message(d, st, claim) ==
    FromEvalsAndHint(claim, Weighted(<<QuadraticEvals(st.ram, st.eqRam), QuadraticEvals(st.rd, st.eqRd)>>,
                                     <<1, d.gamma ** d.gamma>>))

IncMessage(d, st, claim) ==
    IF st.phase = 1 THEN IncPhase1Message(d, st, claim) ELSE IncPhase2Message(d, st, claim)

IncPhase1Bind(st, r) ==
    [st EXCEPT !.challenges = Append(@, r), !.p = BindAll(@, r), !.q = BindAll(@, r)]

IncPhase2Bind(st, r) ==
    [st EXCEPT !.ram = BoundBot(@, r), !.rd = BoundBot(@, r), !.eqRam = BoundBot(@, r), !.eqRd = BoundBot(@, r)]

IncIngest(d, st, r) ==
    IF st.phase = 2 THEN IncPhase2Bind(st, r)
    ELSE IF LogOf(Len(st.p[1])) = 1 THEN IncPhase2(d, Append(st.challenges, r))
    ELSE IncPhase1Bind(st, r)

IncPoints(challenges) == [RamInc |-> Rev(challenges), RdInc |-> Rev(challenges)]

IncClaims(st) == [RamInc |-> st.ram[1], RdInc |-> st.rd[1]]

IncInputClaim(d, op) ==
    WeightedClaims(<<op["RamIncRw"], op["RamIncVal"], op["RdIncRw"], op["RdIncVal"]>>, d.gamma)

IncExpected(d, challenges, op) ==
    LET eq(i) == EqMle(Rev(challenges), d.rCycles[i])
        ram == eq(1) ++ d.gamma ** eq(2)
        rd  == eq(3) ++ d.gamma ** eq(4)
    IN op["RamInc"] ** ram ++ d.gamma ** d.gamma ** op["RdInc"] ** rd

IncConstraint(d, challenges, op) ==
    LET eq(i)  == EqMle(Rev(challenges), d.rCycles[i])
        values == <<eq(1) ++ d.gamma ** eq(2), d.gamma ** d.gamma ** (eq(3) ++ d.gamma ** eq(4))>>
    IN values[1] ** op["RamInc"] ++ values[2] ** op["RdInc"]

-----------------------------------------------------------------------------
\* registers.rs and instruction_lookups.rs reduce several polynomials at one
\* point, the prefix taking the larger half of the variables.
Suffix(r) == Take(r, Len(r) \div 2)

Prefix(r) == Drop(r, Len(r) \div 2)

RegRedPolys(d) ==
    LET column(f(_)) == Vec(Len(d.registers), LAMBDA j : f(At(d.registers, j)))
    IN <<column(LAMBDA c : SumOver(c.rd, LAMBDA a : a.post)), column(LAMBDA c : SumOver(c.rs1, LAMBDA a : a.val)),
         column(LAMBDA c : SumOver(c.rs2, LAMBDA a : a.val))>>

RegRedInitialize(d) ==
    LET eq == Evals(Suffix(d.rCycle))
    IN [phase |-> 1, challenges |-> <<>>, p |-> Evals(Prefix(d.rCycle)),
        q |-> Weighted([i \in 1..3 |-> SumHigh(RegRedPolys(d)[i], eq)], Powers(d.gamma, 3))]

RegRedPhase1Message(st, claim) == FromEvalsAndHint(claim, QuadraticEvals(st.p, st.q))

RegRedPhase2(d, challenges) ==
    LET prefix == Rev(challenges)
    IN [phase |-> 2, polys |-> [i \in 1..3 |-> SumLow(RegRedPolys(d)[i], Evals(prefix))],
        eq |-> EvalsParallel(Suffix(d.rCycle), EqMle(prefix, Prefix(d.rCycle)))]

RegRedPhase2Message(d, st, claim) ==
    FromEvalsAndHint(claim, QuadraticEvals(st.eq, Weighted(st.polys, Powers(d.gamma, 3))))

RegRedMessage(d, st, claim) ==
    IF st.phase = 1 THEN RegRedPhase1Message(st, claim) ELSE RegRedPhase2Message(d, st, claim)

RegRedIngest(d, st, r) ==
    CASE st.phase = 2 -> [st EXCEPT !.polys = BindAll(@, r), !.eq = BoundBot(@, r)]
      [] st.phase = 1 /\ LogOf(Len(st.p)) = 1 -> RegRedPhase2(d, Append(st.challenges, r))
      [] OTHER -> [st EXCEPT !.challenges = Append(@, r), !.p = BoundBot(@, r), !.q = BoundBot(@, r)]

RegRedPoints(challenges) == [n \in {"RdWriteValue", "Rs1Value", "Rs2Value"} |-> Rev(challenges)]

RegRedClaims(st) ==
    [RdWriteValue |-> st.polys[1][1], Rs1Value |-> st.polys[2][1], Rs2Value |-> st.polys[3][1]]

RegRedInputClaim(d, op) == WeightedClaims(<<op["RdWriteValue"], op["Rs1Value"], op["Rs2Value"]>>, d.gamma)

RegRedExpected(d, challenges, op) ==
    EqMle(Rev(challenges), d.rCycle) ** WeightedClaims(<<op["RdWriteValue"], op["Rs1Value"], op["Rs2Value"]>>, d.gamma)

RegRedConstraint(d, challenges, op) ==
    LET values == <<EqMle(Rev(challenges), d.rCycle), d.gamma, d.gamma ** d.gamma>>
    IN values[1] ** op["RdWriteValue"] ++ values[1] ** values[2] ** op["Rs1Value"]
       ++ values[1] ** values[3] ** op["Rs2Value"]

-----------------------------------------------------------------------------
LookupColumns == <<"LookupOutput", "LeftLookupOperand", "RightLookupOperand",
                   "LeftInstructionInput", "RightInstructionInput">>

\* The right input is signed: its terms are summed by sign and subtracted.
SignedSum(n, value(_), weight(_)) ==
    LET part(sign) == SumOf(0, n - 1, LAMBDA i :
                          IF sign * value(i) > 0 THEN weight(i) ** (sign * value(i)) ELSE 0)
    IN part(1) -- part(-1)

\* Column k weighted and summed over the n cycles cycle(0), cycle(1) ..
LookupFold(d, k, n, cycle(_), eq) ==
    LET value(i)  == At(d.lookups, cycle(i))[LookupColumns[k]]
        weight(i) == At(eq, i)
    IN IF k = 5 THEN SignedSum(n, value, weight)
       ELSE SumOf(0, n - 1, LAMBDA i : weight(i) ** value(i))

LookupRedInitialize(d) ==
    LET eq == Evals(Suffix(d.rCycle))
        n  == Len(d.lookups) \div Len(eq)
        q(k) == Vec(n, LAMBDA lo : LookupFold(d, k, Len(eq), LAMBDA hi : lo + hi * n, eq))
    IN [phase |-> 1, challenges |-> <<>>, p |-> Evals(Prefix(d.rCycle)),
        q |-> Weighted([k \in 1..5 |-> q(k)], Powers(d.gamma, 5))]

LookupRedPhase1Message(st, claim) == FromEvalsAndHint(claim, QuadraticEvals(st.p, st.q))

LookupRedPhase2(d, challenges) ==
    LET prefix == Rev(challenges)
        eq     == Evals(prefix)
        poly(k) == Vec(Len(d.lookups) \div Len(eq), LAMBDA hi :
                       LookupFold(d, k, Len(eq), LAMBDA lo : lo + hi * Len(eq), eq))
    IN [phase |-> 2, polys |-> [k \in 1..5 |-> poly(k)],
        eq |-> EvalsParallel(Suffix(d.rCycle), EqMle(prefix, Prefix(d.rCycle)))]

LookupRedPhase2Message(d, st, claim) ==
    FromEvalsAndHint(claim, QuadraticEvals(st.eq, Weighted(st.polys, Powers(d.gamma, 5))))

LookupRedMessage(d, st, claim) ==
    IF st.phase = 1 THEN LookupRedPhase1Message(st, claim) ELSE LookupRedPhase2Message(d, st, claim)

LookupRedIngest(d, st, r) ==
    CASE st.phase = 2 -> [st EXCEPT !.polys = BindAll(@, r), !.eq = BoundBot(@, r)]
      [] st.phase = 1 /\ LogOf(Len(st.p)) = 1 -> LookupRedPhase2(d, Append(st.challenges, r))
      [] OTHER -> [st EXCEPT !.challenges = Append(@, r), !.p = BoundBot(@, r), !.q = BoundBot(@, r)]

LookupRedPoints(challenges) == [n \in Range(LookupColumns) |-> Rev(challenges)]

LookupRedClaims(st) ==
    [n \in Range(LookupColumns) |-> LET k == CHOOSE k \in 1..5 : LookupColumns[k] = n IN st.polys[k][1]]

LookupRedInputClaim(d, op) == WeightedClaims([k \in 1..5 |-> op[LookupColumns[k]]], d.gamma)

LookupRedExpected(d, challenges, op) ==
    EqMle(Rev(challenges), d.rCycle) ** WeightedClaims([k \in 1..5 |-> op[LookupColumns[k]]], d.gamma)

LookupRedConstraint(d, challenges, op) ==
    LET eq == EqMle(Rev(challenges), d.rCycle)
        values == [k \in 1..5 |-> eq ** Pow(d.gamma, k - 1)]
    IN SumOf(1, 5, LAMBDA k : values[k] ** op[LookupColumns[k]])
=============================================================================
