-------------------------- MODULE OneHotSumchecks --------------------------
(***************************************************************************)
(* The sumchecks over all one-hot polynomials: the chunks of the lookup    *)
(* index, of the program counter and of the RAM address of every cycle     *)
(* (poly/shared_ra_polys.rs), their booleanity                             *)
(* (subprotocols/booleanity.rs), the reduction of the claims about them    *)
(* (claim_reductions/hamming_weight.rs), and the virtualization of the     *)
(* instruction ra (instruction_lookups/ra_virtual.rs).                     *)
(***************************************************************************)
EXTENDS ClaimReductions

CeilDiv(a, b) == (a + b - 1) \div b

\* OneHotParams::from_config: chunks of each family.
OneHotParams(d) ==
    [instruction |-> CeilDiv(d.lookupBits, d.chunkBits), bytecode |-> CeilDiv(d.bytecodeBits, d.chunkBits),
     ram |-> CeilDiv(LogK(d), d.chunkBits)]

PolyCount(d) == LET p == OneHotParams(d) IN p.instruction + p.bytecode + p.ram

\* RaIndices::from_cycle, in the order of get_index.
RaIndices(d, j) ==
    LET p == OneHotParams(d)
        chunks(value, count) == Vec(count, LAMBDA i : AddressChunk(value, i, count, d.chunkBits))
        word == AccessedWord(d, j)
    IN chunks(At(d.lookupIndex, j), p.instruction) \o chunks(At(d.pc, j), p.bytecode)
       \o (IF word = NoIndex THEN Vec(p.ram, LAMBDA i : NoIndex) ELSE chunks(word, p.ram))

ComputeRaIndices(d) == Vec(Len(d.ram), LAMBDA j : RaIndices(d, j))

\* compute_all_G: G_i(k) sums eq(r_cycle, j) over the cycles whose chunk i is k.
ComputeAllG(d, r) ==
    LET loBits  == Len(r) \div 2
        hi      == Evals(Take(r, Len(r) - loBits))
        lo      == Evals(Drop(r, Len(r) - loBits))
        indices == ComputeRaIndices(d)
        touched(i, k, h) == {l \in 0..(Len(lo) - 1) : At(At(indices, h * Len(lo) + l), i) = k}
        g(i, k) == SumOf(0, Len(hi) - 1, LAMBDA h : At(hi, h) ** SumOver(touched(i, k, h), LAMBDA l : At(lo, l)))
    IN Vec(PolyCount(d), LAMBDA i : Vec(2^d.chunkBits, LAMBDA k : g(i, k)))

\* SharedRaPolynomials: a table for each polynomial and each label, the label
\* being the bits of the bound variables, the first bound first. Only the
\* order from low to high is used.
SharedNew(tables, indices) ==
    [bound |-> 0, tables |-> <<tables>>, indices |-> indices, polys |-> <<>>]

SharedEntry(s, i, label, cycle) ==
    LET k == At(At(s.indices, cycle), i)
    IN IF k = NoIndex THEN 0 ELSE At(At(At(s.tables, label), i), k)

SharedRound1Coeff(s, i, j) == SharedEntry(s, i, 0, j)

SharedRound2Coeff(s, i, j) == SharedEntry(s, i, 0, 2 * j) ++ SharedEntry(s, i, 1, 2 * j + 1)

SharedRound3Coeff(s, i, j) ==
    SharedEntry(s, i, 0, 4 * j) ++ SharedEntry(s, i, 2, 4 * j + 1)
    ++ SharedEntry(s, i, 1, 4 * j + 2) ++ SharedEntry(s, i, 3, 4 * j + 3)

SharedCoeff(s, i, j) ==
    CASE s.bound = 0 -> SharedRound1Coeff(s, i, j)
      [] s.bound = 1 -> SharedRound2Coeff(s, i, j)
      [] s.bound = 2 -> SharedRound3Coeff(s, i, j)
      [] OTHER       -> At(At(s.polys, i), j)

ScaleAll(tables, c) == Vec(Len(tables), LAMBDA i : Scale(At(tables, i), c))

\* Each label splits in two, by eq(0, r) and by eq(1, r).
SplitLabels(tables, r) ==
    Vec(2 * Len(tables), LAMBDA i : ScaleAll(At(tables, i \div 2), EqBit(i % 2, r)))

SharedRound1Bind(s, r) == [s EXCEPT !.bound = 1, !.tables = SplitLabels(@, r)]

SharedRound2Bind(s, r) == [s EXCEPT !.bound = 2, !.tables = SplitLabels(@, r)]

SharedRound3Bind(s, r) ==
    LET q == [s EXCEPT !.tables = SplitLabels(@, r)]
        labels == <<0, 4, 2, 6, 1, 5, 3, 7>>
        coeff(i, j) == SumOf(0, 7, LAMBDA o : SharedEntry(q, i, At(labels, o), 8 * j + o))
    IN [s EXCEPT !.bound = 3, !.tables = <<>>, !.indices = <<>>,
                 !.polys = Vec(Len(s.tables[1]), LAMBDA i :
                               Vec(Len(s.indices) \div 8, LAMBDA j : coeff(i, j)))]

SharedBind(s, r) ==
    CASE s.bound = 0 -> SharedRound1Bind(s, r)
      [] s.bound = 1 -> SharedRound2Bind(s, r)
      [] s.bound = 2 -> SharedRound3Bind(s, r)
      [] OTHER       -> [s EXCEPT !.polys = BindAll(@, r)]

\* final_sumcheck_claim: panics before the third binding.
SharedFinal(s, i) == IF s.bound = 3 THEN At(s.polys, i)[1] ELSE -1

\* ExpandingTable::update, from low to high.
ExpandTable(values, r) ==
    Vec(Len(values), LAMBDA i : At(values, i) -- At(values, i) ** r) \o Scale(values, r)

-----------------------------------------------------------------------------
\* BooleanitySumcheckParams::new: the address is the last challenges of the
\* point of stage 5, in the order they were drawn; gamma is never 0.
BoolAddress(d) == LET drawn == Rev(d.rLookup) IN Drop(drawn, Len(drawn) - d.chunkBits)

BoolCycle(d) == Rev(d.rCycle)

BoolGamma(d) == IF d.gamma = 0 THEN 1 ELSE d.gamma

BoolInitialize(d) ==
    [b |-> GruenNew(BoolAddress(d), LowToHigh, 1), d |-> GruenNew(BoolCycle(d), LowToHigh, 1),
     g |-> ComputeAllG(d, BoolCycle(d)), f |-> <<1>>, eqrr |-> 0, h |-> <<>>]

\* compute_phase1_message: the variables bound so far are in f, the next one
\* is bit m - 1 of k, and the others are in the split eq.
BoolPhase1Message(d, st, round, claim) ==
    LET m == round + 1
        term(i, kp, k) == [gf |-> At(At(st.g, i), kp * 2^m + k) ** At(st.f, k % 2^(m - 1)),
                           f  |-> At(st.f, k % 2^(m - 1)), low |-> k \div 2^(m - 1) = 0]
        atZero(t) == IF t.low THEN t.gf ** t.f -- t.gf ELSE 0
        square(t) == t.gf ** t.f
        fold(part(_)) == FoldOutIn(st.b, LAMBDA kp : SumOf(0, PolyCount(d) - 1, LAMBDA i :
                             Pow(BoolGamma(d), 2 * i) ** SumOf(0, 2^m - 1, LAMBDA k : part(term(i, kp, k)))))
    IN GruenPolyDeg3(st.b, fold(atZero), fold(square), claim)

\* compute_phase2_message: h is scaled by the powers of gamma, so a square
\* carries the even power.
BoolPhase2Message(d, st, claim) ==
    LET h(i, j) == SharedCoeff(st.h, i, j)
        slope(i, j) == h(i, 2 * j + 1) -- h(i, 2 * j)
        rho(i)  == Pow(BoolGamma(d), i)
        over(f(_)) == SumOf(0, PolyCount(d) - 1, f)
        c == FoldOutIn(st.d, LAMBDA j : over(LAMBDA i : h(i, 2 * j) ** (h(i, 2 * j) -- rho(i))))
        e == FoldOutIn(st.d, LAMBDA j : over(LAMBDA i : slope(i, j) ** slope(i, j)))
    IN Scale(GruenPolyDeg3(st.d, c, e, claim // st.eqrr), st.eqrr)

BoolMessage(d, st, round, claim) ==
    IF round < d.chunkBits THEN BoolPhase1Message(d, st, round, claim) ELSE BoolPhase2Message(d, st, claim)

\* ingest_challenge: after the last address variable the polynomials appear.
BoolIngest(d, st, r, round) ==
    LET bound == [st EXCEPT !.b = GruenBind(@, r), !.f = ExpandTable(@, r)]
        tables == Vec(PolyCount(d), LAMBDA i : Scale(bound.f, Pow(BoolGamma(d), i)))
    IN IF round >= d.chunkBits
       THEN [st EXCEPT !.d = GruenBind(@, r), !.h = SharedBind(@, r)]
       ELSE IF round = d.chunkBits - 1
       THEN [bound EXCEPT !.eqrr = bound.b.scalar, !.g = <<>>, !.f = <<>>,
                          !.h = SharedNew(tables, ComputeRaIndices(d))]
       ELSE bound

BoolPoint(d, challenges) == Rev(Take(challenges, d.chunkBits)) \o Rev(Drop(challenges, d.chunkBits))

BoolPoints(d, challenges) == [i \in 1..PolyCount(d) |-> BoolPoint(d, challenges)]

\* A mutant: the powers of gamma are left in.
BoolClaimsScaled(d, st) == [i \in 1..PolyCount(d) |-> SharedFinal(st.h, i - 1)]

\* cache_openings takes the powers of gamma out again.
BoolClaims(d, st) ==
    [i \in 1..PolyCount(d) |-> SharedFinal(st.h, i - 1) ** FieldInverse(Pow(BoolGamma(d), i - 1))]

BoolEq(d, challenges) == EqMle(challenges, Rev(BoolAddress(d)) \o Rev(BoolCycle(d)))

BoolExpected(d, challenges, op) ==
    BoolEq(d, challenges)
    ** SumOf(1, Len(op), LAMBDA i : (op[i] ** op[i] -- op[i]) ** Pow(BoolGamma(d), 2 * (i - 1)))

\* A mutant: batched by gamma, not by its square.
BoolConstraintGamma(d, challenges, op) ==
    LET coeff(i) == BoolEq(d, challenges) ** Pow(BoolGamma(d), i - 1)
    IN SumOf(1, Len(op), LAMBDA i : coeff(i) ** op[i] ** op[i] ++ (0 -- coeff(i)) ** op[i])

BoolConstraint(d, challenges, op) ==
    LET coeff(i) == BoolEq(d, challenges) ** Pow(BoolGamma(d), 2 * (i - 1))
    IN SumOf(1, Len(op), LAMBDA i : coeff(i) ** op[i] ** op[i] ++ (0 -- coeff(i)) ** op[i])

-----------------------------------------------------------------------------
\* hamming_weight.rs: the weight, the booleanity and the virtualization claim of
\* every one-hot polynomial. The inputs are keyed by kind and polynomial; the
\* weight of a polynomial that has an index in every cycle is 1.
WeightClaim(d, op, i) ==
    LET p == OneHotParams(d)
    IN IF i <= p.instruction + p.bytecode THEN 1 ELSE op[<<"weight", 0>>]

WeightInitialize(d) ==
    [g |-> ComputeAllG(d, d.rCycle), eqBool |-> Evals(d.rBool),
     eqVirt |-> [i \in 1..PolyCount(d) |-> Evals(d.rVirtual[i])]]

WeightMessage(d, st, claim) ==
    LET weights(i) == Vec(Len(st.eqBool), LAMBDA k :
                          Pow(d.gamma, 3 * i - 3) ++ Pow(d.gamma, 3 * i - 2) ** At(st.eqBool, k)
                          ++ Pow(d.gamma, 3 * i - 1) ** At(st.eqVirt[i], k))
    IN FromEvalsAndHint(claim, Weighted([i \in 1..PolyCount(d) |-> QuadraticEvals(st.g[i], weights(i))],
                                        OneVec(PolyCount(d))))

WeightIngest(st, r) ==
    [g |-> BindAll(st.g, r), eqBool |-> BoundBot(st.eqBool, r), eqVirt |-> BindAll(st.eqVirt, r)]

WeightPoints(d, challenges) == [i \in 1..PolyCount(d) |-> Rev(challenges) \o d.rCycle]

WeightClaims(st) == [i \in 1..Len(st.g) |-> st.g[i][1]]

WeightInputClaim(d, op) ==
    SumOf(1, PolyCount(d), LAMBDA i :
        Pow(d.gamma, 3 * i - 3) ** WeightClaim(d, op, i) ++ Pow(d.gamma, 3 * i - 2) ** op[<<"bool", i>>]
        ++ Pow(d.gamma, 3 * i - 1) ** op[<<"virt", i>>])

WeightFactor(d, challenges, i) ==
    Pow(d.gamma, 3 * i - 3) ++ Pow(d.gamma, 3 * i - 2) ** EqMle(Rev(challenges), d.rBool)
    ++ Pow(d.gamma, 3 * i - 1) ** EqMle(Rev(challenges), d.rVirtual[i])

WeightExpected(d, challenges, op) ==
    SumOf(1, Len(op), LAMBDA i : op[i] ** WeightFactor(d, challenges, i))

WeightConstraint(d, challenges, op) ==
    LET values == [i \in 1..PolyCount(d) |-> WeightFactor(d, challenges, i)]
    IN SumOf(1, Len(op), LAMBDA i : values[i] ** op[i])

-----------------------------------------------------------------------------
\* instruction_lookups/ra_virtual.rs: the virtual ra polynomials as products of
\* committed ones, the first of each product scaled by its power of gamma.
CommittedPerVirtual(d) == d.virtualBits \div d.chunkBits

VirtualCount(d) == d.lookupBits \div d.virtualBits

\* The power of gamma that scales committed polynomial i.
BatchScale(d, i) ==
    IF i % CommittedPerVirtual(d) = 0 THEN Pow(d.gamma, i \div CommittedPerVirtual(d)) ELSE 1

InstrRaInitialize(d) ==
    LET chunks == AddressChunks(d.rLookup, d.chunkBits)
        count  == OneHotParams(d).instruction
        index(j, i) == AddressChunk(At(d.lookupIndex, j), i, count, d.chunkBits)
    IN [eq |-> GruenNew(d.rCycle, LowToHigh, 1),
        ra |-> Vec(count, LAMBDA i : RaNew(Vec(Len(d.lookupIndex), LAMBDA j : index(j, i)),
                                           EvalsSerial(At(chunks, i), BatchScale(d, i))))]

InstrRaMessage(d, st, claim) ==
    FinishProductSum(SumOfProductsEvals(st.ra, CommittedPerVirtual(d), st.eq), claim, st.eq)

InstrRaIngest(st, r) ==
    [eq |-> GruenBind(st.eq, r), ra |-> Vec(Len(st.ra), LAMBDA i : RaBind(At(st.ra, i), r, LowToHigh))]

InstrRaPoints(d, challenges) ==
    LET chunks == AddressChunks(d.rLookup, d.chunkBits)
    IN [i \in 1..Len(chunks) |-> chunks[i] \o Rev(challenges)]

\* cache_openings takes the scale out again.
InstrRaClaims(d, st) == [i \in 1..Len(st.ra) |-> RaFinal(st.ra[i]) // BatchScale(d, i - 1)]

InstrRaInputClaim(d, op) == SumOf(1, VirtualCount(d), LAMBDA i : Pow(d.gamma, i - 1) ** op[<<"virtual", i>>])

InstrRaProducts(d, op, weight(_)) ==
    LET m == CommittedPerVirtual(d)
    IN SumOf(0, VirtualCount(d) - 1, LAMBDA v : weight(v) ** ProductOf(1, m, LAMBDA k : op[v * m + k]))

InstrRaExpected(d, challenges, op) ==
    EqMle(d.rCycle, Rev(challenges)) ** InstrRaProducts(d, op, LAMBDA v : Pow(d.gamma, v))

InstrRaConstraint(d, challenges, op) ==
    InstrRaProducts(d, op, LAMBDA v : EqMle(d.rCycle, Rev(challenges)) ** Pow(d.gamma, v))
=============================================================================
