-------------------------- MODULE OnChainVerifier --------------------------
(***************************************************************************)
(* onchain-verifier/contracts: the verifier of the sumchecks, written down *)
(* again in Solidity.  Every stage is a formula over an array of flushed   *)
(* claims, addressed by position, and over the challenges of the whole     *)
(* batch, of which an instance finds its own by an offset.                 *)
(*                                                                         *)
(* The points an instance refers to are in d, as for the other verifier;   *)
(* c holds the challenges of the batch and fc the claims of the stage.     *)
(***************************************************************************)
EXTENDS SpartanProvers

-----------------------------------------------------------------------------
(***************************************************************************)
(* subprotocols/sumcheck_claim.rs: what six of the sumchecks claim, as     *)
(* data: an input expression, a polynomial that batches, and an output     *)
(* expression.  The extractors read it, and test builds of the verifiers   *)
(* compare their formulas with it.                                         *)
(***************************************************************************)

\* ClaimExpr: a set of terms, a coefficient and the openings it multiplies.
Var(name) == {<<1, <<name>>>>}
One == {<<1, <<>>>>}
Minus(expr) == {<<-t[1], t[2]>> : t \in expr}
MulExpr(e1, e2) == {<<p[1][1] * p[2][1], p[1][2] \o p[2][2]>> : p \in e1 \X e2}

ExprValue(expr, op) ==
    SumOver(expr, LAMBDA t : t[1] ** ProductOf(1, Len(t[2]), LAMBDA i : op[t[2][i]]))

Claim(input, batching, output) == [input |-> input, batching |-> batching, output |-> output]

\* VerifierEvaluablePolynomial::evaluate.
BatchingValue(d, batching, r) ==
    CASE batching = "Eq" -> EqMle(d.rCycle, r)
      [] batching = "EqPlusOneOuter" -> EqPlusOne(d.rCycle, r)
      [] batching = "EqPlusOneProduct" -> EqPlusOne(ShiftProduct(d), r)
      [] batching = "UnmapRamAddress" -> UnmapEvaluate(r, d.lowest)

\* input_output_claims of each of the six.
RamRwClaimTable ==
    <<Claim(Var("RamReadValue"), "Eq", MulExpr(Var("RamRa"), Var("RamVal"))),
      Claim(Var("RamWriteValue"), "Eq", MulExpr(Var("RamRa"), Var("RamVal") \cup Var("RamInc")))>>

RegRwClaimTable ==
    <<Claim(Var("RdWriteValue"), "Eq", MulExpr(Var("RdWa"), Var("RegistersVal") \cup Var("RdInc"))),
      Claim(Var("Rs1Value"), "Eq", MulExpr(Var("Rs1Ra"), Var("RegistersVal"))),
      Claim(Var("Rs2Value"), "Eq", MulExpr(Var("Rs2Ra"), Var("RegistersVal")))>>

RafClaimTable == <<Claim(Var("RamAddress"), "UnmapRamAddress", Var("RamRa"))>>

HammingClaimTable ==
    LET h == Var("RamHammingWeight")
    IN  <<Claim({}, "Eq", MulExpr(h, h) \cup Minus(h))>>

InputClaimTable ==
    <<Claim(Var("RightInstructionInput"), "Eq",
            MulExpr(Var("RightIsRs2"), Var("Rs2Value")) \cup MulExpr(Var("RightIsImm"), Var("Imm"))),
      Claim(Var("LeftInstructionInput"), "Eq",
            MulExpr(Var("LeftIsRs1"), Var("Rs1Value"))
            \cup MulExpr(Var("LeftIsPC"), Var("UnexpandedPC")))>>

ShiftClaimTable ==
    <<Claim(Var("NextUnexpandedPC"), "EqPlusOneOuter", Var("UnexpandedPC")),
      Claim(Var("NextPC"), "EqPlusOneOuter", Var("PC")),
      Claim(Var("NextIsVirtual"), "EqPlusOneOuter", Var("VirtualInstruction")),
      Claim(Var("NextIsFirstInSequence"), "EqPlusOneOuter", Var("IsFirstInSequence")),
      Claim(One \cup Minus(Var("NextIsNoop")), "EqPlusOneProduct", One \cup Minus(Var("IsNoop")))>>

ClaimTable(k) ==
    CASE k = "RamReadWriteChecking" -> RamRwClaimTable
      [] k = "RegistersReadWriteChecking" -> RegRwClaimTable
      [] k = "RamRafEvaluation" -> RafClaimTable
      [] k = "HammingBooleanity" -> HammingClaimTable
      [] k = "InstructionInput" -> InputClaimTable
      [] k = "Shift" -> ShiftClaimTable
      [] OTHER -> <<>>

\* InputOutputClaims::input_claim; without the scaling of the dummy rounds.
TableInputClaim(k, d, op) ==
    LET table == ClaimTable(k)
    IN  SumOf(1, Len(table), LAMBDA i : Pow(d.gamma, i - 1) ** ExprValue(table[i].input, op))

\* expected_output_claim_with_batching_parameters.
TableOutputClaim(k, d, r, op) ==
    LET table == ClaimTable(k)
    IN  SumOf(1, Len(table), LAMBDA i :
            Pow(d.gamma, i - 1) ** BatchingValue(d, table[i].batching, r)
            ** ExprValue(table[i].output, op))

\* The part of the opening point that the verifiers pass.
TablePoint(k, d, challenges) ==
    CASE k = "RamReadWriteChecking" -> RamRwPoint(d, challenges).cycle
      [] k = "RegistersReadWriteChecking" -> RegRwPoint(d, challenges).cycle
      [] k = "RamRafEvaluation" -> AddressPoint(d, challenges)
      [] OTHER -> Rev(challenges)

----------------------------------------------------------------------------
(* EqPolynomial.sol *)

EqTerm(x, y) == x ** y ++ (1 ++ x ** y -- (x ++ y))

ContractMle(x, y) == ProductOf(1, Len(x), LAMBDA i : EqTerm(x[i], y[i]))

MleReversed(x, y) == ProductOf(0, Len(x) - 1, LAMBDA i : EqTerm(At(x, i), At(y, Len(x) - 1 - i)))

MleSlice(x, c, offset) == ProductOf(0, Len(x) - 1, LAMBDA i : EqTerm(At(x, i), At(c, offset + i)))

MleSliceReversed(x, c, offset) ==
    ProductOf(0, Len(x) - 1, LAMBDA i : EqTerm(At(x, i), At(c, offset + Len(x) - 1 - i)))

\* The sum over the first position in which x is below y.
ContractLt(x, y) ==
    SumOf(1, Len(x), LAMBDA i : (1 -- x[i]) ** y[i] ** ContractMle(Take(x, i - 1), y))

LtSliceReversed(c, offset, y) ==
    LET x(i) == At(c, offset + Len(y) - 1 - i)
    IN  SumOf(0, Len(y) - 1, LAMBDA i :
            (1 -- x(i)) ** At(y, i) ** ProductOf(0, i - 1, LAMBDA j : EqTerm(x(j), At(y, j))))

\* The sum over the bit that turns from 0 to 1: the lower ones turn to 0, the
\* higher ones agree.  Both arguments from the lowest bit.
PlusOneFromLow(x, y) ==
    LET suffix(k) == ProductOf(k, Len(x) - 1, LAMBDA i : EqTerm(At(x, i), At(y, i)))
        lower(k) == ProductOf(0, k - 1, LAMBDA i : At(x, i) ** (1 -- At(y, i)))
    IN  SumOf(0, Len(x) - 1, LAMBDA k : lower(k) ** (1 -- At(x, k)) ** At(y, k) ** suffix(k + 1))

ContractEqPlusOne(x, y) == PlusOneFromLow(Rev(x), Rev(y))

EqPlusOneSliceReversed(x, c, offset) ==
    PlusOneFromLow(Rev(x), SubSeq(c, offset + 1, offset + Len(x)))

----------------------------------------------------------------------------
(* SumcheckVerifier.sol, BatchedSumcheckVerifier.sol *)

ContractEvalFromHint(coeffs, hint, x) ==
    LET linear == hint -- (coeffs[1] ++ coeffs[1]) -- Sum(Drop(coeffs, 1))
    IN  coeffs[1] ++ x ** linear
        ++ SumOf(2, Len(coeffs), LAMBDA i : coeffs[i] ** Pow(x, i))

\* SumcheckVerifier.verify, given the challenges of the transcript.
ContractSumcheck(polys, claim, challenges) ==
    LET e[i \in 0..Len(polys)] ==
            IF i = 0 THEN claim ELSE ContractEvalFromHint(polys[i], e[i - 1], challenges[i])
    IN  e[Len(polys)]

CombinedClaim(claims, rounds, coeffs) ==
    LET maxRounds == Max(Range(rounds))
    IN  SumOf(1, Len(claims), LAMBDA i : TwoTo[maxRounds - rounds[i]] ** claims[i] ** coeffs[i])

----------------------------------------------------------------------------
(* UniSkipVerifier.sol *)

OuterNumCoeffs == 28
ProductNumCoeffs == 7

EvaluateUniPoly(coeffs, x) ==
    LET from[i \in 1..Len(coeffs)] ==
            IF i = Len(coeffs) THEN coeffs[i] ELSE from[i + 1] ** x ++ coeffs[i]
    IN  from[1]

OuterDomainSum(coeffs) == SumOf(-4, 5, LAMBDA t : EvaluateUniPoly(coeffs, t % FieldSize))

ProductDomainSum(coeffs) == SumOf(-1, 1, LAMBDA t : EvaluateUniPoly(coeffs, t % FieldSize))

LagrangeEvals3(x) == <<x ** (x -- 1) ** TwoInv, 1 -- x ** x, x ** (x ++ 1) ** TwoInv>>

LagrangeKernel3(tau, r) == Dot(LagrangeEvals3(tau), LagrangeEvals3(r))

----------------------------------------------------------------------------
(* R1CSEvaluator.sol: the constraints once more, by the positions of the   *)
(* inputs in z.                                                            *)

LagrangeWeights10(x) ==
    LET diff(i) == x -- (i - 4)
        sign(k) == IF (9 - k) % 2 = 0 THEN 1 ELSE 0 -- 1
        denominator(k) == Fact(k) ** Fact(9 - k) ** sign(k)
    IN  Vec(10, LAMBDA i : (ProductOf(0, i - 1, diff) ** ProductOf(i + 1, 9, diff))
                           // denominator(i))

Group1A(z) ==
    LET at(i) == At(z, i)
        addSubMul == at(21) ++ at(22) ++ at(23)
    IN  <<1 -- at(24) -- at(25), at(24), at(24), at(25), addSubMul, 1 -- addSubMul, at(29), at(20),
          at(28) -- at(34), at(17) -- at(18)>>

Group1B(z) ==
    LET at(i) == At(z, i)
    IN  <<at(7), at(11) -- at(12), at(11) -- at(10), at(9) -- at(12), at(13), at(13) -- at(0),
          at(19) -- 1, at(15) -- at(19), at(16) -- at(4) -- 1, 1 -- at(30)>>

Group2A(z) ==
    LET at(i) == At(z, i)
    IN  <<at(24) ++ at(25), at(21), at(22), at(23), 1 -- at(21) -- at(22) -- at(23) -- at(31),
          at(27), at(26), at(3), 1 -- at(3) -- at(26)>>

Group2B(z) ==
    LET at(i) == At(z, i)
    IN  <<at(7) -- at(8) -- at(6), at(14) -- at(0) -- at(1),
          (at(14) -- at(0) ++ at(1)) -- TwoTo[8 * WordBytes], at(14) -- at(2), at(14) -- at(1),
          at(10) -- at(19), (at(10) -- at(5) -- 4) ++ 2 ** at(32), at(15) -- at(5) -- at(6),
          (at(15) -- at(5) -- 4) ++ 4 ** at(30) ++ 2 ** at(32)>>

EvaluateAzBz(z, w, rStream) ==
    LET blend(g1, g2) == Dot(g1, w) ++ rStream ** (Dot(g2, w) -- Dot(g1, w))
    IN  blend(Group1A(z), Group2A(z)) ** blend(Group1B(z), Group2B(z))

----------------------------------------------------------------------------
(* StageVerification.sol: the claims each stage flushes.  A claim that two *)
(* instances of a stage open at one point has one position.                *)

Claims(kernels, names) == Vec(Len(names), LAMBDA i : {<<k, At(names, i)>> : k \in kernels})
Indexed(k, n) == Claims({k}, Vec(n, LAMBDA i : i + 1))
Others(n) == Claims({}, Zeros(n))

Stage2Layout ==
    Claims({"RamReadWriteChecking"}, <<"RamVal", "RamRa", "RamInc">>)
    \o Claims({"ProductRemainder", "LookupsReduction"},
              <<"LeftInstructionInput", "RightInstructionInput">>)
    \o Claims({"ProductRemainder"}, <<"Jump", "WriteLookupOutputToRD">>)
    \o Claims({"ProductRemainder", "LookupsReduction"}, <<"LookupOutput">>)
    \o Claims({"ProductRemainder"}, <<"Branch", "NextIsNoop", "VirtualInstruction">>)
    \o Claims({"LookupsReduction"}, <<"LeftLookupOperand", "RightLookupOperand">>)
    \o Claims({"RamRafEvaluation"}, <<"RamRa">>)
    \o Claims({"OutputCheck"}, <<"RamValFinal">>)

Stage3Layout ==
    Claims({"Shift", "InstructionInput"}, <<"UnexpandedPC">>)
    \o Claims({"Shift"}, <<"PC", "VirtualInstruction", "IsFirstInSequence", "IsNoop">>)
    \o Claims({"InstructionInput"}, <<"LeftIsRs1">>)
    \o Claims({"InstructionInput", "RegistersReduction"}, <<"Rs1Value">>)
    \o Claims({"InstructionInput"}, <<"LeftIsPC", "RightIsRs2">>)
    \o Claims({"InstructionInput", "RegistersReduction"}, <<"Rs2Value">>)
    \o Claims({"InstructionInput"}, <<"RightIsImm", "Imm">>)
    \o Claims({"RegistersReduction"}, <<"RdWriteValue">>)

Stage4Layout ==
    Claims({"RegistersReadWriteChecking"}, <<"RegistersVal", "Rs1Ra", "Rs2Ra", "RdWa", "RdInc">>)
    \o Claims({"RamValCheck"}, <<"RamRa", "RamInc">>)

\* After the flags of the tables, the chunks and the raf flag of the
\* instruction lookups.
LookupTableCount == 40
InstrReadRafClaims(d) == LookupTableCount + VirtualCount(d) + 1

Stage5Layout(d) ==
    Others(InstrReadRafClaims(d))
    \o Claims({"RamRaReduction"}, <<"RamRa">>)
    \o Claims({"RegistersValEvaluation"}, <<"RdInc", "RdWa">>)

Stage6Layout(d) ==
    LET p == OneHotParams(d)
    IN  Others(p.bytecode)
        \o Indexed("Booleanity", PolyCount(d))
        \o Claims({"HammingBooleanity"}, <<"RamHammingWeight">>)
        \o Indexed("RamRaVirtual", p.ram)
        \o Indexed("InstructionRaVirtual", p.instruction)
        \o Claims({"IncReduction"}, <<"RamInc", "RdInc">>)

FlushLayout(stage, d) ==
    CASE stage = 1 -> Claims({"OuterRemaining"}, R1csInputs)
      [] stage = 2 -> Stage2Layout
      [] stage = 3 -> Stage3Layout
      [] stage = 4 -> Stage4Layout
      [] stage = 5 -> Stage5Layout(d)
      [] stage = 6 -> Stage6Layout(d)
      [] stage = 7 -> Indexed("HammingWeightReduction", PolyCount(d))

\* The claims as instance k sees them; it reads no others.
FlushedClaims(stage, k, d, op) ==
    LET layout == FlushLayout(stage, d)
    IN  Vec(Len(layout), LAMBDA i :
            SumOver({p \in At(layout, i) : p[1] = k}, LAMBDA p : op[p[2]]))

----------------------------------------------------------------------------
(* The instances of each stage.  nCycleVars is the length of r_cycle.      *)

\* verifyStage1: the kernel in both variables, and the constraints.
Stage1Output(d, c, fc) ==
    Dot(LagrangeWeights10(d.tauHigh), LagrangeWeights10(d.r0))
    ** MleSliceReversed(OuterTauLow(d), c, 0)
    ** EvaluateAzBz(fc, LagrangeWeights10(d.r0), c[1])

\* The cycle part of the point of the two sumchecks in three phases.
ExtractCyclePoint3Phase(d, c) ==
    LET remaining == Len(d.rCycle) - d.phase1
        phase3 == d.phase1 + d.phase2
    IN  Vec(remaining, LAMBDA i : At(c, phase3 + remaining - 1 - i))
        \o Vec(d.phase1, LAMBDA i : At(c, d.phase1 - 1 - i))

\* A mutant: every instance starts with the batch.
OffsetOfBatch(d, c) == 0

\* The challenges of the cycle variables end the batch.
CycleOffset(d, c) == Len(c) - Len(d.rCycle)

RamRwOutput(d, c, fc) ==
    ContractMle(d.rCycle, ExtractCyclePoint3Phase(d, c))
    ** At(fc, 1) ** (At(fc, 0) ++ d.gamma ** (At(fc, 0) ++ At(fc, 2)))

ProductOutput(d, c, fc) ==
    LET w == LagrangeEvals3(d.r0)
        fusedLeft == Dot(w, <<At(fc, 3), At(fc, 7), At(fc, 5)>>)
        fusedRight == Dot(w, <<At(fc, 4), At(fc, 8), 1 -- At(fc, 9)>>)
    IN  LagrangeKernel3(d.tauHigh, d.r0) ** MleSliceReversed(d.rCycle, c, CycleOffset(d, c))
        ** fusedLeft ** fusedRight

LookupsReductionOutput(d, c, fc) ==
    MleSliceReversed(d.rCycle, c, CycleOffset(d, c))
    ** (At(fc, 7) ++ d.gamma ** At(fc, 11) ++ Pow(d.gamma, 2) ** At(fc, 12)
        ++ Pow(d.gamma, 3) ** At(fc, 3) ++ Pow(d.gamma, 4) ** At(fc, 4))

\* verify_for_export: the address of the evaluations it hands to stage 2.
ExportedAddress(d, c) ==
    LET slice == Drop(c, d.phase1)
    IN  Rev(Take(slice, d.phase2) \o Drop(slice, d.phase2 + CycleGap(d)))

RafOutput(d, c, fc) == UnmapEvaluate(ExportedAddress(d, c), d.lowest) ** At(fc, 13)

\* The contract reads all rounds of the instance as an address: the slice has
\* the length of r_address when the first phase binds every cycle variable.
OutputCheckOutput(d, c, fc) ==
    LET r == ExportedAddress(d, c)
    IN  MleSliceReversed(d.rAddress, c, Len(c) - Len(d.rAddress))
        ** RangeMask(r, IoStart(d), IoEnd(d)) ** (At(fc, 14) -- EvalIo(d.layout, d.io, r))

ShiftOutput(d, c, fc) ==
    (At(fc, 0) ++ d.gamma ** At(fc, 1) ++ Pow(d.gamma, 2) ** At(fc, 2) ++ Pow(d.gamma, 3) ** At(fc, 3))
    ** EqPlusOneSliceReversed(d.rCycle, c, 0)
    ++ Pow(d.gamma, 4) ** (1 -- At(fc, 4)) ** EqPlusOneSliceReversed(ShiftProduct(d), c, 0)

InstructionInputOutput(d, c, fc) ==
    LET left == At(fc, 5) ** At(fc, 6) ++ At(fc, 7) ** At(fc, 0)
        right == At(fc, 8) ** At(fc, 9) ++ At(fc, 10) ** At(fc, 11)
    IN  MleSliceReversed(d.rCycle, c, 0) ** (right ++ d.gamma ** left)

RegistersReductionOutput(d, c, fc) ==
    MleSliceReversed(d.rCycle, c, 0)
    ** (At(fc, 12) ++ d.gamma ** At(fc, 6) ++ Pow(d.gamma, 2) ** At(fc, 9))

RegRwOutput(d, c, fc) ==
    LET val == At(fc, 0)
        rdWrite == At(fc, 3) ** (At(fc, 4) ++ val)
    IN  ContractMle(d.rCycle, ExtractCyclePoint3Phase(d, c))
        ** (rdWrite ++ d.gamma ** (At(fc, 1) ** val ++ d.gamma ** At(fc, 2) ** val))

\* LOG_K_REGISTERS rounds of the other instance come first.
RamValOutput(d, c, fc) ==
    At(fc, 6) ** At(fc, 5) ** (LtSliceReversed(c, LogOf(RegisterCount), d.rCycle) ++ d.gamma)

RamRaReductionOutput(d, c, fc) ==
    LET eq(i) == MleSliceReversed(d.rCycles[i], c, CycleOffset(d, c))
    IN  (eq(1) ++ d.gamma ** eq(2) ++ Pow(d.gamma, 2) ** eq(3)) ** At(fc, InstrReadRafClaims(d))

RegValOutput(d, c, fc) ==
    LET first == InstrReadRafClaims(d) + 1
    IN  At(fc, first) ** At(fc, first + 1) ** LtSliceReversed(c, CycleOffset(d, c), d.rCycle)

\* Stage 6: claimIdx moves on by the claims of each instance.
BooleanityOutput(d, c, fc) ==
    LET claimIdx == OneHotParams(d).bytecode
        offset == CycleOffset(d, c) - d.chunkBits
        ra(i) == At(fc, claimIdx + i)
    IN  MleSlice(Rev(BoolAddress(d)), c, offset) ** MleSlice(d.rCycle, c, offset + d.chunkBits)
        ** SumOf(0, PolyCount(d) - 1, LAMBDA i :
               Pow(BoolGamma(d) ** BoolGamma(d), i) ** (ra(i) ** ra(i) -- ra(i)))

HammingIdx(d) == OneHotParams(d).bytecode + PolyCount(d)

HammingOutput(d, c, fc) ==
    LET h == At(fc, HammingIdx(d))
    IN  (h ** h -- h) ** MleSliceReversed(d.rCycle, c, CycleOffset(d, c))

RamRaVirtualOutput(d, c, fc) ==
    MleSliceReversed(d.rCycle, c, CycleOffset(d, c))
    ** ProductOf(1, OneHotParams(d).ram, LAMBDA i : At(fc, HammingIdx(d) + i))

LookupsRaIdx(d) == HammingIdx(d) + 1 + OneHotParams(d).ram

LookupsRaOutput(d, c, fc) ==
    LET m == CommittedPerVirtual(d)
        product(i) == ProductOf(0, m - 1, LAMBDA j : At(fc, LookupsRaIdx(d) + i * m + j))
    IN  MleSliceReversed(d.rCycle, c, CycleOffset(d, c))
        ** SumOf(0, VirtualCount(d) - 1, LAMBDA i : Pow(d.gamma, i) ** product(i))

IncOutput(d, c, fc) ==
    LET claimIdx == LookupsRaIdx(d) + OneHotParams(d).instruction
        eq(i) == MleSliceReversed(d.rCycles[i], c, CycleOffset(d, c))
    IN  At(fc, claimIdx) ** (eq(1) ++ d.gamma ** eq(2))
        ++ Pow(d.gamma, 2) ** At(fc, claimIdx + 1) ** (eq(3) ++ d.gamma ** eq(4))

Stage7Output(d, c, fc) ==
    LET rho == Rev(c)
        weight(i) == Pow(d.gamma, 3 * i) ++ Pow(d.gamma, 3 * i + 1) ** ContractMle(rho, d.rBool)
                     ++ Pow(d.gamma, 3 * i + 2) ** ContractMle(rho, At(d.rVirtual, i))
    IN  SumOf(0, PolyCount(d) - 1, LAMBDA i : At(fc, i) ** weight(i))

----------------------------------------------------------------------------
(* The claims the stages start from, of the exported openings.             *)

Stage3Claims(k, d, in) ==
    CASE k = "Shift" ->
             in["NextUnexpandedPC"] ++ d.gamma ** in["NextPC"] ++ Pow(d.gamma, 2) ** in["NextIsVirtual"]
             ++ Pow(d.gamma, 3) ** in["NextIsFirstInSequence"]
             ++ Pow(d.gamma, 4) ** (1 -- in["NextIsNoop"])
      [] k = "InstructionInput" -> in["RightInstructionInput"] ++ d.gamma ** in["LeftInstructionInput"]
      [] k = "RegistersReduction" ->
             in["RdWriteValue"] ++ (d.gamma ** in["Rs1Value"] ++ Pow(d.gamma, 2) ** in["Rs2Value"])

Stage4Claims(k, d, in, initEval) ==
    CASE k = "RegistersReadWriteChecking" ->
             in["RdWriteValue"] ++ d.gamma ** (in["Rs1Value"] ++ d.gamma ** in["Rs2Value"])
      [] k = "RamValCheck" ->
             (in["RamVal"] -- initEval) ++ d.gamma ** (in["RamValFinal"] -- initEval)

Stage5Claims(k, d, in) ==
    CASE k = "RamRaReduction" ->
             in["RamRaRaf"] ++ (d.gamma ** in["RamRaRw"] ++ Pow(d.gamma, 2) ** in["RamRaVal"])
      [] k = "RegistersValEvaluation" -> in["RegistersVal"]

Stage6Claims(k, d, in) ==
    CASE k \in {"Booleanity", "HammingBooleanity"} -> 0
      [] k = "RamRaVirtual" -> in[0]
      [] k = "InstructionRaVirtual" ->
             SumOf(1, VirtualCount(d), LAMBDA i : Pow(d.gamma, i - 1) ** in[<<"virtual", i>>])
      [] k = "IncReduction" ->
             (in["RamIncRw"] ++ d.gamma ** in["RamIncVal"])
             ++ (Pow(d.gamma, 2) ** in["RdIncRw"] ++ Pow(d.gamma, 3) ** in["RdIncVal"])

\* With the weights that verify_for_export writes out for every polynomial.
Stage7Claim(d, in) ==
    LET p == OneHotParams(d)
        hw == OneVec(p.instruction + p.bytecode) \o Vec(p.ram, LAMBDA i : in[<<"weight", 0>>])
    IN  SumOf(0, PolyCount(d) - 1, LAMBDA i :
            Pow(d.gamma, 3 * i) ** At(hw, i) ++ Pow(d.gamma, 3 * i + 1) ** in[<<"bool", i + 1>>]
            ++ Pow(d.gamma, 3 * i + 2) ** in[<<"virt", i + 1>>])

----------------------------------------------------------------------------
(* verify_for_export: the instances of a stage and their rounds, as the    *)
(* contract is told them.                                                  *)

StageInstances ==
    <<<<"OuterRemaining">>,
      <<"RamReadWriteChecking", "ProductRemainder", "LookupsReduction", "RamRafEvaluation",
        "OutputCheck">>,
      <<"Shift", "InstructionInput", "RegistersReduction">>,
      <<"RegistersReadWriteChecking", "RamValCheck">>,
      <<"InstructionReadRaf", "RamRaReduction", "RegistersValEvaluation">>,
      <<"BytecodeReadRaf", "Booleanity", "HammingBooleanity", "RamRaVirtual",
        "InstructionRaVirtual", "IncReduction">>,
      <<"HammingWeightReduction">>>>

StageInstanceRounds(d) ==
    LET logT == Len(d.rCycle)
        raf == LogK(d) + logT - d.phase1
    IN  <<<<1 + logT>>,
          <<LogK(d) + logT, logT, logT, raf, raf>>,
          <<logT, logT, logT>>,
          <<LogOf(RegisterCount) + logT, logT>>,
          <<d.lookupBits + logT, logT, logT>>,
          <<d.bytecodeBits + logT, d.chunkBits + logT, logT, logT, logT, logT>>,
          <<d.chunkBits>>>>

InStage(k, stage) == k \in Range(StageInstances[stage])
Verified(k) == \E stage \in 1..7 : InStage(k, stage)
StageOf(k) == CHOOSE stage \in 1..7 : InStage(k, stage)
ExportedRounds(k, d) ==
    LET i == CHOOSE i \in DOMAIN StageInstances[StageOf(k)] : StageInstances[StageOf(k)][i] = k
    IN  StageInstanceRounds(d)[StageOf(k)][i]

ContractOutput(k, d, c, fc) ==
    CASE k = "OuterRemaining" -> Stage1Output(d, c, fc)
      [] k = "RamReadWriteChecking" -> RamRwOutput(d, c, fc)
      [] k = "ProductRemainder" -> ProductOutput(d, c, fc)
      [] k = "LookupsReduction" -> LookupsReductionOutput(d, c, fc)
      [] k = "RamRafEvaluation" -> RafOutput(d, c, fc)
      [] k = "OutputCheck" -> OutputCheckOutput(d, c, fc)
      [] k = "Shift" -> ShiftOutput(d, c, fc)
      [] k = "InstructionInput" -> InstructionInputOutput(d, c, fc)
      [] k = "RegistersReduction" -> RegistersReductionOutput(d, c, fc)
      [] k = "RegistersReadWriteChecking" -> RegRwOutput(d, c, fc)
      [] k = "RamValCheck" -> RamValOutput(d, c, fc)
      [] k = "RamRaReduction" -> RamRaReductionOutput(d, c, fc)
      [] k = "RegistersValEvaluation" -> RegValOutput(d, c, fc)
      [] k = "Booleanity" -> BooleanityOutput(d, c, fc)
      [] k = "HammingBooleanity" -> HammingOutput(d, c, fc)
      [] k = "RamRaVirtual" -> RamRaVirtualOutput(d, c, fc)
      [] k = "InstructionRaVirtual" -> LookupsRaOutput(d, c, fc)
      [] k = "IncReduction" -> IncOutput(d, c, fc)
      [] k = "HammingWeightReduction" -> Stage7Output(d, c, fc)

ContractInput(k, d, in, initEval) ==
    CASE InStage(k, 3) -> Stage3Claims(k, d, in)
      [] InStage(k, 4) -> Stage4Claims(k, d, in, initEval)
      [] InStage(k, 5) -> Stage5Claims(k, d, in)
      [] InStage(k, 6) -> Stage6Claims(k, d, in)
      [] InStage(k, 7) -> Stage7Claim(d, in)

=============================================================================
