--------------------------- MODULE SumcheckProvers ---------------------------
(***************************************************************************)
(* An honest prover of each sumcheck of the system, round by round: the    *)
(* state its polynomials are in, the message it sends, the claims it       *)
(* caches at the end, and what the verifier computes from them.            *)
(*                                                                         *)
(* The prover never holds the polynomial it sums.  Sparse matrices, tables *)
(* of one-hot coefficients, factored eq polynomials, prefix-suffix pairs   *)
(* and windows stand for it, and are thrown away and built anew at the     *)
(* borders between phases.  The properties compare what it sends with the  *)
(* sum of the verifier's polynomial over all that is still unbound.        *)
(***************************************************************************)
EXTENDS OnChainVerifier, BlindFold

-----------------------------------------------------------------------------
(***************************************************************************)
(* What the provers are compared with: the polynomials of a proof, and the *)
(* definitions of what the code computes by an algorithm.                  *)
(***************************************************************************)

(***************************************************************************)
(* What the polynomials of a proof are: for each of them the values over   *)
(* the cube that the trace gives it, and their evaluation at a point from  *)
(* the definition.  The provers are compared with these; none uses them.   *)
(***************************************************************************)

Cycles(d) == Len(d.ram)
LogT(d) == Len(d.rCycle)

\* A polynomial is given by its values, or by the index of the one in each row.
Dense(v) == [kind |-> "dense", values |-> v]
OneHot(n, index(_), bits) == [kind |-> "onehot", indices |-> Vec(n, index), bits |-> bits]

\* What a univariate skip opens, a polynomial in the variable it skips: the sum
\* over the others of the polynomial of the rounds that remain.
Skipped(d, k) == [kind |-> "skip", data |-> d, kernel |-> k]

SkippedSum(k, d) ==
    LET rounds == IF k = "Outer" THEN Len(d.rCycle) + 1 ELSE Len(d.rCycle)
        names == IF k = "Outer" THEN R1csInputs ELSE ProductFactorNames
        columns == [n \in Range(names) |-> TraceColumn(d, n)]
        cycle(ch) == IF k = "Outer" THEN OuterPoint(ch) ELSE Rev(ch)
        op(ch) == [n \in Range(names) |-> Evaluate(columns[n], cycle(ch))]
    IN  SumOf(0, 2^rounds - 1, LAMBDA b :
            LET ch == Corner(b, rounds)
            IN  IF k = "Outer" THEN OuterExpected(d, ch, op(ch)) ELSE ProductExpected(d, ch, op(ch)))

Evaluation(w, point) ==
    CASE w.kind = "skip" -> SkippedSum(w.kernel, [w.data EXCEPT !.r0 = point[1]])
      [] w.kind = "dense" -> Evaluate(w.values, point)
      [] w.kind = "onehot" ->
         LET address == Evals(Take(point, w.bits))
             cycle == Evals(Drop(point, w.bits))
         IN  SumOf(0, Len(cycle) - 1,
                   LAMBDA j : LET i == At(w.indices, j)
                              IN  IF i = NoIndex THEN 0 ELSE At(cycle, j) ** At(address, i))

\* The value of word k of memory, or of register k, before cycle j.
MemoryAt(d, k, j) ==
    LET writes == {i \in 0 .. (j - 1) : At(d.ram, i).kind = "write" /\ At(d.ram, i).addr = k}
    IN  IF writes = {} THEN At(d.memory, k) ELSE At(d.ram, Max(writes)).post

RegisterAt(d, k, j) ==
    LET writes == {i \in 0 .. (j - 1) : k \in RegsOf(At(d.registers, i).rd)}
    IN  IF writes = {} THEN 0 ELSE SumOver(At(d.registers, Max(writes)).rd, LAMBDA a : a.post)

RegisterOf(S) == IF S = {} THEN NoIndex ELSE (CHOOSE a \in S : TRUE).reg
PerCycle(d, f(_)) == Dense(Vec(Cycles(d), f))
PerCell(d, rows, f(_, _)) ==
    Dense(Vec(rows * Cycles(d), LAMBDA i : f(i \div Cycles(d), i % Cycles(d))))
PerRegister(d, index(_)) == OneHot(Cycles(d), index, LogOf(RegisterCount))
AdviceWords(d, start, bytes) ==
    LET first == Remap(start, d.layout)
    IN  Dense(SubSeq(d.memory, first + 1, first + bytes \div WordBytes))

\* The virtual polynomials of RAM and registers, and the two increments.
Witness(d, name) ==
    CASE name = "RamVal" -> PerCell(d, Len(d.memory), LAMBDA k, j : MemoryAt(d, k, j))
      [] name \in {"RamRa", "RamRaRaf", "RamRaRw", "RamRaVal"} ->
             OneHot(Cycles(d), LAMBDA j : AccessedWord(d, j), LogK(d))
      [] name \in {"RamInc", "RamIncRw", "RamIncVal"} -> Dense(RamInc(d))
      [] name = "RamHammingWeight" ->
             PerCycle(d, LAMBDA j : IF Touches(At(d.ram, j)) THEN 1 ELSE 0)
      [] name = "RamValFinal" -> Dense(d.final)
      [] name = "RamAddress" ->
             PerCycle(d, LAMBDA j : IF Touches(At(d.ram, j))
                                    THEN 8 * At(d.ram, j).addr + d.lowest ELSE 0)
      [] name = "RamReadValue" -> PerCycle(d, LAMBDA j : At(d.ram, j).pre)
      [] name = "RamWriteValue" -> PerCycle(d, LAMBDA j : At(d.ram, j).post)
      [] name = "RegistersVal" -> PerCell(d, RegisterCount, LAMBDA k, j : RegisterAt(d, k, j))
      [] name = "Rs1Ra" -> PerRegister(d, LAMBDA j : RegisterOf(At(d.registers, j).rs1))
      [] name = "Rs2Ra" -> PerRegister(d, LAMBDA j : RegisterOf(At(d.registers, j).rs2))
      [] name = "RdWa" -> PerRegister(d, LAMBDA j : RegisterOf(At(d.registers, j).rd))
      [] name \in {"RdInc", "RdIncRw", "RdIncVal"} -> Dense(RdInc(d))
      [] name = "Rs1Value" ->
             PerCycle(d, LAMBDA j : SumOver(At(d.registers, j).rs1, LAMBDA a : a.val))
      [] name = "Rs2Value" ->
             PerCycle(d, LAMBDA j : SumOver(At(d.registers, j).rs2, LAMBDA a : a.val))
      [] name = "RdWriteValue" ->
             PerCycle(d, LAMBDA j : SumOver(At(d.registers, j).rd, LAMBDA a : a.post))
      [] name \in Range(LookupColumns) ->
             PerCycle(d, LAMBDA j : At(d.lookups, j)[name] ++ 0)
      [] name = "TrustedAdvice" -> AdviceWords(d, d.layout.trustedStart, d.layout.trusted)
      [] name = "UntrustedAdvice" -> AdviceWords(d, d.layout.untrustedStart, d.layout.untrusted)

\* The i-th committed one-hot polynomial, in the order instruction, bytecode, RAM.
CommittedRa(d, i) == OneHot(Cycles(d), LAMBDA j : RaIndices(d, j)[i], d.chunkBits)

\* The polynomial behind an opening that sumcheck k leaves, or starts from.
SpartanWitness(k, d, name) ==
    IF name = "UnivariateSkip"
    THEN Skipped(d, IF k \in {"OuterUniSkip", "OuterRemaining"} THEN "Outer" ELSE "Product")
    ELSE Dense(TraceColumn(d, name))

ProductBaseClaims(d) == [n \in Range(ProductBases) |-> Evaluate(TraceColumn(d, n), d.rCycle)]

SpartanKernels ==
    {"OuterUniSkip", "OuterRemaining", "ProductUniSkip", "ProductRemainder", "InstructionInput", "Shift"}

\* The polynomials of BlindFold: products of the matrices, error and witness.
FoldedWitness(sys, name) ==
    LET padded(v) == Pad(v, NextPowerOfTwo(sys.r1cs.size))
    IN  CASE name = "Az" -> Dense(padded(MulVector(sys.r1cs.a, sys.foldedZ)))
          [] name = "Bz" -> Dense(padded(MulVector(sys.r1cs.b, sys.foldedZ)))
          [] name = "Cz" -> Dense(padded(MulVector(sys.r1cs.c, sys.foldedZ)))
          [] name = "E" -> Dense(padded(sys.folded.witness.E))
          [] name = "W" -> Dense(sys.folded.witness.W)

OpeningWitness(k, d, name) ==
    CASE k \in {"BlindFoldSpartan", "BlindFoldInner"} -> FoldedWitness(d.zk, name)
      [] k \in SpartanKernels -> SpartanWitness(k, d, name)
      [] k = "RamRaVirtual" ->
             CommittedRa(d, OneHotParams(d).instruction + OneHotParams(d).bytecode + name)
      [] k \in {"Booleanity", "HammingWeightReduction", "InstructionRaVirtual"} ->
             CommittedRa(d, name)
      [] OTHER -> Witness(d, name)

InputWitness(k, d, name) ==
    CASE k \in SpartanKernels -> SpartanWitness(k, d, name)
      [] k = "RamRaVirtual" -> Witness(d, "RamRa")
      [] k = "HammingWeightReduction" ->
             IF name[1] = "weight" THEN Witness(d, "RamHammingWeight") ELSE CommittedRa(d, name[2])
      [] k = "InstructionRaVirtual" ->
             OneHot(Cycles(d),
                    LAMBDA j : AddressChunk(At(d.lookupIndex, j), name[2] - 1,
                                            VirtualCount(d), d.virtualBits),
                    d.virtualBits)
      [] OTHER -> Witness(d, name)

\* The points of the claims that some of them start from.
ValCheckInputs(d) ==
    LET advice(bytes) == Drop(d.rAddress, LogK(d) - LogOf(bytes \div WordBytes))
    IN  [RamVal |-> d.rAddress \o d.rCycle, RamValFinal |-> d.rAddress,
         TrustedAdvice |-> advice(d.layout.trusted),
         UntrustedAdvice |-> advice(d.layout.untrusted)]

WeightInputs(d) ==
    [n \in {<<"weight", 0>>} \cup ({"bool", "virt"} \X (1 .. PolyCount(d))) |->
        CASE n[1] = "weight" -> d.rCycle
          [] n[1] = "bool" -> d.rBool \o d.rCycle
          [] OTHER -> d.rVirtual[n[2]] \o d.rCycle]

InstrRaInputs(d) ==
    [n \in {"virtual"} \X (1 .. VirtualCount(d)) |->
        SubSeq(d.rLookup, (n[2] - 1) * d.virtualBits + 1, n[2] * d.virtualBits) \o d.rCycle]

-----------------------------------------------------------------------------
(***************************************************************************)
(* The tables, interpolations and products that the code computes in       *)
(* several ways, each compared with its definition: on the messages of a   *)
(* sumcheck, on points made of its challenges, and on the words of memory. *)
(***************************************************************************)

\* The values of p at n integers from start.
ValuesFrom(p, start, n) == Vec(n, LAMBDA i : Eval(p, (start + i) % FieldSize))

\* A message, whose values at 0 and 1 sum to the claim, is the same polynomial
\* after the compression for the transcript and after every interpolation.  (A
\* round that only halves the claim sends a constant, which compress would not
\* take; it is added to the messages of its batch first.)
MessageForms(p, claim) ==
    LET n == Len(p)
        around == ValuesFrom(p, DomainStart(n), n)
        divided == DivideWithRemainder(p, <<5, 3, 1>>)
        remainder(x) == SumOf(1, Len(divided.rem), LAMBDA i : divided.rem[i] ** Pow(x, i - 1))
        far == <<n + 1, FieldSize - n, 77>>
    IN  /\ Decompress(Compress(p), claim) = p
        /\ \A x \in {0, 1, 2, 77} : EvalFromHint(Compress(p), claim, x) = Eval(p, x)
        /\ FromEvals(ValuesFrom(p, 0, n)) = p
        /\ FromEvalsToom(Append(ValuesFrom(p, 0, n - 1), p[n])) = p
        /\ InterpolateCoeffs(around) = p
        /\ \A x \in {0, 1, 77} : LagrangeEvaluate(around, x) = Eval(p, x)
        /\ EvaluateMany(around, far) = Vec(3, LAMBDA i : Eval(p, At(far, i)))
        /\ CheckSumEvals(p, n, Sum(around))
        /\ n <= 6 => \A shift \in {-5, -1, 0, n, n + 4} :
               Dot(ShiftCoeffs(n, shift), ValuesFrom(p, 0, n)) = Eval(p, shift % FieldSize)
        /\ \A x \in {2, 77} :
               /\ Eval(divided.q, x) ** Eval(<<5, 3, 1>>, x) ++ remainder(x) = Eval(p, x)
               /\ Eval(PolyAdd(p, <<5, 3, 1>>), x) = Eval(p, x) ++ Eval(<<5, 3, 1>>, x)
               /\ Eval(PolySub(<<5, 3>>, p), x) = Eval(<<5, 3>>, x) -- Eval(p, x)

\* The tables over the cube of a point r of at least one variable.
TableForms(r) ==
    LET n   == Len(r)
        y   == Vec(n, LAMBDA i : At(r, i) ++ (3 * i + 2))
        eq  == Evals(r)
        sum(from, to) == SumOf(from, to, LAMBDA k : At(eq, k))
        split == EqPlusOnePrefixSuffix(r)
        low   == Len(split.prefix0)
        gruen == GruenNew(r, LowToHigh, 1)
    IN  /\ EvalsParallel(r, 1) = eq
        /\ \A k \in 0 .. (2^n - 1) :
               /\ At(eq, k) = EqMle(r, Corner(k, n))
               /\ At(EqPlusOneEvals(r), k) = EqPlusOne(r, Corner(k, n))
               /\ At(LtEvals(r), k) = sum(k + 1, 2^n - 1)
               /\ LtBound(r, k) = sum(0, k - 1)
               /\ At(split.prefix0, k % low) ** At(split.suffix0, k \div low)
                  ++ At(split.prefix1, k % low) ** At(split.suffix1, k \div low)
                      = At(EqPlusOneEvals(r), k)
        /\ EqMle(r, y) = Evaluate(eq, y)
        /\ EqMleEndian(r, Rev(y)) = EqMle(r, y)
        /\ EqPlusOne(r, y) = Evaluate(EqPlusOneEvals(r), y)
        /\ MleReversed(r, Rev(y)) = EqMle(r, y)
        /\ ContractEqPlusOne(r, y) = EqPlusOne(r, y)
        /\ ContractLt(y, r) = Evaluate(LtEvals(r), y)
        /\ LagrangeKernel(5, r[1], y[n])
               = Dot(LagrangeEvals(5, r[1]), LagrangeEvals(5, y[n]))
        /\ \A window \in 1 .. n :
               LET t == WindowTables(gruen, window)
                   active == ActiveTable(gruen, window)
                   inner(k) == At(t.inner, k % Len(t.inner)) ** At(t.outer, k \div Len(t.inner))
               IN  Vec(2^(n - 1), LAMBDA k : inner(k \div Len(active)) ** At(active, k % Len(active)))
                       = Evals(Take(r, n - 1))

\* The operations on a vector z of as many variables as the point r.
VectorForms(z, r) ==
    LET n == Len(r)
        ends == Evaluate(z, r)
        flags == Vec(Len(z), LAMBDA k : At(z, k) % 2)
        bound[i \in 0 .. n] == IF i = 0 THEN z ELSE Bind(bound[i - 1], r[n + 1 - i], LowToHigh)
        identity[i \in 0 .. n] ==
            IF i = 0 THEN IdentityNew(n) ELSE IdentityBind(identity[i - 1], r[i], HighToLow)
        operand[i \in 0 .. n] ==
            [side \in {"Left", "Right"} |->
                IF i = 0 THEN OperandNew(n, side) ELSE OperandBind(operand[i - 1][side], r[i])]
        square == LET g == ExpandGrid(z, n) IN Times(g, g)
        grid[i \in 0 .. n] ==
            IF i = 0 THEN square ELSE BindFirstVariable(grid[i - 1], r[n + 1 - i])
        line(g) == GruenPolyDeg2(g, FoldOutIn(g, LAMBDA i : At(z, 2 * i)), ends)
        product(g) ==
            GruenPolyFromEvals(g,
                << FoldOutIn(g, LAMBDA i : At(z, 2 * i + 1) ** At(z, 2 * i + 1)),
                   FoldOutIn(g, LAMBDA i : (At(z, 2 * i + 1) -- At(z, 2 * i))
                                           ** (At(z, 2 * i + 1) -- At(z, 2 * i))) >>,
                Evaluate(Times(z, z), r))
        gruen == GruenNew(r, LowToHigh, 1)
        reference(x, v) == EqBit(x, r[n]) ** Dot(Evals(Take(r, n - 1)), v)
    IN  /\ InsideOut(z, r) = ends
        /\ EvaluateDotProduct(z, r) = ends
        /\ bound[n] = <<ends>>
        /\ BatchEvaluate(<<z, flags>>, r) = <<ends, Evaluate(flags, r)>>
        /\ Evaluate(LinearCombination(<<z, flags>>, <<4, 9>>), r)
               = 4 ** ends ++ 9 ** Evaluate(flags, r)
        /\ BoundTopManyOnes(z, r[1]) = BoundTop(z, r[1])
        /\ NewFromBoundTop(z, r[1]) = BoundTop(z, r[1])
        /\ NewFromBoundTopFlags(flags, r[1]) = BoundTop(flags, r[1])
        /\ \A order \in {LowToHigh, HighToLow} : CompactBind(z, r[1], order) = Bind(z, r[1], order)
        /\ identity[n].value = Evaluate(Vec(2^n, LAMBDA k : k), r)
        /\ UnmapFinalClaim(identity[n], 40) = UnmapEvaluate(r, 40)
        /\ n % 2 = 0 =>
               \A side \in {"Left", "Right"} :
                   /\ operand[n][side].value = OperandEvaluate(r, side)
                   /\ OperandEvaluate(r, side)
                          = Evaluate(Vec(2^n, LAMBDA k : Uninterleave(k, side)), r)
                   /\ \A i \in 0 .. (n - 1) : \A k \in {0, 2^(n - i - 1) - 1} :
                          LET rest(x) == Append(Take(r, i), x) \o Corner(k, n - i - 1)
                          IN  OperandSumcheckEvals(operand[i][side], k, 2)
                                  = <<OperandEvaluate(rest(0), side), OperandEvaluate(rest(2), side)>>
        /\ grid[n] = <<ends ** ends>>
        /\ \A x \in {0, 1} :
               ProjectToFirst(square, Evals(Take(r, n - 1)), x)
                   = LET v == BoundBot(z, x) IN Dot(Evals(Take(r, n - 1)), Times(v, v))
        /\ \A x \in {0, 1, 2, 77} :
               LET v == BoundBot(z, x)
               IN  /\ Eval(line(gruen), x) = reference(x, v)
                   /\ Eval(product(gruen), x) = reference(x, Times(v, v))

\* The products of lines, the pairs of neighbours in z.
ProductForms(z) ==
    \A d \in {2, 3, 4, 5, 6, 8, 9, 16, 32} :
        LET lines == Vec(d, LAMBDA i : <<At(z, i % Len(z)) ++ 1, At(z, (3 * i + 1) % Len(z)) ++ i>>)
        IN  /\ EvalLinearProd(lines) = NaiveProduct(lines)
            /\ EvalLinearProdAccumulate(lines) = NaiveProduct(lines)

\* A one-hot polynomial kept by its indices while r is bound in either order.
OneHotForms(indices, table, r) ==
    \A order \in {LowToHigh, HighToLow} :
        LET dense == Vec(Len(indices), LAMBDA j : IF At(indices, j) = NoIndex THEN 0
                                                   ELSE At(table, At(indices, j)))
            both[i \in 0 .. Len(r)] ==
                IF i = 0 THEN [ra |-> RaNew(indices, table), z |-> dense]
                ELSE [ra |-> RaBind(both[i - 1].ra, r[i], order),
                      z |-> Bind(both[i - 1].z, r[i], order)]
        IN  /\ \A i \in 0 .. (Len(r) - 1) : \A j \in 0 .. (Len(both[i].z) \div 2 - 1) :
                   RaSumcheckEvals(both[i].ra, j, 3, order) = SumcheckEvals(both[i].z, j, 3, order)
            /\ <<RaFinal(both[Len(r)].ra)>> = both[Len(r)].z

\* The parts of memory.
MemoryForms(d) ==
    LET k == Len(d.memory)
        states == GenMemoryStates(k, d.program, d.layout, d.io, <<>>)
        public == GenInitialState(k, d.program, d.layout, d.io)
    IN  /\ MinRamK(d.program, d.layout) <= k
        /\ \A region \in Range(FixedRegions(d.layout, d.io)) : MemoryFits(region[1], region[2], k)
        /\ Evaluate(public, d.rAddress) = EvalInitialRam(d.program, d.layout, d.io, d.rAddress)
        /\ \A w \in 0 .. (k - 1) : At(public, w) \in {0, At(states.initial, w)}

-----------------------------------------------------------------------------
(* The state machine. *)

CONSTANTS
    Instances,      \* pairs of a sumcheck and the data it is about
    Challenges(_)   \* the verifier's choices in a round of a sumcheck

VARIABLES
    instance,       \* which sumcheck, on which data
    prover,         \* the state of its prover
    challenges,     \* the challenges of the rounds so far
    claim,          \* the claim both sides go on with
    openings,       \* the claims it starts from, then those it caches at the end
    message         \* the polynomial of this round, empty after the last one

vars == <<instance, prover, challenges, claim, openings, message>>
kernel == instance[1]
data == instance[2]

----------------------------------------------------------------------------
(* The methods of SumcheckInstanceProver and SumcheckInstanceVerifier.     *)

\* num_rounds
Rounds(k, d) ==
    CASE k = "RamReadWriteChecking" -> LogT(d) + LogK(d)
      [] k = "RegistersReadWriteChecking" -> LogT(d) + LogOf(RegisterCount)
      [] k = "RamRafEvaluation" -> LogT(d) + LogK(d) - d.phase1
      [] k = "RamValCheck" -> LogT(d)
      [] k = "OutputCheck" -> LogT(d) + LogK(d) - d.phase1
      [] k = "HammingBooleanity" -> LogT(d)
      [] k = "RamRaVirtual" -> LogT(d)
      [] k = "RegistersValEvaluation" -> LogT(d)
      [] k = "RamRaReduction" -> LogT(d)
      [] k = "IncReduction" -> LogT(d)
      [] k = "RegistersReduction" -> LogT(d)
      [] k = "LookupsReduction" -> LogT(d)
      [] k = "Booleanity" -> LogT(d) + d.chunkBits
      [] k = "HammingWeightReduction" -> d.chunkBits
      [] k = "InstructionRaVirtual" -> LogT(d)
      [] k = "OuterUniSkip" -> 1
      [] k = "OuterRemaining" -> OuterRounds(d)
      [] k = "ProductUniSkip" -> 1
      [] k = "ProductRemainder" -> LogT(d)
      [] k = "InstructionInput" -> LogT(d)
      [] k = "Shift" -> LogT(d)
      [] k = "BlindFoldSpartan" -> Len(d.zk.ch.tau)
      [] k = "BlindFoldInner" -> Len(d.zk.ch.ry)

\* The openings an instance starts from, at the points of the earlier instances.
InputPoints(k, d) ==
    CASE k = "RamReadWriteChecking" -> [n \in {"RamReadValue", "RamWriteValue"} |-> d.rCycle]
      [] k = "RegistersReadWriteChecking" -> [n \in {"RdWriteValue", "Rs1Value",
                "Rs2Value"} |-> d.rCycle]
      [] k = "RamRafEvaluation" -> [RamAddress |-> d.rCycle]
      [] k = "RamValCheck" -> ValCheckInputs(d)
      [] k = "OutputCheck" -> <<>>
      [] k = "HammingBooleanity" -> <<>>
      [] k = "RamRaVirtual" -> [n \in {0} |-> d.rAddress \o d.rCycle]
      [] k = "RegistersValEvaluation" -> [RegistersVal |-> d.rRegister \o d.rCycle]
      [] k = "RamRaReduction" -> [RamRaRaf |-> d.rAddress \o d.rCycles[1],
                RamRaRw |-> d.rAddress \o d.rCycles[2], RamRaVal |-> d.rAddress \o d.rCycles[3]]
      [] k = "IncReduction" -> [RamIncRw |-> d.rCycles[1], RamIncVal |-> d.rCycles[2],
                RdIncRw |-> d.rCycles[3], RdIncVal |-> d.rCycles[4]]
      [] k = "RegistersReduction" -> RegRedPoints(Rev(d.rCycle))
      [] k = "LookupsReduction" -> LookupRedPoints(Rev(d.rCycle))
      [] k = "Booleanity" -> <<>>
      [] k = "HammingWeightReduction" -> WeightInputs(d)
      [] k = "InstructionRaVirtual" -> InstrRaInputs(d)
      [] k = "OuterUniSkip" -> <<>>
      [] k = "OuterRemaining" -> [UnivariateSkip |-> <<d.r0>>]
      [] k = "ProductUniSkip" -> [n \in Range(ProductBases) |-> d.rCycle]
      [] k = "ProductRemainder" -> [UnivariateSkip |-> <<d.r0>>]
      [] k = "InstructionInput" -> [n \in {"RightInstructionInput",
                "LeftInstructionInput"} |-> d.rCycle]
      [] k = "Shift" -> ShiftInputPoints(d)
      [] k = "BlindFoldSpartan" -> <<>>
      [] k = "BlindFoldInner" -> <<>>

\* input_claim
InputClaim(k, d, op) ==
    CASE k = "RamReadWriteChecking" -> RamRwInputClaim(d, op)
      [] k = "RegistersReadWriteChecking" -> RegRwInputClaim(d, op)
      [] k = "RamRafEvaluation" -> RafInputClaim(d, op)
      [] k = "RamValCheck" -> ValCheckInputClaim(d, op)
      [] k = "OutputCheck" -> 0
      [] k = "HammingBooleanity" -> 0
      [] k = "RamRaVirtual" -> op[0]
      [] k = "RegistersValEvaluation" -> op["RegistersVal"]
      [] k = "RamRaReduction" -> RamRaRedInputClaim(d, op)
      [] k = "IncReduction" -> IncInputClaim(d, op)
      [] k = "RegistersReduction" -> RegRedInputClaim(d, op)
      [] k = "LookupsReduction" -> LookupRedInputClaim(d, op)
      [] k = "Booleanity" -> 0
      [] k = "HammingWeightReduction" -> WeightInputClaim(d, op)
      [] k = "InstructionRaVirtual" -> InstrRaInputClaim(d, op)
      [] k = "OuterUniSkip" -> 0
      [] k = "OuterRemaining" -> op["UnivariateSkip"]
      [] k = "ProductUniSkip" -> ProductSkipInputClaim(d, op)
      [] k = "ProductRemainder" -> op["UnivariateSkip"]
      [] k = "InstructionInput" -> InputInputClaim(d, op)
      [] k = "Shift" -> ShiftInputClaim(d, op)
      [] k = "BlindFoldSpartan" -> 0
      [] k = "BlindFoldInner" -> Dot(d.zk.ch.abc, WitnessContributions(d.zk.r1cs, d.zk.foldedZ, d.zk.ch.rx))

\* initialize of the prover
Initialize(k, d) ==
    CASE k = "RamReadWriteChecking" -> RamRwInitialize(d)
      [] k = "RegistersReadWriteChecking" -> RegRwInitialize(d)
      [] k = "RamRafEvaluation" -> RafInitialize(d)
      [] k = "RamValCheck" -> ValCheckInitialize(d)
      [] k = "OutputCheck" -> OutputInitialize(d)
      [] k = "HammingBooleanity" -> HammingInitialize(d)
      [] k = "RamRaVirtual" -> RaVirtualInitialize(d)
      [] k = "RegistersValEvaluation" -> RegValInitialize(d)
      [] k = "RamRaReduction" -> RamRaRedInitialize(d)
      [] k = "IncReduction" -> IncInitialize(d)
      [] k = "RegistersReduction" -> RegRedInitialize(d)
      [] k = "LookupsReduction" -> LookupRedInitialize(d)
      [] k = "Booleanity" -> BoolInitialize(d)
      [] k = "HammingWeightReduction" -> WeightInitialize(d)
      [] k = "InstructionRaVirtual" -> InstrRaInitialize(d)
      [] k = "OuterUniSkip" -> OuterSkipInitialize(d)
      [] k = "OuterRemaining" -> OuterInitialize(d)
      [] k = "ProductUniSkip" -> ProductSkipInitialize(d, ProductBaseClaims(d))
      [] k = "ProductRemainder" -> ProductInitialize(d)
      [] k = "InstructionInput" -> InputInitialize(d)
      [] k = "Shift" -> ShiftPhase1(d)
      [] k = "BlindFoldSpartan" -> BlindSpartanNew(d.zk.r1cs, d.zk.u, d.zk.foldedZ,
                                                    d.zk.folded.witness.E, d.zk.ch.tau)
      [] k = "BlindFoldInner" -> BlindInnerNew(d.zk.r1cs, d.zk.ch.rx, d.zk.folded.witness.W, d.zk.ch.abc)

\* compute_message
ComputeMessage(k, d, st, round, c) ==
    CASE k = "RamReadWriteChecking" -> RamRwMessage(d, st, round, c)
      [] k = "RegistersReadWriteChecking" -> RegRwMessage(d, st, round, c)
      [] k = "RamRafEvaluation" -> RafMessage(d, st, round, c)
      [] k = "RamValCheck" -> ValCheckMessage(d, st, c)
      [] k = "OutputCheck" -> OutputMessage(d, st, round, c)
      [] k = "HammingBooleanity" -> HammingMessage(st, c)
      [] k = "RamRaVirtual" -> RaVirtualMessage(st, c)
      [] k = "RegistersValEvaluation" -> RegValMessage(st, c)
      [] k = "RamRaReduction" -> RamRaRedMessage(d, st, c)
      [] k = "IncReduction" -> IncMessage(d, st, c)
      [] k = "RegistersReduction" -> RegRedMessage(d, st, c)
      [] k = "LookupsReduction" -> LookupRedMessage(d, st, c)
      [] k = "Booleanity" -> BoolMessage(d, st, round, c)
      [] k = "HammingWeightReduction" -> WeightMessage(d, st, c)
      [] k = "InstructionRaVirtual" -> InstrRaMessage(d, st, c)
      [] k = "OuterUniSkip" -> OuterSkipMessage(d, st)
      [] k = "OuterRemaining" -> OuterMessage(d, st, round, c)
      [] k = "ProductUniSkip" -> ProductSkipMessage(d, st)
      [] k = "ProductRemainder" -> ProductMessage(st, c)
      [] k = "InstructionInput" -> InputMessage(d, st, c)
      [] k = "Shift" -> ShiftMessage(d, st, c)
      [] k = "BlindFoldSpartan" -> BlindSpartanMessage(st)
      [] k = "BlindFoldInner" -> BlindInnerMessage(st)

\* ingest_challenge
IngestChallenge(k, d, st, r, round) ==
    CASE k = "RamReadWriteChecking" -> RamRwIngest(d, st, r, round)
      [] k = "RegistersReadWriteChecking" -> RegRwIngest(d, st, r, round)
      [] k = "RamRafEvaluation" -> RafIngest(d, st, r, round)
      [] k = "RamValCheck" -> ValCheckIngest(st, r)
      [] k = "OutputCheck" -> OutputIngest(d, st, r, round)
      [] k = "HammingBooleanity" -> HammingIngest(st, r)
      [] k = "RamRaVirtual" -> RaVirtualIngest(st, r)
      [] k = "RegistersValEvaluation" -> RegValIngest(st, r)
      [] k = "RamRaReduction" -> RamRaRedIngest(d, st, r)
      [] k = "IncReduction" -> IncIngest(d, st, r)
      [] k = "RegistersReduction" -> RegRedIngest(d, st, r)
      [] k = "LookupsReduction" -> LookupRedIngest(d, st, r)
      [] k = "Booleanity" -> BoolIngest(d, st, r, round)
      [] k = "HammingWeightReduction" -> WeightIngest(st, r)
      [] k = "InstructionRaVirtual" -> InstrRaIngest(st, r)
      [] k = "OuterUniSkip" -> st
      [] k = "OuterRemaining" -> OuterIngest(d, st, r, round)
      [] k = "ProductUniSkip" -> st
      [] k = "ProductRemainder" -> ProductIngest(st, r)
      [] k = "InstructionInput" -> InputIngest(st, r)
      [] k = "Shift" -> ShiftIngest(d, st, r)
      [] k = "BlindFoldSpartan" -> BlindSpartanBind(st, r)
      [] k = "BlindFoldInner" -> BlindInnerBind(st, r)

\* The openings left, with the points of normalize_opening_point.
OpeningPoints(k, d, ch) ==
    CASE k = "RamReadWriteChecking" -> RamRwPoints(d, ch)
      [] k = "RegistersReadWriteChecking" -> RegRwPoints(d, ch)
      [] k = "RamRafEvaluation" -> RafPoints(d, ch)
      [] k = "RamValCheck" -> ValCheckPoints(d, ch)
      [] k = "OutputCheck" -> OutputPoints(d, ch)
      [] k = "HammingBooleanity" -> HammingPoints(ch)
      [] k = "RamRaVirtual" -> RaVirtualPoints(d, ch)
      [] k = "RegistersValEvaluation" -> RegValPoints(d, ch)
      [] k = "RamRaReduction" -> RamRaRedPoints(d, ch)
      [] k = "IncReduction" -> IncPoints(ch)
      [] k = "RegistersReduction" -> RegRedPoints(ch)
      [] k = "LookupsReduction" -> LookupRedPoints(ch)
      [] k = "Booleanity" -> BoolPoints(d, ch)
      [] k = "HammingWeightReduction" -> WeightPoints(d, ch)
      [] k = "InstructionRaVirtual" -> InstrRaPoints(d, ch)
      [] k = "OuterUniSkip" -> [UnivariateSkip |-> ch]
      [] k = "OuterRemaining" -> OuterPoints(ch)
      [] k = "ProductUniSkip" -> [UnivariateSkip |-> ch]
      [] k = "ProductRemainder" -> ProductPoints(ch)
      [] k = "InstructionInput" -> InputOpeningPoints(ch)
      [] k = "Shift" -> ShiftPoints(ch)
      [] k = "BlindFoldSpartan" -> [n \in {"Az", "Bz", "Cz", "E"} |-> ch]
      [] k = "BlindFoldInner" -> [W |-> ch]

\* cache_openings of the prover: the claims
CacheOpenings(k, d, st, ch) ==
    CASE k = "RamReadWriteChecking" -> RamRwClaims(st)
      [] k = "RegistersReadWriteChecking" -> RegRwClaims(d, st, ch)
      [] k = "RamRafEvaluation" -> RafClaims(st)
      [] k = "RamValCheck" -> ValCheckClaims(st)
      [] k = "OutputCheck" -> OutputClaims(st)
      [] k = "HammingBooleanity" -> HammingClaims(st)
      [] k = "RamRaVirtual" -> RaVirtualClaims(st)
      [] k = "RegistersValEvaluation" -> RegValClaims(st)
      [] k = "RamRaReduction" -> RamRaRedClaims(st)
      [] k = "IncReduction" -> IncClaims(st)
      [] k = "RegistersReduction" -> RegRedClaims(st)
      [] k = "LookupsReduction" -> LookupRedClaims(st)
      [] k = "Booleanity" -> BoolClaims(d, st)
      [] k = "HammingWeightReduction" -> WeightClaims(st)
      [] k = "InstructionRaVirtual" -> InstrRaClaims(d, st)
      [] k = "OuterUniSkip" -> OuterSkipClaims(d, st, ch)
      [] k = "OuterRemaining" -> OuterClaims(d, ch)
      [] k = "ProductUniSkip" -> ProductSkipClaims(d, st, ch)
      [] k = "ProductRemainder" -> ProductClaims(d, ch)
      [] k = "InstructionInput" -> InputOpeningClaims(st)
      [] k = "Shift" -> ShiftClaims(st)
      [] k = "BlindFoldSpartan" -> BlindSpartanClaims(st)
      [] k = "BlindFoldInner" -> [W |-> st.w[1]]

\* expected_output_claim of the verifier
ExpectedOutputClaim(k, d, ch, op) ==
    CASE k = "RamReadWriteChecking" -> RamRwExpected(d, ch, op)
      [] k = "RegistersReadWriteChecking" -> RegRwExpected(d, ch, op)
      [] k = "RamRafEvaluation" -> RafExpected(d, ch, op)
      [] k = "RamValCheck" -> ValCheckExpected(d, ch, op)
      [] k = "OutputCheck" -> OutputExpected(d, ch, op)
      [] k = "HammingBooleanity" -> HammingExpected(d, ch, op)
      [] k = "RamRaVirtual" -> RaVirtualExpected(d, ch, op)
      [] k = "RegistersValEvaluation" -> RegValExpected(d, ch, op)
      [] k = "RamRaReduction" -> RamRaRedExpected(d, ch, op)
      [] k = "IncReduction" -> IncExpected(d, ch, op)
      [] k = "RegistersReduction" -> RegRedExpected(d, ch, op)
      [] k = "LookupsReduction" -> LookupRedExpected(d, ch, op)
      [] k = "Booleanity" -> BoolExpected(d, ch, op)
      [] k = "HammingWeightReduction" -> WeightExpected(d, ch, op)
      [] k = "InstructionRaVirtual" -> InstrRaExpected(d, ch, op)
      [] k = "OuterUniSkip" -> op["UnivariateSkip"]
      [] k = "OuterRemaining" -> OuterExpected(d, ch, op)
      [] k = "ProductUniSkip" -> op["UnivariateSkip"]
      [] k = "ProductRemainder" -> ProductExpected(d, ch, op)
      [] k = "InstructionInput" -> InputExpected(d, ch, op)
      [] k = "Shift" -> ShiftExpected(d, ch, op)
      [] k = "BlindFoldSpartan" -> BlindSpartanExpected(d.zk.u, d.zk.ch.tau, ch, op)
      [] k = "BlindFoldInner" -> ComputeLwAtRy(d.zk.r1cs, d.zk.ch.rx, ch, d.zk.ch.abc) ** op["W"]

\* output_claim_constraint with output_constraint_challenge_values
OutputClaimConstraint(k, d, ch, op) ==
    CASE k = "RamReadWriteChecking" -> RamRwConstraint(d, ch, op)
      [] k = "RegistersReadWriteChecking" -> RegRwConstraint(d, ch, op)
      [] k = "RamRafEvaluation" -> RafConstraint(d, ch, op)
      [] k = "RamValCheck" -> ValCheckConstraint(d, ch, op)
      [] k = "OutputCheck" -> OutputConstraint(d, ch, op)
      [] k = "HammingBooleanity" -> HammingConstraint(d, ch, op)
      [] k = "RamRaVirtual" -> RaVirtualConstraint(d, ch, op)
      [] k = "RegistersValEvaluation" -> RegValConstraint(d, ch, op)
      [] k = "RamRaReduction" -> RamRaRedConstraint(d, ch, op)
      [] k = "IncReduction" -> IncConstraint(d, ch, op)
      [] k = "RegistersReduction" -> RegRedConstraint(d, ch, op)
      [] k = "LookupsReduction" -> LookupRedConstraint(d, ch, op)
      [] k = "Booleanity" -> BoolConstraint(d, ch, op)
      [] k = "HammingWeightReduction" -> WeightConstraint(d, ch, op)
      [] k = "InstructionRaVirtual" -> InstrRaConstraint(d, ch, op)
      [] k = "OuterUniSkip" -> op["UnivariateSkip"]
      [] k = "OuterRemaining" -> OuterConstraint(d, ch, op)
      [] k = "ProductUniSkip" -> op["UnivariateSkip"]
      [] k = "ProductRemainder" -> ProductConstraint(d, ch, op)
      [] k = "InstructionInput" -> InputConstraint(d, ch, op)
      [] k = "Shift" -> ShiftConstraint(d, ch, op)

----------------------------------------------------------------------------

InputOpenings(k, d) ==
    LET points == InputPoints(k, d)
    IN  [n \in DOMAIN points |-> Evaluation(InputWitness(k, d, n), points[n])]

\* BatchedSumcheck::prove for one instance: the first message, and a round,
\* the last one with the cache_openings that follows.
Init ==
    /\ instance \in Instances
    /\ prover = Initialize(kernel, data)
    /\ challenges = <<>>
    /\ openings = InputOpenings(kernel, data)
    /\ claim = InputClaim(kernel, data, openings)
    /\ message = ComputeMessage(kernel, data, prover, 0, claim)

Round ==
    \E r \in Challenges(kernel) :
        LET round == Len(challenges)
        IN  /\ round < Rounds(kernel, data)
            /\ challenges' = Append(challenges, r)
            /\ claim' = Eval(message, r)
            /\ prover' = IngestChallenge(kernel, data, prover, r, round)
            /\ openings' = IF round + 1 < Rounds(kernel, data) THEN openings
                           ELSE CacheOpenings(kernel, data, prover', challenges')
            /\ message' = IF round + 1 = Rounds(kernel, data) THEN <<>>
                          ELSE ComputeMessage(kernel, data, prover', round + 1, claim')
            /\ UNCHANGED instance

Next == Round

Spec == Init /\ [][Next]_vars

----------------------------------------------------------------------------

TrueOpenings(ch) ==
    LET at(points) == [n \in DOMAIN points |-> Evaluation(OpeningWitness(kernel, data, n), points[n])]
    IN  at(OpeningPoints(kernel, data, ch))

\* The polynomial the sumcheck is about: the verifier's final check as a
\* function of the challenges, with the true values of the witness.
Summand(ch) == ExpectedOutputClaim(kernel, data, ch, TrueOpenings(ch))

\* The two sumchecks of BlindFold itself.  They are longer than the others:
\* their messages are compared with the sum once it has few terms left, and
\* through the verifier's chain of claims (Accepted) before that.
BlindFolds(k) == k \in {"BlindFoldSpartan", "BlindFoldInner"}
MaxCornerBits == 3

\* Every message is the sum of that polynomial over the variables that are
\* not bound yet, as a polynomial in the variable of the round: at more points
\* than its degree, whatever representation the prover is in (compute_message
\* of every instance, across the changes of phase in ingest_challenge).
RoundsTrue ==
    LET rest == Rounds(kernel, data) - 1 - Len(challenges)
    IN  message # <<>> /\ (BlindFolds(kernel) => rest <= MaxCornerBits) =>
            \A x \in 0 .. Len(message) :
                Eval(message, x) =
                    SumOf(0, 2^rest - 1,
                          LAMBDA b : Summand(Append(challenges, x) \o Corner(b, rest)))

\* After the last round the claims the prover caches are the evaluations of
\* the witness polynomials at the points the verifier derives from the
\* challenges (cache_openings on both sides, normalize_opening_point).
OpeningsTrue == message = <<>> => openings = TrueOpenings(challenges)

\* The last claim: the verifier's check, BlindFold's constraint, the table.
FinalFormsAgree ==
    /\ ExpectedOutputClaim(kernel, data, challenges, openings) = claim
    /\ ~BlindFolds(kernel) => OutputClaimConstraint(kernel, data, challenges, openings) = claim
    /\ ClaimTable(kernel) # <<>> =>
           TableOutputClaim(kernel, data, TablePoint(kernel, data, challenges), openings) = claim

\* The first claim, from the openings of earlier instances.
InputFormsAgree ==
    LET scale == IF kernel = "RamRafEvaluation" THEN TwoTo[CycleGap(data)] ELSE 1
    IN  /\ ClaimTable(kernel) # <<>> => scale ** TableInputClaim(kernel, data, openings) = claim
        /\ kernel = "RamValCheck" =>
               /\ ValCheckInputConstraint(data, openings) = claim
               /\ VerifierInitEval(data, openings) = ProverInitEval(data)
        /\ kernel = "ProductUniSkip" => ProductSkipInputConstraint(data, openings) = claim
        /\ kernel = "Shift" => ShiftInputConstraint(data, openings) = claim

\* The last claim passes the verifier's check, and the constraint that
\* BlindFold checks in its place in zero-knowledge mode, written down a second
\* time as a sum of products with challenge coefficients, has the same value
\* (output_claim_constraint), and so has the table of claims the extractors
\* read (input_output_claims); so have the constraints on the input claim, and
\* both sides compute the same initial RAM from different data.
ConstraintsAgree ==
    /\ message = <<>> => FinalFormsAgree
    /\ challenges = <<>> => InputFormsAgree
    /\ kernel = "BlindFoldSpartan" /\ challenges = <<>> => SystemAgrees(data.zk)
    /\ kernel = "BlindFoldInner" /\ message = <<>> => Accepted(data.zk, challenges)

----------------------------------------------------------------------------
\* The instance in its batch on chain: the challenges of the rounds it sits
\* out come first, the claims of the others are zero.
BatchRounds(k, d) == StageInstanceRounds(d)[StageOf(k)]
SatOut(k, d) == Max(Range(BatchRounds(k, d))) - Rounds(k, d)
BatchChallenges(k, d, ch) == Vec(SatOut(k, d), LAMBDA i : 3 * i + 5) \o ch

\* After the rounds an instance sits out, each a constant that halves the
\* claim, the batch is left with the claim under its coefficient.
DummyRoundsAgree(k, d, coeff) ==
    LET names == StageInstances[StageOf(k)]
        alone(v) == [i \in DOMAIN names |-> IF names[i] = k THEN v ELSE 0]
        combined == CombinedClaim(alone(claim), BatchRounds(k, d), alone(coeff))
        constants == Vec(SatOut(k, d), LAMBDA i : <<combined // TwoTo[i + 1]>>)
    IN  ContractSumcheck(constants, combined, BatchChallenges(k, d, <<>>)) = coeff ** claim

\* The contract leaves out the advice.
WithoutAdvice(op) ==
    IF kernel = "RamValCheck" THEN [op EXCEPT !.TrustedAdvice = 0, !.UntrustedAdvice = 0] ELSE op

\* The contract reads all rounds of the output check as an address.
OnChain(k, d) == Verified(k) /\ (k = "OutputCheck" => d.phase1 = LogT(d))

ContractInputAgrees(op) ==
    StageOf(kernel) > 2 =>
        InputClaim(kernel, data, op)
            = ContractInput(kernel, data, op,
                            EvalInitialRam(data.program, data.layout, data.io, data.rAddress))

ContractRoundAgrees(coeffs) ==
    \A x \in {0, 1, 77} :
        CASE kernel \in {"OuterUniSkip", "ProductUniSkip"} -> EvaluateUniPoly(coeffs, x) = Eval(coeffs, x)
          [] OTHER -> Len(coeffs) > 1 =>
                          ContractEvalFromHint(Compress(coeffs), claim, x) = Eval(coeffs, x)

\* The contracts check the same statement: positions in the array of flushed
\* claims, offsets into the challenges of the batch and a third writing of
\* every formula, the constraints of the machine among them, make each check
\* of the on-chain verifier equal to the one of the verifier here, round by
\* round (onchain-verifier/contracts, verify_for_export).
OnChainAgrees ==
    /\ message # <<>> => ContractRoundAgrees(message)
    /\ kernel = "OuterUniSkip" /\ message # <<>> =>
           Len(message) <= OuterNumCoeffs /\ OuterDomainSum(message) = claim
    /\ kernel = "ProductUniSkip" /\ message # <<>> =>
           Len(message) <= ProductNumCoeffs /\ ProductDomainSum(message) = claim
    /\ Verified(kernel) /\ challenges = <<>> =>
           /\ Rounds(kernel, data) = ExportedRounds(kernel, data)
           /\ DummyRoundsAgree(kernel, data, 1729)
           /\ ContractInputAgrees(WithoutAdvice(openings))
    /\ OnChain(kernel, data) /\ message = <<>> =>
           ContractOutput(kernel, data, BatchChallenges(kernel, data, challenges),
               FlushedClaims(StageOf(kernel), kernel, data, openings)) = claim

\* Whatever the code computes in more than one way, or by an algorithm that
\* saves work, is what its definition says: the messages compressed for the
\* transcript and restored from the claim, interpolations and Lagrange forms,
\* tables of eq, eq + 1 and less-than and their splits, bindings in either
\* order, products of lines (poly/*.rs, mles_product_sum.rs, ram/mod.rs).
AlgorithmsAgree ==
    /\ CASE kernel = "OuterUniSkip" /\ message # <<>> -> CheckSumEvals(message, DomainSize, claim)
         [] kernel = "ProductUniSkip" /\ message # <<>> -> CheckSumEvals(message, 3, claim)
         [] OTHER -> Len(message) > 1 => MessageForms(message, claim)
    /\ challenges = <<>> => MemoryForms(data) /\ ProductForms(data.final)
    /\ message = <<>> =>
           LET r == Take(challenges, IF Len(challenges) < 4 THEN Len(challenges) ELSE 4)
               accessed == Vec(Cycles(data), LAMBDA j : AccessedWord(data, j))
           IN  /\ TableForms(r)
               /\ VectorForms(Take(data.memory, 2^Len(r)), r)
               /\ Len(challenges) >= 3 => OneHotForms(accessed, Evals(data.rAddress), Take(r, 3))

=============================================================================
