---------------------------- MODULE RamSumchecks ----------------------------
(***************************************************************************)
(* The memory of a proof and the sumchecks on it, but for read-write       *)
(* checking.                                                               *)
(***************************************************************************)
EXTENDS ReadWriteChecking

(***************************************************************************)
(* The memory of the guest as the RAM sumchecks see it: the layout of the  *)
(* regions (common/src/jolt_device.rs), the initial and the final state by *)
(* words, and the evaluations the verifier makes of their public part      *)
(* (zkvm/ram/mod.rs).  A word has WordBytes bytes, 8 in the code.          *)
(* io is the device: inputs, outputs, advice and the panic flag.           *)
(***************************************************************************)

CONSTANTS WordBytes, RamStart

ASSUME MemoryAssumption == WordBytes \in {1, 2, 8} /\ RamStart \in Nat /\ RamStart % WordBytes = 0

AlignUp(size) == ((size + WordBytes - 1) \div WordBytes) * WordBytes

NextPowerOfTwo(n) == CHOOSE p \in {2^k : k \in 0..20} : n <= p /\ (p = 1 \/ p \div 2 < n)

Larger(a, b) == IF a >= b THEN a ELSE b

Smaller(a, b) == IF a <= b THEN a ELSE b

\* MemoryLayout::new: the larger advice region lies first, so that each begins
\* at a multiple of its size; stack and heap follow the program.
MemoryLayout(config) ==
    LET trusted   == AlignUp(config.trusted)
        untrusted == AlignUp(config.untrusted)
        input     == AlignUp(config.input)
        output    == AlignUp(config.output)
        bytes     == input + trusted + untrusted + output + 2 * WordBytes
        lowest    == RamStart - NextPowerOfTwo(bytes \div WordBytes) * WordBytes
        trustedStart   == IF trusted >= untrusted THEN lowest ELSE lowest + untrusted
        untrustedStart == IF trusted >= untrusted THEN lowest + trusted ELSE lowest
        inputStart     == Larger(trustedStart + trusted, untrustedStart + untrusted)
        panic          == inputStart + input + output
    IN [trusted |-> trusted, untrusted |-> untrusted,
        trustedStart |-> trustedStart, untrustedStart |-> untrustedStart,
        inputStart |-> inputStart, outputStart |-> inputStart + input,
        panic |-> panic, termination |-> panic + WordBytes]

LowestAddress(layout) == Smaller(layout.trustedStart, layout.untrustedStart)

\* remap_address, for an address that is not 0.
Remap(address, layout) == (address - LowestAddress(layout)) \div WordBytes

-----------------------------------------------------------------------------
\* u64::from_le_bytes of a chunk, short chunks padded with 0.
WordOf(bytes) == LET at(i) == IF i < Len(bytes) THEN At(bytes, i) ELSE 0
                     word[i \in 0..WordBytes] ==
                         IF i = 0 THEN 0 ELSE word[i - 1] * 256 + at(WordBytes - i)
                 IN word[WordBytes]

WordsOf(bytes) ==
    Vec((Len(bytes) + WordBytes - 1) \div WordBytes, LAMBDA i :
        WordOf(SubSeq(bytes, i * WordBytes + 1, Smaller((i + 1) * WordBytes, Len(bytes)))))

\* RAMPreprocessing::preprocess: image is a set of <<address, byte>>.
Preprocess(image) ==
    LET addresses == {b[1] : b \in image}
        least     == CHOOSE a \in addresses : \A b \in addresses : a <= b
        last      == (CHOOSE a \in addresses : \A b \in addresses : b <= a) + (WordBytes \div 2 - 1)
        count     == (last + WordBytes - 1) \div WordBytes - least \div WordBytes + 1
        byteAt(a) == IF a \in addresses THEN (CHOOSE b \in image : b[1] = a)[2] ELSE 0
        word(i)   == WordOf(Vec(WordBytes, LAMBDA k : byteAt((least \div WordBytes + i) * WordBytes + k)))
    IN [start |-> least, words |-> Vec(count, word)]

\* compute_min_ram_K.
MinRamK(program, layout) ==
    NextPowerOfTwo(Larger(Remap(program.start, layout) + Len(program.words), Remap(RamStart, layout)))

\* populate_memory_states, of one state.
Populate(state, index, words) ==
    Vec(Len(state), LAMBDA k : IF index <= k /\ k < index + Len(words) THEN At(words, k - index)
                               ELSE At(state, k))

\* check_memory_fits.
MemoryFits(index, bytes, k) == index + Len(WordsOf(bytes)) <= k

\* The regions that hold the same words before and after the execution.
FixedRegions(layout, io) ==
    <<<<Remap(layout.trustedStart, layout), io.trusted>>,
      <<Remap(layout.untrustedStart, layout), io.untrusted>>,
      <<Remap(layout.inputStart, layout), io.inputs>>>>

\* gen_ram_memory_states: dram is the words of the emulated memory at the end.
GenMemoryStates(k, program, layout, io, dram) ==
    LET dramStart == Remap(RamStart, layout)
        fixed == FixedRegions(layout, io)
        fill(state) ==
            LET after[i \in 0..3] == IF i = 0 THEN state
                                     ELSE Populate(after[i - 1], fixed[i][1], WordsOf(fixed[i][2]))
            IN after[3]
        copied  == Populate(Zeros(k), dramStart, Take(dram, Smaller(Len(dram), k - dramStart)))
        outputs == Populate(fill(copied), Remap(layout.outputStart, layout), WordsOf(io.outputs))
        flagged == Populate(outputs, Remap(layout.panic, layout), <<IF io.panic THEN 1 ELSE 0>>)
    IN [initial |-> fill(Populate(Zeros(k), Remap(program.start, layout), program.words)),
        final   |-> IF io.panic THEN flagged
                    ELSE Populate(flagged, Remap(layout.termination, layout), <<1>>)]

\* gen_ram_initial_memory_state: the public part of the initial state.
GenInitialState(k, program, layout, io) ==
    Populate(Populate(Zeros(k), Remap(program.start, layout), program.words),
             Remap(layout.inputStart, layout), WordsOf(io.inputs))

-----------------------------------------------------------------------------
\* compute_advice_selector: eq of the high address variables and the region.
AdviceSelector(adviceVars, start, layout, r) ==
    LET missing == Len(r) - adviceVars
        bits    == Corner(Remap(start, layout), Len(r))
    IN ProductOf(1, missing, LAMBDA i : IF bits[i] = 1 THEN r[i] ELSE 1 -- r[i])

AdviceVars(size) == LogOf(NextPowerOfTwo(size \div WordBytes))

\* compute_advice_init_contributions: the negated selector of each kind of advice
\* that is opened.
AdviceContributions(layout, op, r) ==
    [kind \in {"UntrustedAdvice", "TrustedAdvice"} \cap DOMAIN op |->
        IF kind = "UntrustedAdvice"
        THEN 0 -- AdviceSelector(AdviceVars(layout.untrusted), layout.untrustedStart, layout, r)
        ELSE 0 -- AdviceSelector(AdviceVars(layout.trusted), layout.trustedStart, layout, r)]

\* reconstruct_full_eval.
ReconstructFullEval(publicEval, contributions, op) ==
    LET term(kind) == IF kind \in DOMAIN contributions THEN contributions[kind] ** op[kind] ELSE 0
    IN publicEval -- term("UntrustedAdvice") -- term("TrustedAdvice")

\* sparse_eval_u64_block: by blocks as large as their alignment allows.
SparseEvalBlock(start, values, r) ==
    LET step[n \in 0..Len(values)] ==
            IF n = 0 THEN [off |-> 0, acc |-> 0]
            ELSE LET s    == step[n - 1]
                     size == MaxAlignedBlock(r, start + s.off, Len(values) - s.off)
                     eq   == EvalsForAlignedBlock(r, start + s.off, size)
                 IN IF s.off = Len(values) THEN s
                    ELSE [off |-> s.off + size,
                          acc |-> s.acc ++ Dot(eq, SubSeq(values, s.off + 1, s.off + size))]
    IN step[Len(values)].acc

\* eval_initial_ram_mle.
EvalInitialRam(program, layout, io, r) ==
    SparseEvalBlock(Remap(program.start, layout), program.words, r)
    ++ SparseEvalBlock(Remap(layout.inputStart, layout), WordsOf(io.inputs), r)

\* eval_io_mle: over the low variables, which the region before RAM fills.
EvalIo(layout, io, r) ==
    LET vars == LogOf(NextPowerOfTwo(Remap(RamStart, layout)))
        lo   == Drop(r, Len(r) - vars)
        flags == IF io.panic THEN << <<layout.panic, <<1>>>> >>
                 ELSE << <<layout.panic, <<0>>>>, <<layout.termination, <<1>>>> >>
        sum(blocks) == SumOf(1, Len(blocks), LAMBDA i :
                           SparseEvalBlock(Remap(blocks[i][1], layout), blocks[i][2], lo))
    IN ZeroSelector(Take(r, Len(r) - vars))
       ** sum(<< <<layout.inputStart, WordsOf(io.inputs)>>,
                 <<layout.outputStart, WordsOf(io.outputs)>> >> \o flags)

-----------------------------------------------------------------------------
(***************************************************************************)
(* The other sumchecks of RAM: the evaluation of the address               *)
(* (zkvm/ram/raf_evaluation.rs), the value check (val_check.rs), the       *)
(* output check (output_check.rs), the booleanity of the Hamming weight    *)
(* (hamming_booleanity.rs) and the virtualization of ra (ra_virtual.rs).   *)
(* The first and the third follow the rounds of read-write checking in     *)
(* which address variables are bound, with a gap for the cycle rounds.     *)
(***************************************************************************)

\* remap_address of the RAM access of cycle j.
AccessedWord(d, j) == LET a == At(d.ram, j) IN IF Touches(a) THEN a.addr ELSE NoIndex

LogK(d) == LogOf(Len(d.memory))

\* phase3_cycle_rounds, is_internal_cycle_gap_round.
CycleGap(d) == Len(d.rCycle) - d.phase1

IsGapRound(d, round) == d.phase2 <= round /\ round < d.phase2 + CycleGap(d)

\* normalize_opening_point of both: the address challenges, without the gap.
AddressPoint(d, challenges) ==
    Rev(Take(challenges, d.phase2) \o Drop(challenges, d.phase2 + CycleGap(d)))

-----------------------------------------------------------------------------
\* RafEvaluationSumcheckProver::initialize.
RafInitialize(d) ==
    LET loBits == Len(d.rCycle) \div 2
        hi == Evals(Take(d.rCycle, Len(d.rCycle) - loBits))
        lo == Evals(Drop(d.rCycle, Len(d.rCycle) - loBits))
        weight(j) == At(hi, j \div Len(lo)) ** At(lo, j % Len(lo))
        ra(k) == SumOf(0, Len(d.ram) - 1, LAMBDA j : IF AccessedWord(d, j) = k THEN weight(j) ELSE 0)
    IN [ra |-> Vec(Len(d.memory), ra), unmap |-> IdentityNew(LogK(d))]

RafMessage(d, st, round, claim) ==
    LET eval(x) == SumOf(0, Len(st.ra) \div 2 - 1, LAMBDA i :
                       At(SumcheckEvals(st.ra, i, 2, LowToHigh), x)
                       ** At(UnmapSumcheckEvals(st.unmap, d.lowest, i, 2, LowToHigh), x))
    IN IF IsGapRound(d, round) THEN <<claim ** TwoInv>>
       ELSE FromEvalsAndHint(claim, Scale(Vec(2, eval), TwoTo[CycleGap(d)]))

RafIngest(d, st, r, round) ==
    IF IsGapRound(d, round) THEN st
    ELSE [ra |-> BoundBot(st.ra, r), unmap |-> IdentityBind(st.unmap, r, LowToHigh)]

RafPoints(d, challenges) == [RamRa |-> AddressPoint(d, challenges) \o d.rCycle]

RafClaims(st) == [RamRa |-> st.ra[1]]

RafInputClaim(d, op) == op["RamAddress"] ** TwoTo[CycleGap(d)]

RafExpected(d, challenges, op) ==
    UnmapEvaluate(AddressPoint(d, challenges), d.lowest) ** op["RamRa"]

RafConstraint(d, challenges, op) ==
    LET values == <<UnmapEvaluate(AddressPoint(d, challenges), d.lowest)>>
    IN values[1] ** op["RamRa"]

-----------------------------------------------------------------------------
\* RamValCheckSumcheckParams: the initial value at r_address, of the prover and
\* of the verifier, who adds the advice to the public part.
ProverInitEval(d) == Evaluate(d.memory, d.rAddress)

VerifierInitEval(d, op) ==
    ReconstructFullEval(EvalInitialRam(d.program, d.layout, d.io, d.rAddress),
                        AdviceContributions(d.layout, op, d.rAddress), op)

ValCheckInputClaim(d, op) ==
    LET above(init) == (op["RamVal"] -- init) ++ d.gamma ** (op["RamValFinal"] -- init)
    IN above(VerifierInitEval(d, op))

\* input_claim_constraint: the advice is a term of its own.
ValCheckInputConstraint(d, op) ==
    LET contributions == AdviceContributions(d.layout, op, d.rAddress)
        scale  == 1 ++ d.gamma
        public == EvalInitialRam(d.program, d.layout, d.io, d.rAddress)
        term(kind) == IF kind \in DOMAIN contributions
                      THEN (scale ** contributions[kind]) ** op[kind] ELSE 0
    IN op["RamVal"] ++ d.gamma ** op["RamValFinal"] ++ (0 -- scale) ** public
       ++ term("UntrustedAdvice") ++ term("TrustedAdvice")

ValCheckInitialize(d) ==
    [inc |-> RamInc(d), lt |-> LtNew(d.rCycle),
     wa  |-> RaNew(Vec(Len(d.ram), LAMBDA j : AccessedWord(d, j)), Evals(d.rAddress))]

\* compute_message: at 1 and at 2, and the coefficient of X^3, to which the
\* quadratic term gives nothing.
ValCheckMessage(d, st, claim) ==
    LET pair(f(_), j) == <<f(2 * j), f(2 * j + 1)>>
        inc(j) == pair(LAMBDA i : At(st.inc, i), j)
        wa(j)  == pair(LAMBDA i : RaCoeff(st.wa, i), j)
        lt(j)  == pair(LAMBDA i : LtCoeff(st.lt, i), j)
        total(f(_)) == SumOf(0, Len(st.inc) \div 2 - 1, f)
        at(x)  == total(LAMBDA j : LineAt(inc(j), x) ** LineAt(wa(j), x) ** (LineAt(lt(j), x) ++ d.gamma))
        inf    == total(LAMBDA j : Slope(inc(j)) ** Slope(wa(j)) ** Slope(lt(j)))
    IN FromEvalsToom(<<claim -- at(1), at(1), at(2), inf>>)

ValCheckIngest(st, r) ==
    [inc |-> BoundBot(st.inc, r), wa |-> RaBind(st.wa, r, LowToHigh), lt |-> LtBind(st.lt, r, LowToHigh)]

ValCheckPoints(d, challenges) ==
    [RamRa |-> d.rAddress \o Rev(challenges), RamInc |-> Rev(challenges)]

ValCheckClaims(st) == [RamRa |-> RaFinal(st.wa), RamInc |-> st.inc[1]]

\* lt(r', r): r' is below r at the first variable in which they differ.
LtEval(x, y) ==
    LET step[i \in 0..Len(x)] ==
            IF i = 0 THEN [lt |-> 0, eq |-> 1]
            ELSE LET s == step[i - 1]
                 IN [lt |-> s.lt ++ (1 -- x[i]) ** y[i] ** s.eq,
                     eq |-> s.eq ** (1 -- x[i] -- y[i] ++ x[i] ** y[i] ++ x[i] ** y[i])]
    IN step[Len(x)].lt

ValCheckExpected(d, challenges, op) ==
    op["RamInc"] ** op["RamRa"] ** (LtEval(Rev(challenges), d.rCycle) ++ d.gamma)

ValCheckConstraint(d, challenges, op) ==
    LET values == <<LtEval(Rev(challenges), d.rCycle) ++ d.gamma>>
    IN op["RamInc"] ** op["RamRa"] ** values[1]

-----------------------------------------------------------------------------
\* The words of the device: inputs, outputs, panic and termination.
IoStart(d) == Remap(d.layout.inputStart, d.layout)

IoEnd(d) == Remap(RamStart, d.layout)

TrailingZeros(n) == IF n = 0 THEN 64 ELSE CHOOSE k \in 0..20 : n % 2^k = 0 /\ (n \div 2^k) % 2 = 1

\* OutputSumcheckProver::initialize.
OutputInitialize(d) ==
    LET inIo(k) == IoStart(d) <= k /\ k < IoEnd(d)
        zeros   == Smaller(TrailingZeros(IoStart(d)), TrailingZeros(IoEnd(d)))
    IN [final |-> d.final, io |-> Vec(Len(d.final), LAMBDA k : IF inIo(k) THEN At(d.final, k) ELSE 0),
        mask  |-> Vec(Len(d.final), LAMBDA k : IF inIo(k) THEN 1 ELSE 0),
        eq    |-> GruenNew(d.rAddress, LowToHigh, 1),
        zeroVars |-> Smaller(zeros, LogK(d))]

OutputMessage(d, st, round, claim) ==
    LET diff(k)  == At(st.final, k) -- At(st.io, k)
        constant == FoldOutIn(st.eq, LAMBDA g : At(st.mask, 2 * g) ** diff(2 * g))
        square   == FoldOutIn(st.eq, LAMBDA g : (At(st.mask, 2 * g + 1) -- At(st.mask, 2 * g))
                                                ** (diff(2 * g + 1) -- diff(2 * g)))
        scale    == TwoTo[CycleGap(d)]
    IN IF IsGapRound(d, round) \/ round < st.zeroVars THEN <<claim ** TwoInv>>
       ELSE GruenPolyDeg3(st.eq, scale ** constant, scale ** square, claim)

OutputIngest(d, st, r, round) ==
    IF IsGapRound(d, round) THEN st
    ELSE [st EXCEPT !.final = BoundBot(@, r), !.io = BoundBot(@, r), !.mask = BoundBot(@, r),
                    !.eq = GruenBind(@, r)]

OutputPoints(d, challenges) == [RamValFinal |-> AddressPoint(d, challenges)]

OutputClaims(st) == [RamValFinal |-> st.final[1]]

\* eq(r_address, r') io_mask(r').
EqIoMask(d, point) == EqMle(d.rAddress, point) ** RangeMask(point, IoStart(d), IoEnd(d))

OutputExpected(d, challenges, op) ==
    LET point == AddressPoint(d, challenges)
    IN EqIoMask(d, point) ** (op["RamValFinal"] -- EvalIo(d.layout, d.io, point))

OutputConstraint(d, challenges, op) ==
    LET point == AddressPoint(d, challenges)
        terms(mask, io) == mask ** op["RamValFinal"] ++ (0 -- mask) ** io
    IN terms(EqIoMask(d, point), EvalIo(d.layout, d.io, point))

-----------------------------------------------------------------------------
\* HammingBooleanitySumcheckProver: whether a cycle accesses RAM.
HammingInitialize(d) ==
    [eq |-> GruenNew(d.rCycle, LowToHigh, 1),
     h  |-> Vec(Len(d.ram), LAMBDA j : IF Touches(At(d.ram, j)) THEN 1 ELSE 0)]

HammingMessage(st, claim) ==
    LET h(i)   == At(st.h, i)
        slope(g) == h(2 * g + 1) -- h(2 * g)
    IN GruenPolyDeg3(st.eq, FoldOutIn(st.eq, LAMBDA g : h(2 * g) ** h(2 * g) -- h(2 * g)),
                     FoldOutIn(st.eq, LAMBDA g : slope(g) ** slope(g)), claim)

HammingIngest(st, r) == [eq |-> GruenBind(st.eq, r), h |-> BoundBot(st.h, r)]

HammingPoints(challenges) == [RamHammingWeight |-> Rev(challenges)]

HammingClaims(st) == [RamHammingWeight |-> st.h[1]]

HammingExpected(d, challenges, op) ==
    (op["RamHammingWeight"] ** op["RamHammingWeight"] -- op["RamHammingWeight"])
    ** EqMle(challenges, Rev(d.rCycle))

HammingConstraint(d, challenges, op) ==
    LET eq == EqMle(Rev(Rev(challenges)), Rev(d.rCycle))
        values == <<eq, 0 -- eq>>
    IN values[1] ** op["RamHammingWeight"] ** op["RamHammingWeight"] ++ values[2] ** op["RamHammingWeight"]

-----------------------------------------------------------------------------
\* OneHotParams::compute_r_address_chunks: the address point is padded with zeros
\* in front, to whole chunks.
AddressChunks(r, bits) ==
    LET missing == (bits - (Len(r) % bits)) % bits
        padded  == Zeros(missing) \o r
    IN Vec(Len(padded) \div bits, LAMBDA i : SubSeq(padded, i * bits + 1, (i + 1) * bits))

\* ram_address_chunk: chunk i of an address, the most significant first.
AddressChunk(address, i, count, bits) == (address \div 2^(bits * (count - 1 - i))) % 2^bits

\* RamRaVirtualSumcheckProver::initialize.
RaVirtualInitialize(d) ==
    LET chunks == AddressChunks(d.rAddress, d.chunkBits)
        index(j, i) == IF AccessedWord(d, j) = NoIndex THEN NoIndex
                       ELSE AddressChunk(AccessedWord(d, j), i, Len(chunks), d.chunkBits)
    IN [eq |-> GruenNew(d.rCycle, LowToHigh, 1),
        ra |-> Vec(Len(chunks), LAMBDA i :
                   RaNew(Vec(Len(d.ram), LAMBDA j : index(j, i)), Evals(At(chunks, i))))]

RaVirtualMessage(st, claim) == ProductSum(st.ra, claim, st.eq)

RaVirtualIngest(st, r) ==
    [eq |-> GruenBind(st.eq, r), ra |-> Vec(Len(st.ra), LAMBDA i : RaBind(At(st.ra, i), r, LowToHigh))]

RaVirtualPoints(d, challenges) ==
    LET chunks == AddressChunks(d.rAddress, d.chunkBits)
    IN [i \in 1..Len(chunks) |-> chunks[i] \o Rev(challenges)]

RaVirtualClaims(st) == [i \in 1..Len(st.ra) |-> RaFinal(st.ra[i])]

RaVirtualExpected(d, challenges, op) ==
    EqMle(d.rCycle, Rev(challenges)) ** ProductOf(1, Len(op), LAMBDA i : op[i])

RaVirtualConstraint(d, challenges, op) ==
    LET values == <<EqMle(d.rCycle, Rev(challenges))>>
    IN values[1] ** ProductOf(1, Len(op), LAMBDA i : op[i])

=============================================================================
