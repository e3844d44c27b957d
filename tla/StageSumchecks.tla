--------------------------- MODULE StageSumchecks ---------------------------
(***************************************************************************)
(* All sumchecks of the eight stages, as claims, rounds and points.        *)
(***************************************************************************)
EXTENDS Sumchecks

(***************************************************************************)
(* The sumchecks of Spartan and the reductions next to them:               *)
(* zkvm/spartan/*.rs, claim_reductions/instruction_lookups.rs and          *)
(* claim_reductions/registers.rs.  All bind cycle variables low to high.   *)
(***************************************************************************)

Outer(name) == At(Virt(name), "SpartanOuter")
Product(name) == At(Virt(name), "SpartanProductVirtualization")
InstrRed(name) == At(Virt(name), "InstructionClaimReduction")

----------------------------------------------------------------------------
(* Stage 1. *)

\* OuterUniSkip: one round, no input claim; the skipped polynomial is evaluated
\* at the challenge.
OuterUniSkipProver(r) == <<Opened(Outer("UnivariateSkip"), r, r)>>
OuterUniSkipVerifier(r) == <<Expect(Outer("UnivariateSkip"), r)>>
OuterUniSkip == Instance(1, {}, OuterUniSkipProver, OuterUniSkipVerifier)

\* OuterRemaining: a round over the two groups of constraints, then the cycles.
\* The prover evaluates every input of the constraint system at r_cycle.
OuterPoint(r) == Reverse(Tail(r))
OuterProver(r) == OpenedEach(R1CSInputs, "SpartanOuter", OuterPoint(r), OuterPoint(r))
OuterVerifier(r) == ExpectEach(R1CSInputs, "SpartanOuter", OuterPoint(r))
OuterRemaining(acc, c) ==
    Instance(1 + c.log_T,
             {Use(Outer("UnivariateSkip"), PointOf(acc, Outer("UnivariateSkip")))},
             OuterProver, OuterVerifier)

----------------------------------------------------------------------------
(* Stage 2. *)

\* ProductVirtualUniSkip: the three products of the outer sumcheck.
ProductUniSkipProver(r) == <<Opened(Product("UnivariateSkip"), r, r)>>
ProductUniSkipVerifier(r) == <<Expect(Product("UnivariateSkip"), r)>>
ProductUniSkip(acc) ==
    Instance(1, Uses({Outer("Product"), Outer("ShouldBranch"), Outer("ShouldJump")},
                     PointOf(acc, Outer("Product"))),
             ProductUniSkipProver, ProductUniSkipVerifier)

\* ProductVirtualRemainder: the prover evaluates the factors at r_cycle.
ProductProver(r) ==
    OpenedEach(ProductFactors, "SpartanProductVirtualization", Reverse(r), Reverse(r))
ProductVerifier(r) ==
    ExpectEach(ProductFactors, "SpartanProductVirtualization", Reverse(r))
ProductRemainder(acc, c) ==
    Instance(c.log_T,
             {Use(Product("UnivariateSkip"), PointOf(acc, Product("UnivariateSkip")))},
             ProductProver, ProductVerifier)

\* InstructionLookupsClaimReduction.
InstructionReductionProver(r) ==
    OpenedEach(<<Virt("LookupOutput"), Virt("LeftLookupOperand"),
                 Virt("RightLookupOperand"), Virt("LeftInstructionInput"),
                 Virt("RightInstructionInput")>>,
               "InstructionClaimReduction", Reverse(r), LowToHigh(r))
InstructionReductionVerifier(r) ==
    ExpectEach(<<Virt("LookupOutput"), Virt("LeftLookupOperand"),
                 Virt("RightLookupOperand"), Virt("LeftInstructionInput"),
                 Virt("RightInstructionInput")>>,
               "InstructionClaimReduction", Reverse(r))
InstructionReduction(acc, c) ==
    Instance(c.log_T,
             Uses({Outer("LookupOutput"), Outer("LeftLookupOperand"),
                   Outer("RightLookupOperand"), Outer("LeftInstructionInput"),
                   Outer("RightInstructionInput")},
                  PointOf(acc, Outer("LookupOutput"))),
             InstructionReductionProver, InstructionReductionVerifier)

----------------------------------------------------------------------------
(* Stage 3. *)

\* ShiftSumcheck: the next cycle's values, by eq-plus-one at the outer and at the
\* product sumcheck's point.
ShiftProver(r) ==
    OpenedEach(<<Virt("UnexpandedPC"), Virt("PC"), OpFlag("VirtualInstruction"),
                 OpFlag("IsFirstInSequence"), InstrFlag("IsNoop")>>,
               "SpartanShift", Reverse(r), LowToHigh(r))
ShiftVerifier(r) ==
    ExpectEach(<<Virt("UnexpandedPC"), Virt("PC"), OpFlag("VirtualInstruction"),
                 OpFlag("IsFirstInSequence"), InstrFlag("IsNoop")>>,
               "SpartanShift", Reverse(r))
Shift(acc, c) ==
    Instance(c.log_T,
             Uses({Outer("NextUnexpandedPC"), Outer("NextPC"), Outer("NextIsVirtual"),
                   Outer("NextIsFirstInSequence")},
                  First(PointOf(acc, Outer("NextPC")), c.log_T))
             \cup Uses({Product("NextIsNoop")},
                       First(PointOf(acc, Product("NextIsNoop")), c.log_T)),
             ShiftProver, ShiftVerifier)

\* InstructionInput: asserts that both sumchecks of stage 2 left the same claims
\* on the operands, at the same point.
InstructionInputProver(r) ==
    OpenedEach(<<InstrFlag("LeftOperandIsRs1Value"), Virt("Rs1Value"),
                 InstrFlag("LeftOperandIsPC"), Virt("UnexpandedPC"),
                 InstrFlag("RightOperandIsRs2Value"), Virt("Rs2Value"),
                 InstrFlag("RightOperandIsImm"), Virt("Imm")>>,
               "InstructionInputVirtualization", Reverse(r), LowToHigh(r))
InstructionInputVerifier(r) ==
    ExpectEach(<<InstrFlag("LeftOperandIsRs1Value"), Virt("Rs1Value"),
                 InstrFlag("LeftOperandIsPC"), Virt("UnexpandedPC"),
                 InstrFlag("RightOperandIsRs2Value"), Virt("Rs2Value"),
                 InstrFlag("RightOperandIsImm"), Virt("Imm")>>,
               "InstructionInputVirtualization", Reverse(r))
InstructionInput(acc) ==
    LET r_cycle == PointOf(acc, Product("LeftInstructionInput"))
        operands == {"LeftInstructionInput", "RightInstructionInput"}
    IN  [Instance(Len(r_cycle),
                  Uses({Product(o) : o \in operands} \cup {InstrRed(o) : o \in operands},
                       r_cycle),
                  InstructionInputProver, InstructionInputVerifier)
         EXCEPT !.ok = \A o \in operands :
                          /\ PointOf(acc, InstrRed(o)) = PointOf(acc, Product(o))
                          /\ ClaimOf(acc, InstrRed(o)) = ClaimOf(acc, Product(o))]

\* RegistersClaimReduction: the prover's eq polynomial is at the point of
\* LookupOutput, the verifier evaluates it at the point of RdWriteValue.
RegistersReductionProver(r) ==
    OpenedEach(<<Virt("RdWriteValue"), Virt("Rs1Value"), Virt("Rs2Value")>>,
               "RegistersClaimReduction", Reverse(r), LowToHigh(r))
RegistersReductionVerifier(r) ==
    ExpectEach(<<Virt("RdWriteValue"), Virt("Rs1Value"), Virt("Rs2Value")>>,
               "RegistersClaimReduction", Reverse(r))
RegistersReduction(acc, c) ==
    LET values == {Outer("RdWriteValue"), Outer("Rs1Value"), Outer("Rs2Value")}
    IN  Instance(c.log_T,
                 Uses(values, PointOf(acc, Outer("LookupOutput")))
                 \cup Uses(values, PointOf(acc, Outer("RdWriteValue"))),
                 RegistersReductionProver, RegistersReductionVerifier)

-----------------------------------------------------------------------------
(***************************************************************************)
(* The sumchecks of RAM and of the registers: zkvm/ram/*.rs,               *)
(* zkvm/registers/*.rs and claim_reductions/ram_ra.rs.                     *)
(*                                                                         *)
(* Read-write checking binds its variables in three phases chosen by       *)
(* ReadWriteConfig: some cycle variables, some address variables, then the *)
(* rest of both.  The RAF and the output check run beside RAM's and must   *)
(* end with the same address challenges, so they start with its second     *)
(* phase and idle while it binds the cycle variables of its third.         *)
(***************************************************************************)

RamRW(name) == At(Virt(name), "RamReadWriteChecking")
RamInc(sumcheck) == At(Comm("RamInc"), sumcheck)
RdInc(sumcheck) == At(Comm("RdInc"), sumcheck)
RamRa(sumcheck) == At(Virt("RamRa"), sumcheck)
RegRW(name) == At(Virt(name), "RegistersReadWriteChecking")
RegRed(name) == At(Virt(name), "RegistersClaimReduction")
InstrInput(name) == At(Virt(name), "InstructionInputVirtualization")

\* A mutant: the address variables of the second phase are taken for the highest.
ReadWritePointSwapped(log_T, p1, p2, r) ==
    LET phase1 == First(r, p1)
        phase2 == SubSeq(r, p1 + 1, p1 + p2)
        phase3 == From(r, p1 + p2)
    IN  Reverse(phase2) \o Reverse(From(phase3, log_T - p1))
        \o Reverse(First(phase3, log_T - p1)) \o Reverse(phase1)

\* normalize_opening_point of both read-write checkings.
ReadWritePoint(log_T, p1, p2, r) ==
    LET phase1 == First(r, p1)
        phase2 == SubSeq(r, p1 + 1, p1 + p2)
        phase3 == From(r, p1 + p2)
        cycle3 == First(phase3, log_T - p1)
        address3 == From(phase3, log_T - p1)
    IN  Reverse(address3) \o Reverse(phase2) \o Reverse(cycle3) \o Reverse(phase1)

\* phase1_bind, phase2_bind and phase3_bind: the order in which the variables of
\* a matrix (address, then cycle) are bound, and its cycle variables alone.
ReadWriteOrder(log_K, log_T, p1, p2) ==
    Down(log_K + log_T, log_K + log_T - p1) \o Down(log_K, log_K - p2)
    \o Down(log_K + log_T - p1, log_K) \o Down(log_K - p2, 0)
CycleRounds(log_T, p1, p2) == (1 .. p1) \cup (p1 + p2 + 1 .. p2 + log_T)

----------------------------------------------------------------------------
(* Stage 2. *)

\* RamReadWriteChecking.
RamReadWriteProver(c, r) ==
    LET point == ReadWritePoint(c.log_T, c.p1, c.p2, r)
        bound == Bound(ReadWriteOrder(c.ram_log_K, c.log_T, c.p1, c.p2), r)
        cycle == DOMAIN r \ CycleRounds(c.log_T, c.p1, c.p2)
    IN  << Opened(RamRW("RamVal"), point, bound),
           Opened(RamRW("RamRa"), point, bound),
           Opened(RamInc("RamReadWriteChecking"), From(point, c.ram_log_K),
                  LowToHigh(Without(r, cycle))) >>
RamReadWriteVerifier(c, r) ==
    LET point == ReadWritePoint(c.log_T, c.p1, c.p2, r)
    IN  << Expect(RamRW("RamVal"), point), Expect(RamRW("RamRa"), point),
           Expect(RamInc("RamReadWriteChecking"), From(point, c.ram_log_K)) >>
RamReadWrite(acc, c) ==
    Instance(c.ram_log_K + c.log_T,
             Uses({Outer("RamReadValue"), Outer("RamWriteValue")},
                  PointOf(acc, Outer("RamReadValue"))),
             LAMBDA r : RamReadWriteProver(c, r),
             LAMBDA r : RamReadWriteVerifier(c, r))

\* is_internal_cycle_gap_round, and the address challenges among the others.
Gap(c) == c.log_T - c.p1
GapRounds(c) == c.p2 + 1 .. c.p2 + Gap(c)
GappedAddress(c, r) == Reverse(First(r, c.p2) \o From(r, c.p2 + Gap(c)))

\* A mutant: the instance ends with the batch wherever its rounds belong.
GappedOffsetEarly(c) == [max \in Nat |-> max - (c.log_T + c.ram_log_K)]

\* round_offset of both: the start of read-write checking's second phase.
GappedOffset(c) == [max \in Nat |-> max - (c.log_T + c.ram_log_K) + c.p1]

\* The instance of the RAF and of the output check: input and messages carry
\* the factor that the gap's rounds take away.
GappedRounds(c) == c.log_T + c.ram_log_K - c.p1
Gapped(instance, c) ==
    [instance EXCEPT !.offset = GappedOffset(c),
                     !.pre = Gap(c),
                     !.dummies = GapRounds(c),
                     !.scale = [j \in Nat |-> Gap(c)]]

\* RamRafEvaluation.
RamRafProver(r_cycle, c, r) ==
    << Opened(RamRa("RamRafEvaluation"), GappedAddress(c, r) \o r_cycle,
              LowToHigh(Without(r, GapRounds(c))) \o r_cycle) >>
RamRafVerifier(r_cycle, c, r) ==
    << Expect(RamRa("RamRafEvaluation"), GappedAddress(c, r) \o r_cycle) >>
RamRaf(acc, c) ==
    LET r_cycle == PointOf(acc, Outer("RamAddress"))
    IN  Gapped(Instance(GappedRounds(c), Uses({Outer("RamAddress")}, r_cycle),
                        LAMBDA r : RamRafProver(r_cycle, c, r),
                        LAMBDA r : RamRafVerifier(r_cycle, c, r)), c)

\* OutputSumcheck: its input claim is zero.
RamOutputProver(c, r) ==
    << Opened(At(Virt("RamValFinal"), "RamOutputCheck"), GappedAddress(c, r),
              LowToHigh(Without(r, GapRounds(c)))) >>
RamOutputVerifier(c, r) ==
    << Expect(At(Virt("RamValFinal"), "RamOutputCheck"), GappedAddress(c, r)) >>
RamOutput(c) ==
    Gapped(Instance(GappedRounds(c), {}, LAMBDA r : RamOutputProver(c, r),
                    LAMBDA r : RamOutputVerifier(c, r)), c)

----------------------------------------------------------------------------
(* Stage 4. *)

AdviceKinds == {"untrusted", "trusted"}
AdviceVars(c, kind) == IF kind = "trusted" THEN c.trusted ELSE c.untrusted
Only(kind, condition) == IF condition THEN <<kind>> ELSE <<>>
KindsOf(c) == Only("untrusted", c.untrusted > 0) \o Only("trusted", c.trusted > 0)

\* prover_accumulate_advice: the advice's value at the last coordinates of the
\* address, untrusted advice first.
AdvicePoint(acc, c, kind) ==
    LastOf(First(PointOf(acc, RamRW("RamVal")), c.ram_log_K), AdviceVars(c, kind))
ProverAdvice(acc, c) ==
    [i \in DOMAIN KindsOf(c) |->
        LET point == AdvicePoint(acc, c, KindsOf(c)[i])
        IN  Opened(At(Advice(KindsOf(c)[i]), "RamValCheck"), point, point)]

\* A mutant: trusted advice first.
VerifierAdviceSwapped(acc, c) ==
    LET kinds == Reverse(KindsOf(c))
    IN  [i \in DOMAIN kinds |->
            Expect(At(Advice(kinds[i]), "RamValCheck"), AdvicePoint(acc, c, kinds[i]))]

\* verifier_accumulate_advice.
VerifierAdvice(acc, c) ==
    [i \in DOMAIN KindsOf(c) |->
        Expect(At(Advice(KindsOf(c)[i]), "RamValCheck"), AdvicePoint(acc, c, KindsOf(c)[i]))]

\* RegistersReadWriteChecking: asserts that two reductions left the same claims.
RegistersReadWriteProver(c, r) ==
    LET point == ReadWritePoint(c.log_T, c.q1, c.q2, r)
        bound == Bound(ReadWriteOrder(LogRegisters, c.log_T, c.q1, c.q2), r)
        cycle == DOMAIN r \ CycleRounds(c.log_T, c.q1, c.q2)
    IN  << Opened(RegRW("RegistersVal"), point, bound),
           Opened(RegRW("Rs1Ra"), point, bound),
           Opened(RegRW("Rs2Ra"), point, point),
           Opened(RegRW("RdWa"), point, bound),
           Opened(RdInc("RegistersReadWriteChecking"), From(point, LogRegisters),
                  LowToHigh(Without(r, cycle))) >>
RegistersReadWriteVerifier(c, r) ==
    LET point == ReadWritePoint(c.log_T, c.q1, c.q2, r)
    IN  ExpectEach(<<Virt("RegistersVal"), Virt("Rs1Ra"), Virt("Rs2Ra"), Virt("RdWa")>>,
                   "RegistersReadWriteChecking", point)
        \o << Expect(RdInc("RegistersReadWriteChecking"), From(point, LogRegisters)) >>
RegistersReadWrite(acc, c) ==
    LET reads == {"Rs1Value", "Rs2Value"}
    IN  [Instance(LogRegisters + c.log_T,
                  Uses({RegRed("RdWriteValue")} \cup {RegRed(v) : v \in reads}
                         \cup {InstrInput(v) : v \in reads},
                       PointOf(acc, RegRed("RdWriteValue"))),
                  LAMBDA r : RegistersReadWriteProver(c, r),
                  LAMBDA r : RegistersReadWriteVerifier(c, r))
         EXCEPT !.ok = \A v \in reads :
                          ClaimOf(acc, RegRed(v)) = ClaimOf(acc, InstrInput(v))]

\* A mutant: the increments' claim goes to another sumcheck's key.
RamValProverKey(r_address, r) ==
    << Opened(RamRa("RamValCheck"), r_address \o Reverse(r), r_address \o LowToHigh(r)),
       Opened(RamInc("RamReadWriteChecking"), Reverse(r), LowToHigh(r)) >>

\* RamValCheck: the value while the program runs and the final value come from
\* the initial one, advice included, by increments; both at one address.
RamValProver(r_address, r) ==
    << Opened(RamRa("RamValCheck"), r_address \o Reverse(r), r_address \o LowToHigh(r)),
       Opened(RamInc("RamValCheck"), Reverse(r), LowToHigh(r)) >>
RamValVerifier(r_address, r) ==
    << Expect(RamRa("RamValCheck"), r_address \o Reverse(r)),
       Expect(RamInc("RamValCheck"), Reverse(r)) >>
RamVal(acc, c) ==
    LET point == PointOf(acc, RamRW("RamVal"))
        r_address == First(point, c.ram_log_K)
        final == At(Virt("RamValFinal"), "RamOutputCheck")
    IN  [Instance(c.log_T,
                  {Use(RamRW("RamVal"), point), Use(final, r_address)}
                  \cup {Use(At(Advice(kind), "RamValCheck"),
                            LastOf(r_address, AdviceVars(c, kind))) : kind \in Range(KindsOf(c))},
                  LAMBDA r : RamValProver(r_address, r),
                  LAMBDA r : RamValVerifier(r_address, r))
         EXCEPT !.ok = PointOf(acc, final) = r_address]

----------------------------------------------------------------------------
(* Stage 5. *)

\* RamRaClaimReduction: one address, three cycle points.
RamRaReductionProver(r_address, r) ==
    << Opened(RamRa("RamRaClaimReduction"), r_address \o Reverse(r),
              r_address \o LowToHigh(r)) >>
RamRaReductionVerifier(r_address, r) ==
    << Expect(RamRa("RamRaClaimReduction"), r_address \o Reverse(r)) >>
RamRaReduction(acc, c) ==
    LET r(s) == PointOf(acc, RamRa(s))
        r_address == First(r("RamRafEvaluation"), c.ram_log_K)
        from == {"RamRafEvaluation", "RamReadWriteChecking", "RamValCheck"}
    IN  [Instance(c.log_T,
                  {Use(RamRa(s), r_address \o From(r(s), c.ram_log_K)) : s \in from},
                  LAMBDA x : RamRaReductionProver(r_address, x),
                  LAMBDA x : RamRaReductionVerifier(r_address, x))
         EXCEPT !.ok = \A s \in from : First(r(s), c.ram_log_K) = r_address]

\* RegistersValEvaluation.
RegistersValProver(r_address, r) ==
    << Opened(RdInc("RegistersValEvaluation"), Reverse(r), LowToHigh(r)),
       Opened(At(Virt("RdWa"), "RegistersValEvaluation"), r_address \o Reverse(r),
              r_address \o LowToHigh(r)) >>
RegistersValVerifier(r_address, r) ==
    << Expect(RdInc("RegistersValEvaluation"), Reverse(r)),
       Expect(At(Virt("RdWa"), "RegistersValEvaluation"), r_address \o Reverse(r)) >>
RegistersVal(acc) ==
    LET point == PointOf(acc, RegRW("RegistersVal"))
        r_address == First(point, LogRegisters)
    IN  Instance(Len(From(point, LogRegisters)), {Use(RegRW("RegistersVal"), point)},
                 LAMBDA r : RegistersValProver(r_address, r),
                 LAMBDA r : RegistersValVerifier(r_address, r))

-----------------------------------------------------------------------------
(***************************************************************************)
(* The sumchecks of instruction lookups and bytecode and those over the    *)
(* one-hot polynomials: zkvm/instruction_lookups/*.rs,                     *)
(* zkvm/bytecode/read_raf_checking.rs, subprotocols/booleanity.rs,         *)
(* zkvm/ram/{hamming_booleanity,ra_virtual}.rs and                         *)
(* claim_reductions/{increments,hamming_weight}.rs.                        *)
(*                                                                         *)
(* In stage 6 each of them binds its cycle variables in the last log_T     *)
(* rounds of the batch, whatever the length of its address: that is what   *)
(* makes their openings fit the one point the commitments are opened at.   *)
(***************************************************************************)

ReadRaf(poly) == At(poly, "InstructionReadRaf")
ShiftOf(poly) == At(poly, "SpartanShift")
ProductOf(poly) == At(poly, "SpartanProductVirtualization")
OuterOf(poly) == At(poly, "SpartanOuter")
InputOf(poly) == At(poly, "InstructionInputVirtualization")

\* Variables bound from the highest.
HighToLow(r) == Bound([j \in DOMAIN r |-> j], r)

\* A one-hot polynomial per chunk of an address, at the chunk and a cycle point.
ChunkPoints(chunks, r_cycle) == [i \in DOMAIN chunks |-> chunks[i] \o r_cycle]

----------------------------------------------------------------------------
(* Stage 5. *)

TableFlags == [i \in 1 .. NumLookupTables |-> VirtAt("LookupTableFlag", i)]
VirtualChunks(r) ==
    [i \in 1 .. VirtualD |-> SubSeq(r, (i - 1) * LogKVirtualChunk + 1, i * LogKVirtualChunk)]

\* InstructionReadRaf: the lookup index is bound from its highest bit, the cycle
\* from its lowest.  The prover evaluates the flags at r_cycle.
ReadRafProver(r) ==
    LET address == First(r, LOG_K)
        cycle == From(r, LOG_K)
        points == ChunkPoints(VirtualChunks(address), Reverse(cycle))
        bounds == ChunkPoints(VirtualChunks(HighToLow(address)), LowToHigh(cycle))
    IN  OpenedEach(TableFlags, "InstructionReadRaf", Reverse(cycle), Reverse(cycle))
        \o [i \in 1 .. VirtualD |->
               Opened(ReadRaf(VirtAt("InstructionRa", i)), points[i], bounds[i])]
        \o << Opened(ReadRaf(Virt("InstructionRafFlag")), Reverse(cycle), Reverse(cycle)) >>
ReadRafVerifier(r) ==
    LET points == ChunkPoints(VirtualChunks(First(r, LOG_K)), Reverse(From(r, LOG_K)))
    IN  ExpectEach(TableFlags, "InstructionReadRaf", Reverse(From(r, LOG_K)))
        \o [i \in 1 .. VirtualD |-> Expect(ReadRaf(VirtAt("InstructionRa", i)), points[i])]
        \o << Expect(ReadRaf(Virt("InstructionRafFlag")), Reverse(From(r, LOG_K))) >>
InstructionReadRaf(acc, c) ==
    [Instance(LOG_K + c.log_T,
              Uses({InstrRed("LookupOutput"), Product("LookupOutput"),
                    InstrRed("LeftLookupOperand"), InstrRed("RightLookupOperand")},
                   PointOf(acc, InstrRed("LookupOutput"))),
              ReadRafProver, ReadRafVerifier)
     EXCEPT !.ok = ClaimOf(acc, InstrRed("LookupOutput")) = ClaimOf(acc, Product("LookupOutput"))]

----------------------------------------------------------------------------
(* Stage 6. *)

\* A mutant: the claims of the product sumcheck are left out.
BytecodeUsesNoProduct(acc) ==
    LET r1 == PointOf(acc, Outer("Imm"))
        r3 == PointOf(acc, ShiftOf(Virt("UnexpandedPC")))
    IN  Uses({Outer("UnexpandedPC"), Outer("Imm"), Outer("PC")}
               \cup {OuterOf(f) : f \in CircuitFlags}, r1)
        \cup Uses({InstrInput("Imm"), InstrInput("UnexpandedPC")}, r3)

\* BytecodeReadRafSumcheckParams: claims of five stages on what the bytecode
\* says of a cycle's instruction, each stage with a cycle point of its own.
BytecodeUses(acc) ==
    LET r1 == PointOf(acc, Outer("Imm"))
        r2 == PointOf(acc, ProductOf(OpFlag("Jump")))
        r3 == PointOf(acc, ShiftOf(Virt("UnexpandedPC")))
        r4 == First(PointOf(acc, RegRW("RdWa")), LogRegisters)
              \o From(PointOf(acc, RegRW("Rs1Ra")), LogRegisters)
        wa == At(Virt("RdWa"), "RegistersValEvaluation")
        r5 == PointOf(acc, wa)
    IN  Uses({Outer("UnexpandedPC"), Outer("Imm"), Outer("PC")}
               \cup {OuterOf(f) : f \in CircuitFlags}, r1)
        \cup Uses({ProductOf(OpFlag("Jump")), ProductOf(InstrFlag("Branch")),
                   ProductOf(OpFlag("WriteLookupOutputToRD")),
                   ProductOf(OpFlag("VirtualInstruction"))}, r2)
        \cup Uses({InstrInput("Imm"), InstrInput("UnexpandedPC"),
                   ShiftOf(Virt("UnexpandedPC")), ShiftOf(Virt("PC")),
                   ShiftOf(InstrFlag("IsNoop")), ShiftOf(OpFlag("VirtualInstruction")),
                   ShiftOf(OpFlag("IsFirstInSequence"))}
                  \cup {InputOf(InstrFlag(f)) :
                          f \in {"LeftOperandIsRs1Value", "LeftOperandIsPC",
                                 "RightOperandIsRs2Value", "RightOperandIsImm"}}, r3)
        \cup Uses({RegRW("RdWa"), RegRW("Rs1Ra"), RegRW("Rs2Ra")}, r4)
        \cup Uses({wa}, r5)
        \cup Uses({ReadRaf(Virt("InstructionRafFlag"))} \cup {ReadRaf(f) : f \in Range(TableFlags)},
                  From(r5, LogRegisters))

BytecodePolys(c) == [i \in 1 .. ChunksOf(c.bytecode_log_K) |-> CommAt("BytecodeRa", i)]
BytecodeProver(c, r) ==
    LET address == First(r, c.bytecode_log_K)
        cycle == From(r, c.bytecode_log_K)
        points == ChunkPoints(AddressChunks(Reverse(address)), Reverse(cycle))
        bounds == ChunkPoints(AddressChunks(LowToHigh(address)), LowToHigh(cycle))
    IN  [i \in DOMAIN BytecodePolys(c) |->
            Opened(At(BytecodePolys(c)[i], "BytecodeReadRaf"), points[i], bounds[i])]
BytecodeVerifier(c, r) ==
    LET points == ChunkPoints(AddressChunks(Reverse(First(r, c.bytecode_log_K))),
                              Reverse(From(r, c.bytecode_log_K)))
    IN  [i \in DOMAIN BytecodePolys(c) |->
            Expect(At(BytecodePolys(c)[i], "BytecodeReadRaf"), points[i])]
BytecodeReadRaf(acc, c) ==
    [Instance(c.bytecode_log_K + c.log_T, BytecodeUses(acc),
              LAMBDA r : BytecodeProver(c, r), LAMBDA r : BytecodeVerifier(c, r))
     EXCEPT !.ok = ClaimOf(acc, ShiftOf(Virt("UnexpandedPC"))) = ClaimOf(acc, InstrInput("UnexpandedPC"))]

\* Booleanity: all one-hot polynomials at one point.  The point of its eq is the
\* one of the first virtual polynomial of stage 5, no claim of which it takes.
BooleanityPoint(r) == Reverse(First(r, LogKChunk)) \o Reverse(From(r, LogKChunk))
BooleanityProver(c, r) ==
    OpenedEach(RaPolynomials(c), "Booleanity", BooleanityPoint(r),
               LowToHigh(First(r, LogKChunk)) \o LowToHigh(From(r, LogKChunk)))
BooleanityVerifier(c, r) == ExpectEach(RaPolynomials(c), "Booleanity", BooleanityPoint(r))
Booleanity(acc, c) ==
    [Instance(LogKChunk + c.log_T, {},
              LAMBDA r : BooleanityProver(c, r), LAMBDA r : BooleanityVerifier(c, r))
     EXCEPT !.ok = Len(PointOf(acc, ReadRaf(VirtAt("InstructionRa", 1))))
                     = LogKVirtualChunk + c.log_T]

\* RamHammingBooleanity: the input claim is zero.
RamHammingProver(r) ==
    << Opened(At(Virt("RamHammingWeight"), "RamHammingBooleanity"), Reverse(r), LowToHigh(r)) >>
RamHammingVerifier(r) ==
    << Expect(At(Virt("RamHammingWeight"), "RamHammingBooleanity"), Reverse(r)) >>
RamHamming(acc) ==
    Instance(Len(PointOf(acc, Outer("LookupOutput"))), {}, RamHammingProver, RamHammingVerifier)

\* RamRaVirtual: RamRa is the product of its chunks.
RamRaVirtualProver(chunks, r) ==
    [i \in DOMAIN chunks |->
        Opened(At(CommAt("RamRa", i), "RamRaVirtualization"), chunks[i] \o Reverse(r),
               chunks[i] \o LowToHigh(r))]
RamRaVirtualVerifier(chunks, r) ==
    [i \in DOMAIN chunks |->
        Expect(At(CommAt("RamRa", i), "RamRaVirtualization"), chunks[i] \o Reverse(r))]
RamRaVirtual(acc, c) ==
    LET point == PointOf(acc, RamRa("RamRaClaimReduction"))
        chunks == AddressChunks(First(point, c.ram_log_K))
    IN  Instance(c.log_T, {Use(RamRa("RamRaClaimReduction"), point)},
                 LAMBDA r : RamRaVirtualProver(chunks, r),
                 LAMBDA r : RamRaVirtualVerifier(chunks, r))

\* InstructionRaVirtual: each virtual polynomial is the product of its chunks;
\* the cycle point is the first one's.
InstructionRaVirtualProver(chunks, r) ==
    [i \in DOMAIN chunks |->
        Opened(At(CommAt("InstructionRa", i), "InstructionRaVirtualization"),
               chunks[i] \o Reverse(r), chunks[i] \o LowToHigh(r))]
InstructionRaVirtualVerifier(chunks, r) ==
    [i \in DOMAIN chunks |->
        Expect(At(CommAt("InstructionRa", i), "InstructionRaVirtualization"),
               chunks[i] \o Reverse(r))]
InstructionRaVirtual(acc) ==
    LET r(i) == PointOf(acc, ReadRaf(VirtAt("InstructionRa", i)))
        address(i) == First(r(i), LogKVirtualChunk)
        r_cycle == From(r(1), LogKVirtualChunk)
        chunks == AddressChunks(FlattenSeq([i \in 1 .. VirtualD |-> address(i)]))
    IN  Instance(Len(r_cycle),
                 {Use(ReadRaf(VirtAt("InstructionRa", i)), address(i) \o r_cycle) :
                    i \in 1 .. VirtualD},
                 LAMBDA x : InstructionRaVirtualProver(chunks, x),
                 LAMBDA x : InstructionRaVirtualVerifier(chunks, x))

\* IncClaimReduction: four claims, each at its own cycle point.
IncProver(r) ==
    OpenedEach(<<Comm("RamInc"), Comm("RdInc")>>, "IncClaimReduction", Reverse(r), LowToHigh(r))
IncVerifier(r) ==
    ExpectEach(<<Comm("RamInc"), Comm("RdInc")>>, "IncClaimReduction", Reverse(r))
IncReduction(acc, c) ==
    Instance(c.log_T,
             {Use(k, PointOf(acc, k)) :
                k \in {RamInc("RamReadWriteChecking"), RamInc("RamValCheck"),
                       RdInc("RegistersReadWriteChecking"), RdInc("RegistersValEvaluation")}},
             IncProver, IncVerifier)

----------------------------------------------------------------------------
(* Stage 7. *)

\* The sumcheck that opened a one-hot polynomial at an address of its own.
VirtualizationOf(poly) ==
    CASE poly[2] = "InstructionRa" -> "InstructionRaVirtualization"
      [] poly[2] = "BytecodeRa" -> "BytecodeReadRaf"
      [] poly[2] = "RamRa" -> "RamRaVirtualization"

\* HammingWeightClaimReduction: takes every one-hot polynomial at booleanity's
\* point and at its own address, and takes the cycle of both to be booleanity's.
HammingWeightProver(c, r_cycle, r) ==
    OpenedEach(RaPolynomials(c), "HammingWeightClaimReduction", Reverse(r) \o r_cycle,
               LowToHigh(r) \o r_cycle)
HammingWeightVerifier(c, r_cycle, r) ==
    ExpectEach(RaPolynomials(c), "HammingWeightClaimReduction", Reverse(r) \o r_cycle)
HammingWeight(acc, c) ==
    LET unified == PointOf(acc, At(CommAt("InstructionRa", 1), "Booleanity"))
        r_cycle == From(unified, LogKChunk)
        polys == Range(RaPolynomials(c))
        virt(p) == At(p, VirtualizationOf(p))
    IN  Instance(LogKChunk,
                 Uses(IdsAt(polys, "Booleanity"), First(unified, LogKChunk) \o r_cycle)
                 \cup {Use(virt(p), First(PointOf(acc, virt(p)), LogKChunk) \o r_cycle) : p \in polys}
                 \cup {Use(At(Virt("RamHammingWeight"), "RamHammingBooleanity"), r_cycle)},
                 LAMBDA r : HammingWeightProver(c, r_cycle, r),
                 LAMBDA r : HammingWeightVerifier(c, r_cycle, r))

----------------------------------------------------------------------------
(* CommittedPolynomial and VirtualPolynomial: those a proof of this size opens. *)

InputFlags ==
    {"LeftOperandIsRs1Value", "LeftOperandIsPC", "RightOperandIsRs2Value", "RightOperandIsImm"}
Witnesses ==
    {"UnivariateSkip", "RamVal", "RamRa", "RamValFinal", "RegistersVal", "Rs1Ra", "Rs2Ra", "RdWa",
     "InstructionRafFlag", "RamHammingWeight"}
Polynomials(c) ==
    Range(R1CSInputs) \cup Range(ProductFactors) \cup Range(TableFlags)
    \cup {Virt(v) : v \in Witnesses}
    \cup {VirtAt("InstructionRa", i) : i \in 1 .. VirtualD}
    \cup {InstrFlag(f) : f \in InputFlags \cup {"IsNoop"}}
    \cup {Comm("RamInc"), Comm("RdInc")} \cup {Advice(kind) : kind \in AdviceKinds}
    \cup Range(RaPolynomials(c))

=============================================================================
