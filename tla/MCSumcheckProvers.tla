-------------------------- MODULE MCSumcheckProvers --------------------------
(***************************************************************************)
(* The sumchecks of a trace of eight cycles on a machine with 16 words of  *)
(* RAM (advice, inputs, outputs, panic and termination bits, a program and *)
(* a heap) and 4 registers.                                                *)
(***************************************************************************)
EXTENDS SumcheckProvers

\* What a cycle does: registers read and written (None: absent), and a read
\* or a write of a word of RAM.
None == -1
Step(rs1, rs2, rd, value, kind, addr, stored) ==
    [rs1 |-> rs1, rs2 |-> rs2, rd |-> rd, value |-> value, kind |-> kind, addr |-> addr,
     stored |-> stored]

Execute(steps, memory) ==
    LET run[n \in 0 .. Len(steps)] ==
            IF n = 0
            THEN [regs |-> Zeros(RegisterCount), mem |-> memory, ram |-> <<>>, registers |-> <<>>]
            ELSE LET s == run[n - 1]
                     st == steps[n]
                     read(r) == IF r = None THEN {} ELSE {[reg |-> r, val |-> At(s.regs, r)]}
                     pre == IF st.kind = "none" THEN 0 ELSE At(s.mem, st.addr)
                     post == IF st.kind = "write" THEN st.stored ELSE pre
                     value == IF st.kind = "read" THEN pre ELSE st.value
                 IN  [regs |-> IF st.rd = None THEN s.regs
                               ELSE [s.regs EXCEPT ![st.rd + 1] = value],
                      mem |-> IF st.kind = "write" THEN [s.mem EXCEPT ![st.addr + 1] = post]
                              ELSE s.mem,
                      ram |-> Append(s.ram, [kind |-> st.kind, addr |-> st.addr,
                                             pre |-> pre, post |-> post]),
                      registers |->
                          Append(s.registers,
                                 [rs1 |-> read(st.rs1), rs2 |-> read(st.rs2),
                                  rd |-> IF st.rd = None THEN {}
                                         ELSE {[reg |-> st.rd, pre |-> At(s.regs, st.rd),
                                                post |-> value]}])]
    IN  run[Len(steps)]

\* Cycles that read what another wrote, a register read twice in a cycle, a
\* register overwritten, a write to the outputs and the termination bit, and
\* cycles without any access.
Steps ==
    << Step(None, None, 1, 5, "none", 0, 0), Step(1, None, 2, 0, "read", 3, 0),
       Step(1, 2, 3, 0, "read", 2, 0), Step(3, 2, None, 0, "write", 4, 77),
       Step(2, 2, None, 0, "write", 9, 300), Step(None, 3, 1, 0, "read", 9, 0),
       Step(1, None, None, 0, "write", 6, 1), Step(None, None, None, 0, "none", 0, 0) >>

Layout == MemoryLayout([trusted |-> 4, untrusted |-> 1, input |-> 2, output |-> 2])
Io == [trusted |-> <<11, 1, 9>>, untrusted |-> <<23>>, inputs |-> <<44>>, outputs |-> <<77>>,
       panic |-> FALSE]
Program == Preprocess({<<RamStart, 9>>, <<RamStart + 1, 2>>, <<RamStart + 2, 5>>,
                       <<RamStart + 3, 17>>, <<RamStart + 4, 3>>})
InitialMemory == GenMemoryStates(16, Program, Layout, Io, <<>>).initial
Run == Execute(Steps, InitialMemory)
FinalMemory ==
    GenMemoryStates(16, Program, Layout, Io, Drop(Run.mem, Remap(RamStart, Layout))).final

\* The memory the provers build from the device and the final DRAM is the one
\* the trace leaves.
ASSUME FinalMemory = Run.mem

\* A cycle as the constraints see it.  The lookup operands are those of
\* to_lookup_operands.
Cycle(pc, upc, flags, iflags, left, right, imm, rs1, rs2, rd, output) ==
    [pc |-> pc, upc |-> upc, flags |-> flags, iflags |-> iflags, left |-> left, right |-> right,
     imm |-> imm, rs1 |-> rs1, rs2 |-> rs2, rd |-> rd, output |-> output,
     ramAddr |-> 0, ramRead |-> 0, ramWrite |-> 0,
     leftLookup |-> IF flags \cap AddSubMul = {} THEN left ELSE 0,
     rightLookup |-> CASE "AddOperands" \in flags -> left + right
                       [] "SubtractOperands" \in flags -> left - right + 2^(8 * WordBytes)
                       [] "MultiplyOperands" \in flags -> left * right
                       [] "Advice" \in flags -> output
                       [] OTHER -> right]

Access(cycle, address, read, written) ==
    [cycle EXCEPT !.ramAddr = address, !.ramRead = read, !.ramWrite = written]

NoOp == Cycle(0, 0, {"DoNotUpdateUnexpandedPC"}, {"IsNoop"}, 0, 0, 0, 0, 0, 0, 0)

\* A virtual sequence of advice, assertion and product, a compressed
\* subtraction, a jump, a store, and a jump to itself that ends the program.
TraceA ==
    << Cycle(1, 8, {"Advice", "VirtualInstruction", "IsFirstInSequence", "DoNotUpdateUnexpandedPC",
                    "WriteLookupOutputToRD"}, {}, 0, 0, 0, 0, 0, 42, 42),
       Cycle(2, 8, {"Assert", "VirtualInstruction", "DoNotUpdateUnexpandedPC"},
             {"LeftIsRs1", "RightIsRs2"}, 42, 42, 0, 42, 42, 0, 1),
       Cycle(3, 8, {"VirtualInstruction", "IsLastInSequence", "MultiplyOperands",
                    "WriteLookupOutputToRD"}, {"LeftIsRs1", "RightIsRs2"}, 6, 7, 0, 6, 7, 42, 42),
       Cycle(4, 12, {"SubtractOperands", "WriteLookupOutputToRD", "IsCompressed"},
             {"LeftIsRs1", "RightIsRs2"}, 5, 9, 0, 5, 9, 65532, 65532),
       Cycle(5, 14, {"Jump", "AddOperands"}, {"LeftIsRs1", "RightIsImm"}, 20, 10, 10, 20, 0, 18, 30),
       Access(Cycle(9, 30, {"Store"}, {}, 0, 0, 4, 60, 11, 0, 0), 64, 3, 11),
       Cycle(10, 34, {"Jump", "IsCompressed", "AddOperands"}, {"LeftIsPC", "RightIsImm"},
             34, 0, 0, 0, 0, 36, 34),
       NoOp >>

\* A loop that a branch takes once, loads, and a compressed virtual sequence.
TraceB ==
    << Access(Cycle(1, 8, {"Load"}, {}, 0, 0, 2, 50, 0, 17, 0), 52, 17, 17),
       Cycle(2, 12, {}, {"Branch", "LeftIsRs1", "RightIsRs2"}, 3, 3, -4, 3, 3, 0, 1),
       Access(Cycle(1, 8, {"Load"}, {}, 0, 0, 2, 60, 0, 23, 0), 62, 23, 23),
       Cycle(2, 12, {}, {"Branch", "LeftIsRs1", "RightIsRs2"}, 3, 4, -4, 3, 4, 0, 0),
       Cycle(3, 16, {"VirtualInstruction", "IsFirstInSequence", "DoNotUpdateUnexpandedPC",
                     "AddOperands", "WriteLookupOutputToRD"},
             {"LeftIsRs1", "RightIsImm"}, 100, -3, -3, 100, 0, 97, 97),
       Cycle(4, 16, {"VirtualInstruction", "IsLastInSequence", "AddOperands", "IsCompressed",
                     "WriteLookupOutputToRD"}, {"LeftIsRs1", "RightIsRs2"}, 97, 40, 0, 97, 40, 137, 137),
       Cycle(5, 18, {"Jump", "AddOperands"}, {"LeftIsPC", "RightIsImm"}, 18, 0, 0, 0, 0, 22, 18),
       NoOp >>

\* The data of a proof: the trace, the points and batching challenges of the
\* earlier sumchecks, and the configuration.
\* The configuration is phase1, phase2, and the bits of the chunks.
Data(config) ==
    LET chunkBits == config[3]
        virtualBits == config[4]
        lookupBits == IF virtualBits > 8 THEN virtualBits ELSE 2 * virtualBits
    IN  [ram |-> Run.ram, registers |-> Run.registers, memory |-> InitialMemory,
         final |-> FinalMemory, layout |-> Layout, io |-> Io, program |-> Program,
         lowest |-> LowestAddress(Layout), gamma |-> 777,
         rCycle |-> <<12, 345, 67>>, rAddress |-> <<99, 1234, 5, 8000>>, rRegister |-> <<401, 9>>,
         rCycles |-> << <<12, 345, 67>>, <<5, 3, 900>>, <<7, 2, 1>>, <<31, 41, 59>> >>,
         rLookup |-> [i \in 1 .. lookupBits |-> 17 * i + 5],
         rBool |-> SubSeq(<<8, 4>>, 1, chunkBits),
         rVirtual |-> [i \in 1 .. 50 |-> SubSeq(<<3 * i, 7 * i + 1>>, 1, chunkBits)],
         phase1 |-> config[1], phase2 |-> config[2], chunkBits |-> chunkBits,
         virtualBits |-> virtualBits, lookupBits |-> lookupBits, bytecodeBits |-> 3,
         lookups |-> [j \in 1 .. 8 |->
             [LookupOutput |-> 3 * j, LeftLookupOperand |-> j, RightLookupOperand |-> 100 - j,
              LeftInstructionInput |-> 7 * j, RightInstructionInput |-> 13 - 5 * j]],
         lookupIndex |-> [j \in 1 .. 8 |-> (j * 31337) % 2^lookupBits],
         pc |-> [j \in 1 .. 8 |-> (3 * j) % 8],
         trace |-> TraceA, tauGroup |-> 77, tauHigh |-> 1500, r0 |-> 4321,
         schedule |-> "LinearOnly", zk |-> <<>>]

\* The constraints hold in every cycle of both traces, as a prover needs.
ASSUME \A trace \in {TraceA, TraceB} : \A t \in 0 .. 7 :
    LET d == [Data(<<3, 4, 1, 4>>) EXCEPT !.trace = trace]
        z == Vec(InputCount + 1, LAMBDA i : IF i = InputCount THEN 1
                                            ELSE R1csInput(d, t, At(R1csInputs, i)))
    IN  /\ \A c \in Range(R1csConstraintTable) : LcDot(c.a, z) ** LcDot(c.b, z) = 0
        /\ FirstGroupHolds(d, t)
        /\ SecondGroupHolds(d, t)

\* Read-write checking and what runs beside it: all cycle rounds in the first
\* phase (the default), some, or none; all address rounds in the second.
Phased ==
    ({"RamReadWriteChecking", "RamRafEvaluation", "OutputCheck"} \X
        {<<p, 4, 1, 4>> : p \in {0, 1, 3}}) \cup
    ({"RegistersReadWriteChecking"} \X {<<p, 2, 1, 4>> : p \in {0, 1, 3}}) \cup
    {<<"RamReadWriteChecking", <<2, 2, 1, 4>>>>, <<"RegistersReadWriteChecking", <<2, 1, 1, 4>>>>}

\* The others do not depend on the phases. Addresses in chunks of 1 and 2
\* bits; products of 4, 8 and 16 chunks.
Unphased ==
    ({"RamValCheck", "HammingBooleanity", "RegistersValEvaluation", "RamRaReduction",
      "IncReduction", "RegistersReduction", "LookupsReduction"} \X {<<3, 4, 1, 4>>}) \cup
    ({"RamRaVirtual", "Booleanity", "HammingWeightReduction"} \X {<<3, 4, c, 4>> : c \in {1, 2}}) \cup
    ({"InstructionRaVirtual"} \X {<<3, 4, 1, 4>>, <<3, 4, 2, 8>>, <<3, 4, 1, 8>>, <<3, 4, 1, 16>>})

\* Spartan on both traces; the schedule with windows of several rounds, which
\* the prover does not choose today, on a trace padded to 32 cycles.
SpartanOn(base) ==
    ({"OuterUniSkip", "OuterRemaining", "ProductUniSkip", "ProductRemainder", "InstructionInput",
      "Shift"} \X {[base EXCEPT !.trace = trace] : trace \in {TraceA, TraceB}}) \cup
    {<<"OuterRemaining",
       [base EXCEPT !.trace = TraceA \o [i \in 1 .. 24 |-> NoOp],
                    !.rCycle = <<12, 345, 67, 5, 900>>, !.schedule = "HalfSplit"]>>}

-----------------------------------------------------------------------------
(***************************************************************************)
(* Seven stages for BlindFold, small sumchecks with the shapes of the real *)
(* ones: a product and a linear combination under a uni-skip over -1, 0, 1,*)
(* a zero check of a product, reductions, batches of unequal lengths.      *)
(***************************************************************************)

H == << <<3, 5>>, <<7, 2>>, <<FieldSize - 42, 1>> >>
P == <<1, 4>>
Q1 == <<2, 7, 1, 8>>
Q2 == <<3, 1, 4, 1>>
Q3 == Times(Q1, Q2)

ZkChallenges == << <<101>>, <<55, 66>>, <<77, 88>>, <<21, 31>>, <<44>>, <<46>>, <<48>> >>
ZkAlphas == << <<71>>, <<70, 72, 73>>, <<74>>, <<75, 76>>, <<77>>, <<78>>, <<79>> >>
SkipChallenges == <<4321, 987>>
Weights == <<5, 11, 13>>
ZkGamma == 333

\* The messages of the sum of products of tables, the first variable first.
Messages(terms, degree, rs) ==
    LET bound(t, j) == LET b[i \in 0 .. j] == IF i = 0 THEN t ELSE BoundTop(b[i - 1], rs[i]) IN b[j]
        at(j, i, x) == SumOf(1, Len(terms), LAMBDA t :
            terms[t][1] ** Product(Vec(Len(terms[t][2]), LAMBDA f :
                               PairAt(bound(At(terms[t][2], f), j), i, x))))
    IN  Vec(Len(rs), LAMBDA j : FromEvals(Vec(degree + 1, LAMBDA x :
            SumOf(0, 2^(Len(rs) - 1 - j) - 1, LAMBDA i : at(j, i, x)))))

ZkInstance(terms, degree, rs, start, input, inputValues, output, outputValues, cached) ==
    [rounds |-> Len(rs), claim |-> start, messages |-> Messages(terms, degree, rs),
     input |-> input, inputValues |-> inputValues, output |-> <<output>>,
     outputValues |-> outputValues, openings |-> cached]

\* A claim on a table at an old point becomes one at the new point.
Reduction(id, table, from, rs, newId) ==
    ZkInstance(<< <<1, <<Evals(from), table>> >> >>, 2, rs, Evaluate(table, from), Direct(id), <<>>,
               OneProduct(<<Challenge(0), Opening(newId)>>), <<EqMle(from, rs)>>,
               << <<newId, Evaluate(table, rs)>> >>)

ThreeOf(entry(_)) == Vec(3, LAMBDA i : entry(i + 1))
HNames == <<"h0", "h1", "h2">>
Skip(values, start, input, inputValues, id, r0) ==
    LET coeffs == InterpolateCoeffs(values)
    IN  [rounds |-> 1, claim |-> start, messages |-> <<coeffs>>, input |-> input,
         inputValues |-> inputValues, openings |-> << <<id, Eval(coeffs, r0)>> >>]

SkipOne ==
    Skip(ThreeOf(LAMBDA i : Dot(H[i], P)), 0, NoConstraint, <<>>, <<"skip", 1>>, SkipChallenges[1])

SkipTwo ==
    LET ids == ThreeOf(LAMBDA i : <<HNames[i], 1>>)
        values == ThreeOf(LAMBDA i : Weights[i] ** Evaluate(H[i], ZkChallenges[1]))
    IN  Skip(values, Sum(values), AllWeightedOpenings(ids), Weights, <<"skip", 2>>, SkipChallenges[2])

StageOne ==
    LET l == LagrangeEvals(3, SkipChallenges[1])
        rs == ZkChallenges[1]
    IN  ZkInstance(ThreeOf(LAMBDA i : <<l[i], <<H[i], P>> >>), 2, rs, SkipOne.openings[1][2],
                   Direct(<<"skip", 1>>), <<>>,
                   SumOfProducts(ThreeOf(LAMBDA i :
                       ProductTerm(Challenge(i - 1), <<Opening(<<HNames[i], 1>>), Opening(<<"P", 1>>)>>))), l,
                   ThreeOf(LAMBDA i : << <<HNames[i], 1>>, Evaluate(H[i], rs)>>)
                       \o << << <<"P", 1>>, Evaluate(P, rs)>> >>)

\* One round and two rounds in a batch; the last has no input constraint, as
\* the output check of stage 2.
StageTwoScaled ==
    LET from == ZkChallenges[1]
        rs == Drop(ZkChallenges[2], 1)
    IN  ZkInstance(<< <<ZkGamma, <<Evals(from), P>> >> >>, 2, rs, ZkGamma ** Evaluate(P, from),
                   AllWeightedOpenings(<< <<"P", 1>> >>), <<ZkGamma>>,
                   OneProduct(<<Challenge(0), Opening(<<"P", 2>>)>>), <<ZkGamma ** EqMle(from, rs)>>,
                   << << <<"P", 2>>, Evaluate(P, rs)>> >>)

StageTwoLinear ==
    LET l == LagrangeEvals(3, SkipChallenges[2])
        from == ZkChallenges[1]
        rs == Drop(ZkChallenges[2], 1)
        scaled == ThreeOf(LAMBDA i : l[i] ** Weights[i])
    IN  ZkInstance(ThreeOf(LAMBDA i : <<scaled[i], <<Evals(from), H[i]>> >>), 2, rs,
                   SkipTwo.openings[1][2], Direct(<<"skip", 2>>), <<>>,
                   ScaledLinear(Challenge(0), ThreeOf(LAMBDA i : <<Challenge(i), Opening(<<HNames[i], 2>>)>>)),
                   <<EqMle(from, rs)>> \o scaled,
                   ThreeOf(LAMBDA i : << <<HNames[i], 2>>, Evaluate(H[i], rs)>>))

StageTwoZero ==
    LET tau == <<9, 14>>
        rs == ZkChallenges[2]
        eq == EqMle(tau, rs)
        id(n) == <<n, 2>>
    IN  ZkInstance(<< <<1, <<Evals(tau), Q1, Q2>> >>, <<FieldSize - 1, <<Evals(tau), Q3>> >> >>, 3, rs, 0,
                   NoConstraint, <<>>,
                   SumOfProducts(<<ProductTerm(Challenge(0), <<Opening(id("Q1")), Opening(id("Q2"))>>),
                                   ProductTerm(Challenge(1), <<Opening(id("Q3"))>>)>>),
                   <<eq, 0 -- eq>>,
                   << <<id("Q1"), Evaluate(Q1, rs)>>, <<id("Q2"), Evaluate(Q2, rs)>>,
                      <<id("Q3"), Evaluate(Q3, rs)>> >>)

StageThree ==
    LET from == ZkChallenges[2]
        rs == ZkChallenges[3]
    IN  ZkInstance(<< <<1, <<Evals(from), Q1>> >>, <<ZkGamma, <<Evals(from), Q2>> >> >>, 2, rs,
                   Evaluate(Q1, from) ++ ZkGamma ** Evaluate(Q2, from),
                   WeightedOpenings(<< <<"Q1", 2>>, <<"Q2", 2>> >>), <<ZkGamma>>,
                   ScaledLinear(Challenge(0), << <<Const(1), Opening(<<"Q1", 3>>)>>,
                                                 <<Challenge(1), Opening(<<"Q2", 3>>)>> >>),
                   <<EqMle(from, rs), ZkGamma>>,
                   << << <<"Q1", 3>>, Evaluate(Q1, rs)>>, << <<"Q2", 3>>, Evaluate(Q2, rs)>> >>)

StageFour ==
    LET c == ZkChallenges
    IN  <<Reduction(<<"Q3", 2>>, Q3, c[2], c[4], <<"Q3", 4>>),
          Reduction(<<"h0", 2>>, H[1], Drop(c[2], 1), Drop(c[4], 1), <<"h0", 4>>)>>

StageFive == Reduction(<<"h1", 2>>, H[2], Drop(ZkChallenges[2], 1), ZkChallenges[5], <<"h1", 5>>)
StageSix == Reduction(<<"h2", 2>>, H[3], Drop(ZkChallenges[2], 1), ZkChallenges[6], <<"h2", 6>>)
StageSeven == Reduction(<<"P", 2>>, P, Drop(ZkChallenges[2], 1), ZkChallenges[7], <<"P", 7>>)

ZkBatches ==
    << <<StageOne>>, <<StageTwoScaled, StageTwoLinear, StageTwoZero>>, <<StageThree>>, StageFour,
       <<StageFive>>, <<StageSix>>, <<StageSeven>> >>

\* The accumulator after the last stage.
CachedBy(skips, batches) ==
    Joined(Vec(2, LAMBDA k : skips[k + 1].openings)) \o
    Joined(Vec(7, LAMBDA k : Joined(Vec(Len(batches[k + 1]), LAMBDA i :
                                 batches[k + 1][i + 1].openings))))

OpeningsOf(cached) ==
    [id \in {c[1] : c \in Range(cached)} |-> (CHOOSE c \in Range(cached) : c[1] = id)[2]]

JointIds == << <<"h0", 4>>, <<"Q3", 4>>, <<"Q1", 3>> >>
JointCoeffs == <<1001, 1002, 1003>>

ZkData(skips, batches, values) ==
    [stages |-> batches, skips |-> skips, challenges |-> ZkChallenges,
     alphas |-> ZkAlphas, skipChallenges |-> SkipChallenges, domains |-> <<3, 3>>,
     openings |-> values,
     joint |-> [ids |-> JointIds, coeffs |-> JointCoeffs, blinding |-> 222,
                claim |-> SumOf(1, 3, LAMBDA i : JointCoeffs[i] ** values[JointIds[i]])],
     ch |-> [seed |-> 123, r |-> 2024, tau |-> Vec(7, LAMBDA i : 13 * i + 400),
             rx |-> Vec(7, LAMBDA i : 17 * i + 3000), abc |-> <<61, 62, 63>>,
             ry |-> Vec(8, LAMBDA i : 19 * i + 5000)]]

\* prove_blindfold step by step.
ProveBlindFold(zk, proofs, p) ==
    Of(ProverR1cs(p), LAMBDA r1cs :
    Of(ProverZ(p, r1cs), LAMBDA z :
    Of(ProverPair(p, r1cs, z), LAMBDA real :
    Of(FoldedPair(r1cs, real, z, zk.ch), LAMBDA folded :
        ZkSystem(zk, proofs, r1cs, z, real, folded)))))

BlindFolded ==
    Of(<<SkipOne, SkipTwo>>, LAMBDA skips :
    Of(ZkBatches, LAMBDA batches :
    Of(ZkData(skips, batches, OpeningsOf(CachedBy(skips, batches))), LAMBDA zk :
    Of(ZkProofs(zk), LAMBDA proofs : ProveBlindFold(zk, proofs, ProverData(zk, proofs))))))

InstancesOn(base) ==
    SpartanOn(base) \cup
    ({"BlindFoldSpartan", "BlindFoldInner"} \X {[base EXCEPT !.zk = BlindFolded]})

MCInstances ==
    {<<i[1], Data(i[2])>> : i \in Phased \cup Unphased} \cup InstancesOn(Data(<<3, 4, 1, 4>>))

\* The sumchecks of BlindFold have seven and eight rounds: one choice in each.
MCChallenges(k) == IF BlindFolds(k) THEN {31000} ELSE {9, 31000}

=============================================================================
