--------------------------- MODULE SpartanProvers ---------------------------
(***************************************************************************)
(* The sumchecks of Spartan (zkvm/spartan): the outer sumcheck and the     *)
(* products of virtual polynomials, each with a univariate skip before its *)
(* remaining rounds, the instruction inputs and the shift by one cycle.    *)
(***************************************************************************)
EXTENDS OneHotSumchecks

-----------------------------------------------------------------------------
(***************************************************************************)
(* The uniform R1CS (zkvm/r1cs): what a cycle of the trace gives each      *)
(* input, the table of constraints, and the evaluation of its two groups   *)
(* at a point of the univariate skip: from the table, as the verifier      *)
(* does, and by formulas written out a second time for the prover.         *)
(***************************************************************************)

\* JoltR1CSInput, in the order of to_index.
CircuitFlagInputs ==
    <<"AddOperands", "SubtractOperands", "MultiplyOperands", "Load", "Store", "Jump",
      "WriteLookupOutputToRD", "VirtualInstruction", "Assert", "DoNotUpdateUnexpandedPC", "Advice",
      "IsCompressed", "IsFirstInSequence", "IsLastInSequence">>

R1csInputs ==
    <<"LeftInstructionInput", "RightInstructionInput", "Product", "ShouldBranch", "PC",
      "UnexpandedPC", "Imm", "RamAddress", "Rs1Value", "Rs2Value", "RdWriteValue", "RamReadValue",
      "RamWriteValue", "LeftLookupOperand", "RightLookupOperand", "NextUnexpandedPC", "NextPC",
      "NextIsVirtual", "NextIsFirstInSequence", "LookupOutput", "ShouldJump">> \o CircuitFlagInputs

InstructionFlags == {"LeftIsRs1", "LeftIsPC", "RightIsRs2", "RightIsImm", "Branch", "IsNoop"}

InputCount == Len(R1csInputs)

\* The constant is the last coordinate of the vector of inputs.
Constant == "one"
IndexOf == [n \in Range(R1csInputs) \cup {Constant} |->
                IF n = Constant THEN InputCount + 1
                ELSE CHOOSE i \in DOMAIN R1csInputs : R1csInputs[i] = n]

Bit(condition) == IF condition THEN 1 ELSE 0

\* The cycle after cycle t, none for the last one.
FollowingCycle(d, t) == IF t + 1 < Len(d.trace) THEN {At(d.trace, t + 1)} ELSE {}
NextIs(d, t, flag) == \E c \in FollowingCycle(d, t) : flag \in c.flags
NextIsNoop(d, t) == \E c \in FollowingCycle(d, t) : "IsNoop" \in c.iflags

TakesBranch(c) == "Branch" \in c.iflags /\ c.output = 1

\* R1CSCycleInputs::from_trace.
R1csInput(d, t, name) ==
    LET c == At(d.trace, t)
        next(value(_)) == SumOver(FollowingCycle(d, t), value)
        value ==
            CASE name = "LeftInstructionInput" -> c.left
              [] name = "RightInstructionInput" -> c.right
              [] name = "Product" -> c.left ** c.right
              [] name = "ShouldBranch" -> Bit(TakesBranch(c))
              [] name = "PC" -> c.pc
              [] name = "UnexpandedPC" -> c.upc
              [] name = "Imm" -> c.imm
              [] name = "RamAddress" -> c.ramAddr
              [] name = "Rs1Value" -> c.rs1
              [] name = "Rs2Value" -> c.rs2
              [] name = "RdWriteValue" -> c.rd
              [] name = "RamReadValue" -> c.ramRead
              [] name = "RamWriteValue" -> c.ramWrite
              [] name = "LeftLookupOperand" -> c.leftLookup
              [] name = "RightLookupOperand" -> c.rightLookup
              [] name = "NextUnexpandedPC" -> next(LAMBDA n : n.upc)
              [] name = "NextPC" -> next(LAMBDA n : n.pc)
              [] name = "NextIsVirtual" -> Bit(NextIs(d, t, "VirtualInstruction"))
              [] name = "NextIsFirstInSequence" -> Bit(NextIs(d, t, "IsFirstInSequence"))
              [] name = "LookupOutput" -> c.output
              [] name = "ShouldJump" -> Bit("Jump" \in c.flags /\ ~NextIsNoop(d, t))
              [] OTHER -> Bit(name \in c.flags)
    IN  value % FieldSize

CycleInputs(d, t) == [n \in Range(R1csInputs) |-> R1csInput(d, t, n)]

\* ProductCycleInputs::from_trace: the last cycle has no next one to jump to.
NotNextNoop(d, t) == FollowingCycle(d, t) # {} /\ ~NextIsNoop(d, t)

\* The columns of the trace that a sumcheck of Spartan opens.
TraceColumn(d, name) ==
    Vec(Len(d.trace), LAMBDA t :
        CASE name \in InstructionFlags -> Bit(name \in At(d.trace, t).iflags)
          [] name = "NextIsNoop" -> Bit(~NotNextNoop(d, t))
          [] OTHER -> R1csInput(d, t, name))

-----------------------------------------------------------------------------
\* Linear combinations: sets of terms <<coefficient, input>>.

Term(name) == {<<1, name>>}
Terms(names) == {<<1, n>> : n \in names}
Number(c) == IF c = 0 THEN {} ELSE {<<c, Constant>>}
Negated(lc) == {<<-t[1], t[2]>> : t \in lc}
OneMinus(names) == Number(1) \cup Negated(Terms(names))

\* constraint_eq_conditional_lc: condition * (left - right) = 0.
EqConditional(label, condition, left, right) ==
    [label |-> label, a |-> condition, b |-> left \cup Negated(right)]

AddSubMul == {"AddOperands", "SubtractOperands", "MultiplyOperands"}

\* R1CS_CONSTRAINTS.
R1csConstraintTable ==
    << EqConditional("RamAddrEqRs1PlusImmIfLoadStore", Terms({"Load", "Store"}),
                     Term("RamAddress"), Terms({"Rs1Value", "Imm"})),
       EqConditional("RamAddrEqZeroIfNotLoadStore", OneMinus({"Load", "Store"}),
                     Term("RamAddress"), Number(0)),
       EqConditional("RamReadEqRamWriteIfLoad", Term("Load"),
                     Term("RamReadValue"), Term("RamWriteValue")),
       EqConditional("RamReadEqRdWriteIfLoad", Term("Load"),
                     Term("RamReadValue"), Term("RdWriteValue")),
       EqConditional("Rs2EqRamWriteIfStore", Term("Store"),
                     Term("Rs2Value"), Term("RamWriteValue")),
       EqConditional("LeftLookupZeroUnlessAddSubMul", Terms(AddSubMul),
                     Term("LeftLookupOperand"), Number(0)),
       EqConditional("LeftLookupEqLeftInputOtherwise", OneMinus(AddSubMul),
                     Term("LeftLookupOperand"), Term("LeftInstructionInput")),
       EqConditional("RightLookupAdd", Term("AddOperands"), Term("RightLookupOperand"),
                     Terms({"LeftInstructionInput", "RightInstructionInput"})),
       EqConditional("RightLookupSub", Term("SubtractOperands"), Term("RightLookupOperand"),
                     Term("LeftInstructionInput") \cup Negated(Term("RightInstructionInput"))
                     \cup Number(TwoTo[8 * WordBytes])),
       EqConditional("RightLookupEqProductIfMul", Term("MultiplyOperands"),
                     Term("RightLookupOperand"), Term("Product")),
       EqConditional("RightLookupEqRightInputOtherwise", OneMinus(AddSubMul \cup {"Advice"}),
                     Term("RightLookupOperand"), Term("RightInstructionInput")),
       EqConditional("AssertLookupOne", Term("Assert"), Term("LookupOutput"), Number(1)),
       EqConditional("RdWriteEqLookupIfWriteLookupToRd", Term("WriteLookupOutputToRD"),
                     Term("RdWriteValue"), Term("LookupOutput")),
       EqConditional("RdWriteEqPCPlusConstIfWritePCtoRD", Term("Jump"), Term("RdWriteValue"),
                     Term("UnexpandedPC") \cup Number(4) \cup {<<-2, "IsCompressed">>}),
       EqConditional("NextUnexpPCEqLookupIfShouldJump", Term("ShouldJump"),
                     Term("NextUnexpandedPC"), Term("LookupOutput")),
       EqConditional("NextUnexpPCEqPCPlusImmIfShouldBranch", Term("ShouldBranch"),
                     Term("NextUnexpandedPC"), Terms({"UnexpandedPC", "Imm"})),
       EqConditional("NextUnexpPCUpdateOtherwise", OneMinus({"ShouldBranch", "Jump"}),
                     Term("NextUnexpandedPC"),
                     Term("UnexpandedPC") \cup Number(4)
                     \cup {<<-4, "DoNotUpdateUnexpandedPC">>, <<-2, "IsCompressed">>}),
       EqConditional("NextPCEqPCPlusOneIfInline",
                     Term("VirtualInstruction") \cup Negated(Term("IsLastInSequence")),
                     Term("NextPC"), Term("PC") \cup Number(1)),
       EqConditional("MustStartSequenceFromBeginning",
                     Term("NextIsVirtual") \cup Negated(Term("NextIsFirstInSequence")),
                     Number(1), Term("DoNotUpdateUnexpandedPC")) >>

\* R1CS_CONSTRAINTS_FIRST_GROUP_LABELS: the two groups keep the table's order.
FirstGroupLabels ==
    {"RamAddrEqZeroIfNotLoadStore", "RamReadEqRamWriteIfLoad", "RamReadEqRdWriteIfLoad",
     "Rs2EqRamWriteIfStore", "LeftLookupZeroUnlessAddSubMul", "LeftLookupEqLeftInputOtherwise",
     "AssertLookupOne", "NextUnexpPCEqLookupIfShouldJump", "NextPCEqPCPlusOneIfInline",
     "MustStartSequenceFromBeginning"}

FirstGroup == SelectSeq(R1csConstraintTable, LAMBDA c : c.label \in FirstGroupLabels)
SecondGroup == SelectSeq(R1csConstraintTable, LAMBDA c : c.label \notin FirstGroupLabels)

DomainSize == Len(FirstGroup)

\* LC::dot_product.
LcDot(lc, z) == SumOver(lc, LAMBDA t : t[1] ** z[IndexOf[t[2]]])

\* UniformSpartanKey::evaluate_inner_sum_product_at_point.
InnerSumProduct(w, rStream, op) ==
    LET z == Vec(InputCount + 1, LAMBDA i : IF i = InputCount THEN 1 ELSE op[At(R1csInputs, i)])
        a(group) == SumOf(1, Len(group), LAMBDA i : w[i] ** LcDot(group[i].a, z))
        b(group) == SumOf(1, Len(group), LAMBDA i : w[i] ** LcDot(group[i].b, z))
    IN  Line(a(FirstGroup), a(SecondGroup), rStream) ** Line(b(FirstGroup), b(SecondGroup), rStream)

-----------------------------------------------------------------------------
(***************************************************************************)
(* evaluation.rs: both sides of the constraints of a group at one cycle,   *)
(* written out with integers and booleans.                                 *)
(***************************************************************************)

EvalAzFirst(v) ==
    LET on(n) == v[n] = 1
        arithmetic == \E n \in AddSubMul : on(n)
    IN  << ~(on("Load") \/ on("Store")), on("Load"), on("Load"), on("Store"),
           arithmetic, ~arithmetic, on("Assert"), on("ShouldJump"),
           on("VirtualInstruction") /\ ~on("IsLastInSequence"),
           on("NextIsVirtual") /\ ~on("NextIsFirstInSequence") >>

EvalBzFirst(v) ==
    << v["RamAddress"], v["RamReadValue"] -- v["RamWriteValue"],
       v["RamReadValue"] -- v["RdWriteValue"], v["Rs2Value"] -- v["RamWriteValue"],
       v["LeftLookupOperand"], v["LeftLookupOperand"] -- v["LeftInstructionInput"],
       v["LookupOutput"] -- 1, v["NextUnexpandedPC"] -- v["LookupOutput"],
       v["NextPC"] -- (v["PC"] + 1), 1 -- v["DoNotUpdateUnexpandedPC"] >>

EvalAzSecond(v) ==
    LET on(n) == v[n] = 1
    IN  << on("Load") \/ on("Store"), on("AddOperands"), on("SubtractOperands"),
           on("MultiplyOperands"), ~\E n \in AddSubMul \cup {"Advice"} : on(n),
           on("WriteLookupOutputToRD"), on("Jump"), on("ShouldBranch"),
           ~on("Jump") /\ ~on("ShouldBranch") >>

EvalBzSecond(v) ==
    LET left == v["LeftInstructionInput"]
        right == v["RightInstructionInput"]
        operand == v["RightLookupOperand"]
        compressed == 2 * v["IsCompressed"]
    IN  << v["RamAddress"] -- (v["Rs1Value"] + v["Imm"]), operand -- (left + right),
           operand -- (left - right + TwoTo[8 * WordBytes]), operand -- v["Product"],
           operand -- right, v["RdWriteValue"] -- v["LookupOutput"],
           v["RdWriteValue"] -- (v["UnexpandedPC"] + 4 - compressed),
           v["NextUnexpandedPC"] -- (v["UnexpandedPC"] + v["Imm"]),
           v["NextUnexpandedPC"]
               -- (v["UnexpandedPC"] + 4 - 4 * v["DoNotUpdateUnexpandedPC"] - compressed) >>

\* fmadd_at_r of the guards, which are 0 or 1.
GuardSum(az, w) == SumOf(1, Len(az), LAMBDA i : IF az[i] THEN w[i] ELSE 0)

\* az_at_r, bz_at_r and fmadd_at_r of a group.
FirstGroupAtR(d, t, w) ==
    LET v == CycleInputs(d, t)
    IN  [az |-> GuardSum(EvalAzFirst(v), w), bz |-> Dot(EvalBzFirst(v), w)]

SecondGroupAtR(d, t, w) ==
    LET v == CycleInputs(d, t)
    IN  [az |-> GuardSum(EvalAzSecond(v), w), bz |-> Dot(EvalBzSecond(v), w)]

\* Rows 2t and 2t + 1 of the two sides are the groups of cycle t.
GroupAtR(d, row, w) ==
    IF row % 2 = 0 THEN FirstGroupAtR(d, row \div 2, w) ELSE SecondGroupAtR(d, row \div 2, w)

AzAtR(d, row, w) == GroupAtR(d, row, w).az
BzAtR(d, row, w) == GroupAtR(d, row, w).bz

\* extended_azbz_product of a group: a constraint whose guard is true has
\* nothing on the other side.
ExtendedProduct(az, bz, coeffs) ==
    GuardSum(az, coeffs)
    ** SumOf(1, Len(az), LAMBDA i : IF az[i] THEN 0 ELSE coeffs[i] ** bz[i])

ExtendedFirst(d, t, coeffs) ==
    LET v == CycleInputs(d, t) IN ExtendedProduct(EvalAzFirst(v), EvalBzFirst(v), coeffs)

ExtendedSecond(d, t, coeffs) ==
    LET v == CycleInputs(d, t) IN ExtendedProduct(EvalAzSecond(v), EvalBzSecond(v), coeffs)

\* assert_constraints of both groups.
FirstGroupHolds(d, t) ==
    LET v == CycleInputs(d, t)
    IN  \A i \in DOMAIN EvalAzFirst(v) : EvalAzFirst(v)[i] => EvalBzFirst(v)[i] = 0

SecondGroupHolds(d, t) ==
    LET v == CycleInputs(d, t)
    IN  \A i \in DOMAIN EvalAzSecond(v) : EvalAzSecond(v)[i] => EvalBzSecond(v)[i] = 0

\* compute_claimed_inputs, and the sums over the trace of the other sumchecks:
\* with eq split in two tables.
SplitEqSum(r, values) ==
    LET m == Len(r) \div 2
        outer == Evals(Take(r, m))
        inner == Evals(Drop(r, m))
    IN  SumOf(0, Len(outer) - 1, LAMBDA x :
            At(outer, x) ** SumOf(0, Len(inner) - 1, LAMBDA y :
                At(inner, y) ** At(values, x * Len(inner) + y)))

ClaimedInputs(d, r) ==
    [n \in Range(R1csInputs) |-> SplitEqSum(r, TraceColumn(d, n))]

\* The coefficients of the values on the base window at a node outside it.
SkipCoeffs(n, target) ==
    LET coeffs == ShiftCoeffs(n, target - DomainStart(n))
    IN  Vec(n, LAMBDA i : At(coeffs, i) % FieldSize)

-----------------------------------------------------------------------------
(* The provers. *)

\* outer.rs.  The last variable of tau is that of the univariate skip, the one
\* before it chooses the group of constraints.
OuterTauLow(d) == Append(d.rCycle, d.tauGroup)
OuterTau(d) == Append(OuterTauLow(d), d.tauHigh)
OuterDegree == DomainSize - 1

\* OuterUniSkipProver::initialize, compute_univariate_skip_extended_evals.
OuterSkipInitialize(d) ==
    LET eq == GruenNew(OuterTau(d), LowToHigh, 1)
        targets == UniskipTargets(DomainSize, OuterDegree)
        coeffs == Vec(OuterDegree, LAMBDA i : SkipCoeffs(DomainSize, At(targets, i)))
        product(row, c) == IF row % 2 = 0 THEN ExtendedFirst(d, row \div 2, c)
                           ELSE ExtendedSecond(d, row \div 2, c)
    IN  [extended |-> Vec(OuterDegree, LAMBDA i :
                          FoldOutIn(eq, LAMBDA row : product(row, At(coeffs, i))))]

\* The base window is zero: the constraints hold.
OuterSkipMessage(d, st) ==
    BuildUniskipPoly(DomainSize, OuterDegree, Zeros(DomainSize), st.extended, d.tauHigh)

OuterSkipClaims(d, st, challenges) ==
    [UnivariateSkip |-> Eval(OuterSkipMessage(d, st), challenges[1])]

-----------------------------------------------------------------------------
\* HalfSplitSchedule: windows about 1.71 times as wide as the rounds before
\* them up to the middle, then single rounds; LinearOnlySchedule.
WindowWidth(round) == Larger(1, (17095 * round + 5000) \div 10000)

HalfSplitStarts(rounds) ==
    LET half == rounds \div 2
        starts[r \in 0 .. rounds] ==
            IF r >= half THEN r .. (rounds - 1)
            ELSE {r} \cup starts[r + Smaller(WindowWidth(r), half - r)]
    IN  starts[0]

OuterRounds(d) == Len(d.rCycle) + 1

WindowStarts(d) ==
    IF d.schedule = "HalfSplit" THEN HalfSplitStarts(OuterRounds(d)) ELSE 0 .. (OuterRounds(d) - 1)

SwitchOver(d) == IF d.schedule = "HalfSplit" THEN OuterRounds(d) \div 2 ELSE 0

\* num_unbound_vars: up to the start of the next window.
UnboundVars(d, round) ==
    LET later == {s \in WindowStarts(d) \cup {OuterRounds(d)} : s > round}
    IN  (CHOOSE s \in later : \A o \in later : s <= o) - round

-----------------------------------------------------------------------------
\* extrapolate_from_binary_grid_to_tertiary_grid: one side, the variables of
\* the rounds so far being bound by the table of their challenges.
StreamedSide(d, rGrid, side) ==
    LET w == LagrangeEvals(DomainSize, d.r0)
        k == Len(rGrid)
    IN  Vec((2 * Len(d.trace)) \div k, LAMBDA j :
            SumOf(0, k - 1, LAMBDA i : GroupAtR(d, j * k + i, Scale(w, At(rGrid, i)))[side]))

\* compute_evaluation_grid_from_polynomials_parallel and its like: the product
\* on the grid of the window, summed over the other variables.  (A window of
\* one round leaves out the value at 1, which nobody reads.)
WindowProduct(eq, window, az, bz) ==
    LET t == WindowTables(eq, window)
        n == Len(t.inner)
        piece(v, i) == ExpandGrid(SubSeq(v, i * 2^window + 1, (i + 1) * 2^window), window)
        products == Vec(n * Len(t.outer), LAMBDA i : Times(piece(az, i), piece(bz, i)))
    IN  Vec(3^window, LAMBDA x : SumOf(0, Len(products) - 1, LAMBDA i :
            At(t.outer, i \div n) ** At(t.inner, i % n) ** At(At(products, i), x)))

\* compute_evaluation_grid_from_trace, for a window of the streaming rounds.
StreamWindow(d, st, window) ==
    [st EXCEPT !.mode = "streaming",
               !.t = WindowProduct(st.eq, window, StreamedSide(d, st.rGrid, "az"),
                                   StreamedSide(d, st.rGrid, "bz"))]

\* fused_materialise_polynomials, after streaming rounds and in round 0.
Materialised(st, window, az, bz) ==
    [st EXCEPT !.mode = "linear", !.az = az, !.bz = bz, !.t = WindowProduct(st.eq, window, az, bz)]

MaterialiseGeneral(d, st, window) ==
    Materialised(st, window, StreamedSide(d, st.rGrid, "az"), StreamedSide(d, st.rGrid, "bz"))

MaterialiseRoundZero(d, st, window) ==
    LET w == LagrangeEvals(DomainSize, d.r0)
    IN  Materialised(st, window, Vec(2 * Len(d.trace), LAMBDA row : AzAtR(d, row, w)),
                     Vec(2 * Len(d.trace), LAMBDA row : BzAtR(d, row, w)))

\* StreamingSumcheck::compute_message up to the message itself: a window opens
\* while streaming, at the switch to the linear mode, and in every round after.
OpenWindow(d, st, round) ==
    LET window == UnboundVars(d, round)
    IN  CASE round < SwitchOver(d) /\ round \notin WindowStarts(d) -> st
          [] round < SwitchOver(d) /\ round \in WindowStarts(d) -> StreamWindow(d, st, window)
          [] round = SwitchOver(d) /\ round > 0 -> MaterialiseGeneral(d, st, window)
          [] round = SwitchOver(d) /\ round = 0 -> MaterialiseRoundZero(d, st, window)
          [] round > SwitchOver(d) -> [st EXCEPT !.t = WindowProduct(st.eq, window, st.az, st.bz)]

\* OuterSharedState::new.
OuterInitialize(d) ==
    OpenWindow(d, [mode |-> "new", rGrid |-> <<1>>, az |-> <<>>, bz |-> <<>>, t |-> <<>>,
                   eq |-> GruenNew(OuterTauLow(d), LowToHigh,
                                   LagrangeKernel(DomainSize, d.r0, d.tauHigh))], 0)

\* compute_t_evals and the message.
OuterMessage(d, st, round, claim) ==
    LET active == ActiveTable(st.eq, UnboundVars(d, round))
    IN  GruenPolyDeg3(st.eq, ProjectToFirst(st.t, active, 0), ProjectToFirst(st.t, active, 2), claim)

\* ingest_challenge of both modes; the next round's window opens after it.
OuterIngest(d, st, r, round) ==
    LET bound == [st EXCEPT !.eq = GruenBind(@, r), !.t = BindFirstVariable(@, r)]
        next == IF st.mode = "streaming" THEN [bound EXCEPT !.rGrid = ExpandTable(@, r)]
                ELSE [bound EXCEPT !.az = BoundBot(@, r), !.bz = BoundBot(@, r)]
    IN  IF round + 1 = OuterRounds(d) THEN next ELSE OpenWindow(d, next, round + 1)

\* normalize_opening_point drops the variable of the group.
OuterPoint(challenges) == Rev(Drop(challenges, 1))
OuterPoints(challenges) == [n \in Range(R1csInputs) |-> OuterPoint(challenges)]
OuterClaims(d, challenges) == ClaimedInputs(d, OuterPoint(challenges))

OuterScale(d, challenges) ==
    LagrangeKernel(DomainSize, d.tauHigh, d.r0) ** EqMle(OuterTauLow(d), Rev(challenges))

OuterExpected(d, challenges, op) ==
    OuterScale(d, challenges)
    ** InnerSumProduct(LagrangeEvals(DomainSize, d.r0), challenges[1], op)

\* output_constraint_challenge_values: the coefficient of an input in the
\* weighted sum of one side of both groups, and the inputs that have one.
SideCoeff(w, rStream, name, side) ==
    LET of(c) == SumOver({t \in c[side] : t[2] = name}, LAMBDA t : t[1])
        sum(group) == SumOf(1, Len(group), LAMBDA i : w[i] ** of(group[i]))
    IN  Line(sum(FirstGroup), sum(SecondGroup), rStream)

SideInputs(side) ==
    UNION {{t[2] : t \in c[side]} : c \in Range(R1csConstraintTable)} \ {Constant}

\* output_claim_constraint: quadratic, linear and constant terms.
QuadraticForm(a, b, scale, op) ==
    LET inA == SideInputs("a")
        inB == SideInputs("b")
        quadratic == SumOver(inA \X inB, LAMBDA p :
                         scale ** a[p[1]] ** b[p[2]] ** op[p[1]] ** op[p[2]])
        linear == SumOver(inA \cup inB, LAMBDA n :
                      scale ** (a[n] ** b[Constant] ++ a[Constant] ** b[n]) ** op[n])
    IN  quadratic ++ linear ++ scale ** a[Constant] ** b[Constant]

OuterConstraint(d, challenges, op) ==
    LET w == LagrangeEvals(DomainSize, d.r0)
        coeffs(side) == [n \in DOMAIN IndexOf |-> SideCoeff(w, challenges[1], n, side)]
    IN  QuadraticForm(coeffs("a"), coeffs("b"), OuterScale(d, challenges), op)

-----------------------------------------------------------------------------
\* product.rs: three products of virtual polynomials.
ProductTau(d) == Append(d.rCycle, d.tauHigh)

ProductBases == <<"Product", "ShouldBranch", "ShouldJump">>

\* The factors of the three products at a cycle.
LeftFactors(d, t) ==
    <<R1csInput(d, t, "LeftInstructionInput"), R1csInput(d, t, "LookupOutput"),
      R1csInput(d, t, "Jump")>>

RightFactors(d, t) ==
    <<R1csInput(d, t, "RightInstructionInput"), Bit("Branch" \in At(d.trace, t).iflags),
      Bit(NotNextNoop(d, t))>>

\* ProductVirtualUniSkipParams: the claims of the outer sumcheck, interpolated.
ProductSkipInputClaim(d, op) ==
    Dot(LagrangeEvals(3, d.tauHigh), Vec(3, LAMBDA i : op[At(ProductBases, i)]))

ProductSkipInputConstraint(d, op) ==
    LET values == LagrangeEvals(3, d.tauHigh)
    IN  values[1] ** op["Product"] ++ values[2] ** op["ShouldBranch"] ++ values[3] ** op["ShouldJump"]

\* ProductVirtualUniSkipProver::initialize.
ProductSkipInitialize(d, op) ==
    LET eq == GruenNew(ProductTau(d), LowToHigh, 1)
        extended(target) ==
            LET c == SkipCoeffs(3, target)
            IN  FoldOutIn(eq, LAMBDA t : Dot(c, LeftFactors(d, t)) ** Dot(c, RightFactors(d, t)))
        targets == UniskipTargets(3, 2)
    IN  [base |-> Vec(3, LAMBDA i : op[At(ProductBases, i)]),
         extended |-> Vec(2, LAMBDA i : extended(At(targets, i)))]

ProductSkipMessage(d, st) == BuildUniskipPoly(3, 2, st.base, st.extended, d.tauHigh)

ProductSkipClaims(d, st, challenges) ==
    [UnivariateSkip |-> Eval(ProductSkipMessage(d, st), challenges[1])]

\* ProductVirtualRemainderProver::initialize: the factors, fused at r0.
ProductInitialize(d) ==
    LET w == LagrangeEvals(3, d.r0)
    IN  [eq |-> GruenNew(d.rCycle, LowToHigh, LagrangeKernel(3, d.tauHigh, d.r0)),
         left |-> Vec(Len(d.trace), LAMBDA t : Dot(w, LeftFactors(d, t))),
         right |-> Vec(Len(d.trace), LAMBDA t : Dot(w, RightFactors(d, t)))]

\* remaining_quadratic_evals: at 0 and at infinity.
ProductMessage(st, claim) ==
    LET slope(v, i) == At(v, 2 * i + 1) -- At(v, 2 * i)
    IN  GruenPolyDeg3(st.eq,
            FoldOutIn(st.eq, LAMBDA i : At(st.left, 2 * i) ** At(st.right, 2 * i)),
            FoldOutIn(st.eq, LAMBDA i : slope(st.left, i) ** slope(st.right, i)), claim)

ProductIngest(st, r) ==
    [eq |-> GruenBind(st.eq, r), left |-> BoundBot(st.left, r), right |-> BoundBot(st.right, r)]

ProductFactorNames ==
    <<"LeftInstructionInput", "RightInstructionInput", "Jump", "WriteLookupOutputToRD",
      "LookupOutput", "Branch", "NextIsNoop", "VirtualInstruction">>

ProductPoints(challenges) == [n \in Range(ProductFactorNames) |-> Rev(challenges)]

\* compute_claimed_factors.
ProductClaims(d, challenges) ==
    [n \in Range(ProductFactorNames) |->
        SplitEqSum(Rev(challenges), TraceColumn(d, n))]

ProductScale(d, challenges) ==
    LagrangeKernel(3, d.tauHigh, d.r0) ** EqMle(d.rCycle, Rev(challenges))

ProductExpected(d, challenges, op) ==
    LET left(w) == Dot(w, <<op["LeftInstructionInput"], op["LookupOutput"], op["Jump"]>>)
        right(w) == Dot(w, <<op["RightInstructionInput"], op["Branch"], 1 -- op["NextIsNoop"]>>)
        fused(w) == left(w) ** right(w)
    IN  ProductScale(d, challenges) ** fused(LagrangeEvals(3, d.r0))

\* Nine products of a left and a right factor, and the ones of NextIsNoop.
ProductConstraint(d, challenges, op) ==
    LET lefts == <<op["LeftInstructionInput"], op["LookupOutput"], op["Jump"]>>
        rights == <<op["RightInstructionInput"], op["Branch"], op["NextIsNoop"]>>
        right(w, j) == IF j = 3 THEN 0 -- w[3] ELSE w[j]
        terms(w, scale) ==
            SumOf(1, 3, LAMBDA i :
                SumOf(1, 3, LAMBDA j : scale ** w[i] ** right(w, j) ** lefts[i] ** rights[j])
                ++ scale ** w[3] ** w[i] ** lefts[i])
    IN  terms(LagrangeEvals(3, d.r0), ProductScale(d, challenges))

-----------------------------------------------------------------------------
\* instruction_input.rs: the operands, chosen by the instruction's flags.
InputColumns ==
    <<"LeftIsRs1", "Rs1Value", "LeftIsPC", "UnexpandedPC", "RightIsRs2", "Rs2Value",
      "RightIsImm", "Imm">>

InputInitialize(d) ==
    [eq |-> GruenNew(d.rCycle, LowToHigh, 1),
     columns |-> Vec(8, LAMBDA i : TraceColumn(d, At(InputColumns, i)))]

InputMessage(d, st, claim) ==
    LET operands(f(_)) ==
            (f(5) ** f(6) ++ f(7) ** f(8)) ++ d.gamma ** (f(1) ** f(2) ++ f(3) ** f(4))
        zero(k, i) == At(st.columns[k], 2 * i)
        slope(k, i) == At(st.columns[k], 2 * i + 1) -- At(st.columns[k], 2 * i)
    IN  GruenPolyDeg3(st.eq, FoldOutIn(st.eq, LAMBDA i : operands(LAMBDA k : zero(k, i))),
                      FoldOutIn(st.eq, LAMBDA i : operands(LAMBDA k : slope(k, i))), claim)

InputIngest(st, r) == [eq |-> GruenBind(st.eq, r), columns |-> BindAll(st.columns, r)]

InputOpeningPoints(challenges) == [n \in Range(InputColumns) |-> Rev(challenges)]

InputOpeningClaims(st) ==
    [n \in Range(InputColumns) |-> st.columns[CHOOSE i \in 1 .. 8 : InputColumns[i] = n][1]]

InputInputClaim(d, op) == op["RightInstructionInput"] ++ d.gamma ** op["LeftInstructionInput"]

InputExpected(d, challenges, op) ==
    LET left == op["LeftIsRs1"] ** op["Rs1Value"] ++ op["LeftIsPC"] ** op["UnexpandedPC"]
        right == op["RightIsRs2"] ** op["Rs2Value"] ++ op["RightIsImm"] ** op["Imm"]
    IN  EqMle(Rev(challenges), d.rCycle) ** (right ++ d.gamma ** left)

InputConstraint(d, challenges, op) ==
    LET eq == EqMle(Rev(challenges), d.rCycle)
        values == <<eq, eq ** d.gamma>>
    IN  values[1] ** op["RightIsRs2"] ** op["Rs2Value"] ++ values[1] ** op["RightIsImm"] ** op["Imm"]
        ++ values[2] ** op["LeftIsRs1"] ** op["Rs1Value"]
        ++ values[2] ** op["LeftIsPC"] ** op["UnexpandedPC"]

-----------------------------------------------------------------------------
\* shift.rs: claims about the next cycle become claims about the cycle, at the
\* point of the outer sumcheck and at that of the product sumcheck.
ShiftColumns == <<"UnexpandedPC", "PC", "VirtualInstruction", "IsFirstInSequence", "IsNoop">>
ShiftProduct(d) == d.rCycles[2]

\* Phase1Prover::gen: P and Q of both parts of eq + 1 at both points.
ShiftPhase1(d) ==
    LET columns == Vec(5, LAMBDA i : TraceColumn(d, At(ShiftColumns, i)))
        outer == Weighted(Take(columns, 4), Powers(d.gamma, 4))
        product == Vec(Len(d.trace), LAMBDA t : Pow(d.gamma, 4) ** (1 -- columns[5][t + 1]))
        pairs(split, v) ==
            <<[p |-> split.prefix0, q |-> SumHigh(v, split.suffix0)],
              [p |-> split.prefix1, q |-> SumHigh(v, split.suffix1)]>>
    IN  [phase |-> 1, challenges |-> <<>>,
         pairs |-> pairs(EqPlusOnePrefixSuffix(d.rCycle), outer)
                   \o pairs(EqPlusOnePrefixSuffix(ShiftProduct(d)), product)]

ShiftPhase1Message(st, claim) ==
    LET evals(i) == QuadraticEvals(st.pairs[i].p, st.pairs[i].q)
    IN  FromEvalsAndHint(claim, Vec(2, LAMBDA x : SumOf(1, 4, LAMBDA i : At(evals(i), x))))

\* Phase2Prover::gen.
ShiftPhase2(d, challenges) ==
    LET prefix == Rev(challenges)
        bound(s) ==
            LET e0 == Evaluate(s.prefix0, prefix)
                e1 == Evaluate(s.prefix1, prefix)
            IN  Vec(Len(s.suffix0), LAMBDA i : e0 ** At(s.suffix0, i) ++ e1 ** At(s.suffix1, i))
        eq == Evals(prefix)
    IN  [phase |-> 2, outer |-> bound(EqPlusOnePrefixSuffix(d.rCycle)),
         product |-> bound(EqPlusOnePrefixSuffix(ShiftProduct(d))),
         columns |-> Vec(5, LAMBDA i : SumLow(TraceColumn(d, At(ShiftColumns, i)), eq))]

ShiftPhase2Message(d, st, claim) ==
    LET evals(v, j, x) == At(SumcheckEvals(v, j, 2, LowToHigh), x)
        term(j, x) ==
            evals(st.outer, j, x)
                ** SumOf(1, 4, LAMBDA i : Pow(d.gamma, i - 1) ** evals(st.columns[i], j, x))
            ++ Pow(d.gamma, 4) ** evals(st.product, j, x) ** (1 -- evals(st.columns[5], j, x))
    IN  FromEvalsAndHint(claim, Vec(2, LAMBDA x :
            SumOf(0, Len(st.outer) \div 2 - 1, LAMBDA j : term(j, x))))

ShiftMessage(d, st, claim) ==
    IF st.phase = 1 THEN ShiftPhase1Message(st, claim) ELSE ShiftPhase2Message(d, st, claim)

\* The last challenge of phase 1 is not bound: it only enters phase 2.
ShiftIngest(d, st, r) ==
    CASE st.phase = 2 ->
             [st EXCEPT !.outer = BoundBot(@, r), !.product = BoundBot(@, r),
                        !.columns = BindAll(@, r)]
      [] st.phase = 1 /\ Len(st.pairs[1].p) = 2 -> ShiftPhase2(d, Append(st.challenges, r))
      [] OTHER ->
             [st EXCEPT !.challenges = Append(@, r),
                        !.pairs = Vec(4, LAMBDA i : [p |-> BoundBot(At(@, i).p, r),
                                                     q |-> BoundBot(At(@, i).q, r)])]

ShiftPoints(challenges) == [n \in Range(ShiftColumns) |-> Rev(challenges)]

ShiftClaims(st) ==
    [n \in Range(ShiftColumns) |-> st.columns[CHOOSE i \in 1 .. 5 : ShiftColumns[i] = n][1]]

ShiftInputPoints(d) ==
    [n \in {"NextUnexpandedPC", "NextPC", "NextIsVirtual", "NextIsFirstInSequence", "NextIsNoop"} |->
        IF n = "NextIsNoop" THEN ShiftProduct(d) ELSE d.rCycle]

ShiftInputClaim(d, op) ==
    WeightedClaims(<<op["NextUnexpandedPC"], op["NextPC"], op["NextIsVirtual"],
                     op["NextIsFirstInSequence"], 1 -- op["NextIsNoop"]>>, d.gamma)

ShiftInputConstraint(d, op) ==
    LET values == <<d.gamma, Pow(d.gamma, 2), Pow(d.gamma, 3), Pow(d.gamma, 4), 0 -- Pow(d.gamma, 4)>>
    IN  op["NextUnexpandedPC"] ++ values[1] ** op["NextPC"] ++ values[2] ** op["NextIsVirtual"]
        ++ values[3] ** op["NextIsFirstInSequence"] ++ values[4] ++ values[5] ** op["NextIsNoop"]

ShiftExpected(d, challenges, op) ==
    LET r == Rev(challenges)
    IN  EqPlusOne(d.rCycle, r)
            ** WeightedClaims([i \in 1 .. 4 |-> op[ShiftColumns[i]]], d.gamma)
        ++ EqPlusOne(ShiftProduct(d), r) ** Pow(d.gamma, 4) ** (1 -- op["IsNoop"])

ShiftConstraint(d, challenges, op) ==
    LET outer == EqPlusOne(d.rCycle, Rev(challenges))
        last == Pow(d.gamma, 4) ** EqPlusOne(ShiftProduct(d), Rev(challenges))
        values == Scale(Powers(d.gamma, 4), outer) \o <<last, 0 -- last>>
    IN  SumOf(1, 4, LAMBDA i : values[i] ** op[ShiftColumns[i]]) ++ values[5]
        ++ values[6] ** op["IsNoop"]

=============================================================================
