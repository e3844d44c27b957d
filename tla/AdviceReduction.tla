--------------------------- MODULE AdviceReduction ---------------------------
(***************************************************************************)
(* claim_reductions/advice.rs: the claim on an advice polynomial at the    *)
(* address of the RAM check becomes a claim at coordinates of the one      *)
(* point all commitments are opened at.  An advice polynomial is committed *)
(* in a small matrix that is taken for the top left block of the main one. *)
(* Its variables are therefore some of the main matrix's variables: some   *)
(* are cycle variables, bound in stage 6 in the rounds that bind them for  *)
(* the others (other rounds are dummies), the rest are address variables,  *)
(* bound in stage 7.  Which is which depends on the layout.                *)
(*                                                                         *)
(* What a reduction keeps from stage 6 to stage 7 is the record            *)
(*   layout       the layout its schedule was computed with                *)
(*   order        the order its prover's variables are bound in            *)
(*   challenges   cycle_var_challenges                                     *)
(***************************************************************************)
EXTENDS StageSumchecks

-----------------------------------------------------------------------------
(***************************************************************************)
(* The Dory parameters of poly/commitment/dory/dory_globals.rs, as         *)
(* operators on the state of one thread: the matrix shape of each context, *)
(* the current context, and the layout of the main matrix.  Sizes are      *)
(* logarithms.  Every call of the provers and verifiers that asks for the  *)
(* shape or the layout gets that of the thread it happens to run on.       *)
(***************************************************************************)

Layouts == {"CycleMajor", "AddressMajor"}
Contexts == {"Main", "trusted", "untrusted"}

\* DoryThreadState::new: shapes are entered by initialize_context.
NewThread == [shape |-> [x \in {} |-> x], context |-> "Main", layout |-> "CycleMajor"]

\* balanced_sigma_nu: the column and row variables of a matrix.
Sigma(vars) == (vars + 1) \div 2
Nu(vars) == vars - Sigma(vars)

\* calculate_dimensions.
Dimensions(log_K, log_T) ==
    [T |-> log_T, columns |-> Sigma(log_K + log_T), rows |-> Nu(log_K + log_T)]

\* initialize_context: the layout is entered for the main context alone, and
\* "unchanged" stands for None.
InitializeContext(thread, log_K, log_T, context, layout) ==
    LET shape == [x \in DOMAIN thread.shape \cup {context} |->
                     IF x = context THEN Dimensions(log_K, log_T) ELSE thread.shape[x]]
    IN  IF context = "Main"
        THEN [shape |-> shape, context |-> "Main",
              layout |-> IF layout = "unchanged" THEN thread.layout ELSE layout]
        ELSE [thread EXCEPT !.shape = shape]

\* with_context, and the drop of its guard.
WithContext(thread, context) == [thread EXCEPT !.context = context]
Dropped(thread, previous) == [thread EXCEPT !.context = previous]

\* matrix_shape and get_T, which panic in a context nobody has initialized.
Initialized(thread) == thread.context \in DOMAIN thread.shape
Shape(thread) == thread.shape[thread.context]

\* A point of the proof, [address, cycle], in the order of the matrix's variables:
\* reorder_opening_point_for_layout.
MatrixOrder(thread, address, cycle) ==
    IF thread.layout = "AddressMajor" THEN cycle \o address ELSE address \o cycle

-----------------------------------------------------------------------------
(* The reduction. *)

CONSTANT SequentialSortVars   \* longer advice is sorted on the thread pool (rayon)

AdviceCols(c, kind) == Sigma(AdviceVars(c, kind))
AdviceRows(c, kind) == Nu(AdviceVars(c, kind))
MainCols(c) == Sigma(LogKChunk + c.log_T)

SaturatingSub(a, b) == Max({0, a - b})

\* A mutant: the advice's rows follow its columns.
RowRoundsAdjacent(c, kind, layout) ==
    LET first == IF layout = "CycleMajor" THEN AdviceCols(c, kind)
                 ELSE SaturatingSub(AdviceCols(c, kind), LogKChunk)
    IN  Min({c.log_T, first}) + 1 .. Min({c.log_T, first + AdviceRows(c, kind)})

\* cycle_phase_round_schedule: the rounds, from 1, that bind column variables
\* and those that bind row variables.
ColRounds(c, kind, layout) ==
    1 .. IF layout = "CycleMajor" THEN Min({c.log_T, AdviceCols(c, kind)})
         ELSE SaturatingSub(AdviceCols(c, kind), LogKChunk)
RowRounds(c, kind, layout) ==
    LET first == IF layout = "CycleMajor" THEN MainCols(c)
                 ELSE SaturatingSub(MainCols(c), LogKChunk)
    IN  Min({c.log_T, first}) + 1 .. Min({c.log_T, first + AdviceRows(c, kind)})

ActiveRounds(c, kind, layout) == ColRounds(c, kind, layout) \cup RowRounds(c, kind, layout)

\* num_rounds and num_address_phase_rounds.
CyclePhaseRounds(c, kind, layout) ==
    IF ActiveRounds(c, kind, layout) = {} THEN 0 ELSE Max(ActiveRounds(c, kind, layout))
AddressPhaseRounds(c, kind, layout) ==
    AdviceVars(c, kind)
      - (Cardinality(ColRounds(c, kind, layout)) + Cardinality(RowRounds(c, kind, layout)))
DummyRounds(c, kind, layout) ==
    (1 .. CyclePhaseRounds(c, kind, layout)) \ ActiveRounds(c, kind, layout)

\* AdviceClaimReductionProver::initialize sorts the coefficients by the address
\* and cycle of their places in the main matrix: bits of an index that are cycle
\* variables come first, lowest first, then those that are address variables.
MatrixBit(c, kind, bit) ==
    IF bit < AdviceCols(c, kind) THEN bit ELSE MainCols(c) + bit - AdviceCols(c, kind)
IsCycleBit(c, kind, layout, bit) ==
    IF layout = "CycleMajor" THEN MatrixBit(c, kind, bit) < c.log_T
    ELSE MatrixBit(c, kind, bit) >= LogKChunk
SortedOrder(c, kind, layout) ==
    LET bits == 0 .. AdviceVars(c, kind) - 1
        cycle(bit) == IsCycleBit(c, kind, layout, bit)
        before(a, b) == IF cycle(a) = cycle(b) THEN a < b ELSE cycle(a)
        place(bit) == Cardinality({a \in bits : before(a, bit)})
    IN  [j \in 1 .. AdviceVars(c, kind) |->
            AdviceVars(c, kind) - CHOOSE bit \in bits : place(bit) = j - 1]

\* The comparison asks the thread it runs on for the layout: for long advice that
\* is a thread of the pool, where nobody has entered one.
SortLayout(c, kind, layout) ==
    IF AdviceVars(c, kind) > SequentialSortVars THEN NewThread.layout ELSE layout

\* AdviceClaimReductionParams::new, with the prover's order.
AdviceParams(c, kind, layout) ==
    [layout |-> layout, order |-> SortedOrder(c, kind, SortLayout(c, kind, layout)),
     challenges |-> <<>>]

----------------------------------------------------------------------------

AdviceAt(kind, sumcheck) == At(Advice(kind), sumcheck)
CMid(kind) == AdviceAt(kind, "AdviceClaimReductionCyclePhase")
AdviceFinal(kind) == AdviceAt(kind, "AdviceClaimReduction")

\* The challenges of the column rounds, then of the row rounds.
CycleVarChallenges(c, kind, layout, r) ==
    Without(r, DOMAIN r \ ActiveRounds(c, kind, layout))

\* Stage 6.  The sum that is left (c_mid) goes to stage 7 by way of the
\* accumulator, without a point.  An advice polynomial that is bound by then is
\* opened: the prover looks at what is left of the polynomial, the verifier at
\* the schedule.
CyclePhaseProver(c, kind, params, r) ==
    LET bound == CycleVarChallenges(c, kind, params.layout, r)
    IN  << [key |-> CMid(kind), point |-> <<>>, claim |-> <<Advice(kind), bound>>] >>
        \o IF Len(bound) < AdviceVars(c, kind) THEN <<>>
           ELSE <<Opened(AdviceFinal(kind), Reverse(bound), Bound(params.order, bound))>>
CyclePhaseVerifier(c, kind, params, r) ==
    << Expect(CMid(kind), <<>>) >>
    \o IF AddressPhaseRounds(c, kind, params.layout) > 0 THEN <<>>
       ELSE <<Expect(AdviceFinal(kind), Reverse(CycleVarChallenges(c, kind, params.layout, r)))>>
CyclePhase(acc, c, kind, params) ==
    LET dummies == DummyRounds(c, kind, params.layout)
        rounds == CyclePhaseRounds(c, kind, params.layout)
        use == AdviceAt(kind, "RamValCheck")
    IN  [Instance(rounds, {Use(use, PointOf(acc, use))},
                  LAMBDA r : CyclePhaseProver(c, kind, params, r),
                  LAMBDA r : CyclePhaseVerifier(c, kind, params, r))
         EXCEPT !.offset = [max \in Nat |-> (max - (LogKChunk + c.log_T)) + LogKChunk],
                !.dummies = dummies,
                !.scale = [j \in Nat |-> SaturatingSub(c.log_T, rounds)
                                           - Cardinality({i \in dummies : i < j})],
                !.final = - Cardinality(dummies)]

\* A mutant: the address variables are taken for the highest in both layouts.
AddressPhasePointCycleMajor(layout, challenges, r) == Reverse(challenges \o r)

\* Stage 7, when address variables are left.  normalize_opening_point asks for
\* the layout again.
AddressPhasePoint(layout, challenges, r) ==
    Reverse(IF layout = "CycleMajor" THEN challenges \o r ELSE r \o challenges)
AddressPhaseProver(kind, params, layout, r) ==
    << Opened(AdviceFinal(kind), AddressPhasePoint(layout, params.challenges, r),
              Bound(params.order, params.challenges \o r)) >>
AddressPhaseVerifier(kind, params, layout, r) ==
    << Expect(AdviceFinal(kind), AddressPhasePoint(layout, params.challenges, r)) >>

\* The gap the verifier's expected claim accounts for.
GapLength(c, kind, layout) ==
    LET cols == ColRounds(c, kind, layout)
        rows == RowRounds(c, kind, layout)
    IN  IF cols = {} \/ rows = {} THEN 0 ELSE Min(rows) - Max(cols) - 1

AddressPhase(acc, c, kind, params, layout) ==
    LET dummies == Cardinality(DummyRounds(c, kind, params.layout))
        rounds == AddressPhaseRounds(c, kind, params.layout)
    IN  [Instance(rounds, {Use(CMid(kind), <<>>)},
                  LAMBDA r : AddressPhaseProver(kind, params, layout, r),
                  LAMBDA r : AddressPhaseVerifier(kind, params, layout, r))
         EXCEPT !.offset = [max \in Nat |-> 0],
                !.pre = - dummies,
                !.scale = [j \in Nat |-> SaturatingSub(LogKChunk, rounds) - dummies],
                !.final = - GapLength(c, kind, params.layout)]

=============================================================================
