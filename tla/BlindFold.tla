------------------------------ MODULE BlindFold ------------------------------
(***************************************************************************)
(* BlindFold (subprotocols/blindfold): in zero-knowledge mode the messages *)
(* of the sumchecks are committed, not sent, and the verifier's checks on  *)
(* them become the constraints of an R1CS.  Prover and verifier build its  *)
(* matrices from the stages, each in its own way; the prover fills the     *)
(* witness by a walk of its own over the same layout, folds it with a      *)
(* random satisfying one and proves the result by two sumchecks and        *)
(* openings of the committed rows.                                         *)
(*                                                                         *)
(* A commitment is the vector of its scalars, the blinding last; what the  *)
(* code draws at random is given with the data, and so are the challenges  *)
(* of the transcript.                                                      *)
(***************************************************************************)
EXTENDS OneHotSumchecks

\* op of the value of x, which is evaluated once.
Of(x, op(_)) == CHOOSE y \in {op(v) : v \in {x}} : TRUE

LongDot(u, v) == LongSumOf(1, Len(u), LAMBDA i : u[i] ** v[i])

Joined(lists) ==
    LET upTo[k \in 0 .. Len(lists)] == IF k = 0 THEN <<>> ELSE upTo[k - 1] \o lists[k]
    IN  upTo[Len(lists)]

\* The list without the elements that came before.
Unique(list) ==
    LET upTo[k \in 0 .. Len(list)] ==
            IF k = 0 THEN <<>>
            ELSE IF list[k] \in Range(upTo[k - 1]) THEN upTo[k - 1]
            ELSE Append(upTo[k - 1], list[k])
    IN  upTo[Len(list)]

Position(list, x) == CHOOSE i \in DOMAIN list : list[i] = x

\* Vec::resize with zeros.
Pad(v, n) == v \o Zeros(n - Len(v))

-----------------------------------------------------------------------------
(* output_constraint.rs: a claim as a sum of products.                     *)

Opening(id) == <<"opening", id>>
Challenge(i) == <<"challenge", i>>
Const(v) == <<"constant", v>>
IsConstant(source) == source[1] \in {"challenge", "constant"}

ProductTerm(coeff, factors) == [coeff |-> coeff, factors |-> factors]

SourcesOf(terms) ==
    Joined(Vec(Len(terms), LAMBDA i : <<At(terms, i).coeff>> \o At(terms, i).factors))

\* The ids or indices of the sources of a kind.
Named(terms, kind) ==
    LET found == SelectSeq(SourcesOf(terms), LAMBDA s : s[1] = kind)
    IN  Vec(Len(found), LAMBDA i : At(found, i)[2])

\* OutputClaimConstraint::new: as many challenges as the largest index asks for.
ConstraintOf(terms, openings) ==
    [terms |-> terms, openings |-> openings,
     challenges |-> Max({0} \cup {i + 1 : i \in Range(Named(terms, "challenge"))})]

CollectUniqueOpenings(terms) == Unique(Named(terms, "opening"))

NoConstraint == ConstraintOf(<<>>, <<>>)

SumOfProducts(terms) == ConstraintOf(terms, CollectUniqueOpenings(terms))

OneProduct(factors) == SumOfProducts(<<ProductTerm(Const(1), factors)>>)

Linear(pairs) ==
    SumOfProducts(Vec(Len(pairs), LAMBDA i : ProductTerm(At(pairs, i)[1], <<At(pairs, i)[2]>>)))

ScaledLinear(multiplier, pairs) ==
    SumOfProducts(Vec(Len(pairs), LAMBDA i :
        ProductTerm(At(pairs, i)[1], <<multiplier, At(pairs, i)[2]>>)))

Direct(id) == ConstraintOf(<<ProductTerm(Opening(id), <<>>)>>, <<id>>)

WeightedOpenings(ids) ==
    SumOfProducts(<<ProductTerm(Opening(ids[1]), <<>>)>> \o
        Vec(Len(ids) - 1, LAMBDA i : ProductTerm(Challenge(i), <<Opening(At(ids, i + 1))>>)))

AllWeightedOpenings(ids) ==
    SumOfProducts(Vec(Len(ids), LAMBDA i : ProductTerm(Challenge(i), <<Opening(At(ids, i))>>)))

\* visit: the multiplications of a term, in the order in which every visitor
\* sees them; Running is the product so far.
Running == <<"running">>

Visit(term) ==
    LET f == term.factors
        n == Len(f)
    IN  CASE n = 0 -> << <<term.coeff, Const(1)>> >>
          [] n = 1 -> << <<term.coeff, f[1]>> >>
          [] OTHER -> << <<f[1], f[2]>> >> \o [i \in 1 .. (n - 2) |-> <<Running, f[i + 2]>>]
                      \o << <<term.coeff, Running>> >>

\* estimate_aux_var_count, with CountVisitor.
AuxCount(c) == SumOf(1, Len(c.terms), LAMBDA t : Len(Visit(c.terms[t])))

\* resolve, of the visitors that compute values.
SourceValue(c, source, openings, values) ==
    CASE source[1] = "opening"   -> openings[Position(c.openings, source[2])]
      [] source[1] = "challenge" -> At(values, source[2])
      [] source[1] = "constant"  -> source[2] % FieldSize

\* The products of a term: WitnessAuxVisitor, and EvaluateVisitor for the last.
TermValues(c, steps, openings, values) ==
    LET product[i \in 1 .. Len(steps)] ==
            LET value(s) == IF s = Running THEN product[i - 1] ELSE SourceValue(c, s, openings, values)
            IN  value(steps[i][1]) ** value(steps[i][2])
    IN  Vec(Len(steps), LAMBDA i : product[i + 1])

ComputeAuxVars(c, openings, values) ==
    Joined(Vec(Len(c.terms), LAMBDA t : TermValues(c, Visit(At(c.terms, t)), openings, values)))

EvaluateConstraint(c, openings, values) ==
    SumOf(1, Len(c.terms), LAMBDA t : Last(TermValues(c, Visit(c.terms[t]), openings, values)))

\* batch_inner: challenges 0 .. n - 1 are the batching coefficients, each a
\* first factor; those of an instance come after those of the instances before.
OffsetChallenge(source, offset) ==
    IF source[1] = "challenge" THEN Challenge(source[2] + offset) ELSE source

BatchInner(cs) ==
    LET offset[j \in 1 .. Len(cs)] ==
            IF j = 1 THEN Len(cs) ELSE offset[j - 1] + cs[j - 1].challenges
        shifted(j) ==
            Vec(Len(cs[j].terms), LAMBDA t :
                LET term == At(cs[j].terms, t)
                IN  ProductTerm(OffsetChallenge(term.coeff, offset[j]),
                        <<Challenge(j - 1)>> \o
                        Vec(Len(term.factors), LAMBDA f : OffsetChallenge(At(term.factors, f), offset[j]))))
    IN  ConstraintOf(Joined(Vec(Len(cs), LAMBDA j : shifted(j + 1))),
                     Unique(Joined(Vec(Len(cs), LAMBDA j : At(cs, j).openings))))

\* batch, of optional constraints, and batch_required.
BatchOutput(options) ==
    IF \E i \in DOMAIN options : Len(options[i]) = 0 THEN <<>>
    ELSE <<BatchInner(Vec(Len(options), LAMBDA i : At(options, i)[1]))>>

BatchRequired(cs) == BatchInner(cs)

-----------------------------------------------------------------------------
(* mod.rs and layout.rs: the stages, the grid of the witness and the order *)
(* of its variables.                                                       *)

\* A stage: optional input constraint; output <<>>, <<"constraint", c>>,
\* <<"linear", n>> or <<"placeholder", n>>.
StageConfig(rounds, degree, newChain, powerSums) ==
    [rounds |-> rounds, degree |-> degree, newChain |-> newChain, powerSums |-> powerSums,
     input |-> <<>>, output |-> <<>>]

WithInputConstraint(config, c) == [config EXCEPT !.input = <<c>>]
WithConstraint(config, c) == [config EXCEPT !.output = <<"constraint", c>>]
WithFinalOutput(config, n) == [config EXCEPT !.output = <<"linear", n>>]
VerifierPlaceholder(config, n) == [config EXCEPT !.output = <<"placeholder", n>>]
HasInitialClaimVar(config) == Len(config.input) > 0

TotalRounds(configs) == SumOf(1, Len(configs), LAMBDA i : configs[i].rounds)

ColumnsOf(configs) == NextPowerOfTwo(Max({1} \cup {configs[i].degree + 1 : i \in DOMAIN configs}))

CoeffRows(configs) == IF TotalRounds(configs) = 0 THEN 1 ELSE NextPowerOfTwo(TotalRounds(configs))

\* compute_hyrax_params
ComputeHyraxParams(configs, noncoeff, ocRows) ==
    LET c == ColumnsOf(configs)
        rows == CeilDiv(noncoeff, c)
    IN  [C |-> c, rCoeff |-> CoeffRows(configs), noncoeffRows |-> rows, ocRows |-> ocRows,
         rPrime |-> NextPowerOfTwo(CoeffRows(configs) + ocRows + rows)]

\* e_grid
EGrid(c, constraints) ==
    LET padded == NextPowerOfTwo(constraints)
        cols == Smaller(c, padded)
    IN  [rows |-> padded \div cols, cols |-> cols]

\* compute_witness_layout: the steps of a stage, and then of an extra constraint.
ConstraintStep(kind, c, seen, index) ==
    [kind |-> kind, constraint |-> c, index |-> index, aux |-> AuxCount(c),
     fresh |-> Cardinality(Range(c.openings) \ seen)]

StageSteps(config, k, chain, round, seen) ==
    LET start == IF k > 1 /\ ~config.newChain THEN <<>>
                 ELSE << [kind |-> IF HasInitialClaimVar(config) THEN "InitialClaimVar"
                                   ELSE "ConstantInitialClaim", chain |-> chain] >>
        input == IF ~HasInitialClaimVar(config) THEN <<>>
                 ELSE << ConstraintStep("InitialInput", config.input[1], seen, k) >>
        seenThen == seen \cup Range(IF input = <<>> THEN <<>> ELSE config.input[1].openings)
        rounds == Vec(config.rounds, LAMBDA i :
                      << [kind |-> "CoeffRow", round |-> round + i, coeffs |-> config.degree + 1,
                          index |-> k, at |-> i + 1],
                         [kind |-> "NextClaim", index |-> k, at |-> i + 1] >>)
        output == CASE Len(config.output) = 0 -> <<>>
                    [] Len(config.output) > 0 /\ config.output[1] = "constraint" ->
                           << ConstraintStep("FinalOutput", config.output[2], seenThen, k) >>
                    [] Len(config.output) > 0 /\ config.output[1] = "linear" ->
                           << [kind |-> "LinearFinalOutput", count |-> config.output[2], index |-> k] >>
                    [] Len(config.output) > 0 /\ config.output[1] = "placeholder" ->
                           << [kind |-> "PlaceholderVars", count |-> config.output[2]] >>
    IN  start \o input \o Joined(rounds) \o output

OpeningsIn(steps) ==
    UNION {Range(steps[i].constraint.openings) :
              i \in {i \in DOMAIN steps : "constraint" \in DOMAIN steps[i]}}

LayoutOf(configs, extras) ==
    LET stages[k \in 0 .. Len(configs)] ==
            IF k = 0 THEN [steps |-> <<>>, chain |-> 0, round |-> 0]
            ELSE LET before == stages[k - 1]
                     config == configs[k]
                     chain == IF k > 1 /\ config.newChain THEN before.chain + 1 ELSE before.chain
                 IN  [steps |-> before.steps \o
                          StageSteps(config, k, chain, before.round, OpeningsIn(before.steps)),
                      chain |-> chain, round |-> before.round + config.rounds]
        all[e \in 0 .. Len(extras)] ==
            IF e = 0 THEN stages[Len(configs)].steps
            ELSE Append(all[e - 1], ConstraintStep("Extra", extras[e], OpeningsIn(all[e - 1]), e))
    IN  all[Len(extras)]

-----------------------------------------------------------------------------
(* r1cs.rs: the builder.  Variable 0 is the scalar u.  A linear            *)
(* combination is a list of pairs of a variable and its coefficient.       *)

ConstLc(v) == << <<0, v % FieldSize>> >>
VarLc(x) == << <<x, 1>> >>
R1csRow(a, b, c) == [a |-> a, b |-> b, c |-> c]

\* resolve and into_lc of R1csConstraintVisitor.
Resolve(source, variables, baked) ==
    CASE source[1] = "opening"   -> VarLc(variables[source[2]])
      [] source[1] = "challenge" -> ConstLc(At(baked, source[2]))
      [] source[1] = "constant"  -> ConstLc(source[2])

\* The constraints of a term, one variable each from next on; two constants
\* are multiplied here only when they are all there is.
ProductRow(step, left, right, next, alone) ==
    IF alone /\ IsConstant(step[1]) /\ IsConstant(step[2])
    THEN R1csRow(ConstLc(left[1][2] ** right[1][2]), ConstLc(1), VarLc(next))
    ELSE R1csRow(left, right, VarLc(next))

TermRows(steps, variables, baked, next) ==
    LET lc(s, i) == IF s = Running THEN VarLc(next + i - 1) ELSE Resolve(s, variables, baked)
    IN  Vec(Len(steps), LAMBDA i :
            ProductRow(At(steps, i), lc(At(steps, i)[1], i), lc(At(steps, i)[2], i), next + i,
                     Len(steps) = 1))

\* add_sum_of_products_constraint_baked
AddProducts(st, claim, c, baked, first) ==
    [st EXCEPT !.next = Last(first),
               !.rows = @ \o Joined(Vec(Len(c.terms), LAMBDA t :
                                   TermRows(Visit(At(c.terms, t)), st.variables, baked, At(first, t))))
                          \o << R1csRow(ConstLc(1),
                                       Vec(Len(c.terms), LAMBDA t : <<At(first, t + 1) - 1, 1>>), claim) >>]

AddSumOfProducts(st, claim, c, baked) ==
    IF Len(c.terms) = 0 THEN st
    ELSE AddProducts(st, claim, c, baked,
             Vec(Len(c.terms) + 1, LAMBDA t :
                 st.next + SumOf(1, t, LAMBDA k : Len(Visit(c.terms[k])))))

\* add_round_constraints: the sum over the domain, and the value at the challenge.
RoundRows(coeffs, next, claimed, challenge, powerSums) ==
    LET n == Len(coeffs)
        weight(k) == IF powerSums # <<>> THEN At(powerSums, k) ELSE IF k = 0 THEN 2 ELSE 1
    IN  << R1csRow(Vec(n, LAMBDA k : <<At(coeffs, k), weight(k) % FieldSize>>), ConstLc(1), claimed),
           R1csRow(Vec(n, LAMBDA k : <<At(coeffs, k), Pow(challenge, k)>>), ConstLc(1), VarLc(next)) >>

\* Openings that have no variable yet get the next ones.
AllocateOpenings(st, ids) ==
    LET new == SelectSeq(ids, LAMBDA id : id \notin DOMAIN st.variables)
    IN  [st EXCEPT !.next = @ + Len(new),
                   !.variables = [id \in DOMAIN @ \cup Range(new) |->
                       IF id \in DOMAIN @ THEN @[id] ELSE st.next + Position(new, id) - 1]]

\* The region of the output claims: every block of a stage in rows of its own.
OpeningRegion(blocks, start, c) ==
    LET upTo[k \in 0 .. Len(blocks)] ==
            IF k = 0 THEN [variables |-> <<>>, ids |-> <<>>, offset |-> 0]
            ELSE LET s == upTo[k - 1]
                     new == SelectSeq(blocks[k], LAMBDA id : id \notin DOMAIN s.variables)
                 IN  [variables |-> [id \in DOMAIN s.variables \cup Range(new) |->
                          IF id \in DOMAIN s.variables THEN s.variables[id]
                          ELSE start + s.offset + Position(blocks[k], id) - 1],
                      ids |-> s.ids \o new,
                      offset |-> s.offset + CeilDiv(Len(blocks[k]), c) * c]
    IN  upTo[Len(blocks)]

BuildRound(st, step, configs, baked) ==
    [st EXCEPT !.next = @ + 1, !.claim = VarLc(st.next), !.challenges = Drop(@, 1),
               !.rows = @ \o RoundRows(st.coeffs, st.next, st.claim, st.challenges[1],
                                       configs[step.index].powerSums)]

BuildInput(st, c) ==
    AddSumOfProducts([st EXCEPT !.inputs = Drop(@, c.challenges)], st.claim, c,
                     Take(st.inputs, c.challenges))

BuildOutput(st, c) ==
    AddSumOfProducts([st EXCEPT !.outputs = Drop(@, c.challenges)], st.claim, c,
                     Take(st.outputs, c.challenges))

\* The extra constraint: its output, its products and its blinding.
BuildBlinding(st, output, taken) ==
    [st EXCEPT !.next = @ + 1, !.extras = Drop(@, taken),
               !.extraOutputs = Append(@, output), !.extraBlindings = Append(@, st.next)]

BuildExtra(st, c) ==
    BuildBlinding(AddSumOfProducts([st EXCEPT !.next = @ + 1], VarLc(st.next), c,
                                   Take(st.extras, c.challenges)), st.next, c.challenges)

\* add_final_output_constraint_baked: nothing for no evaluation.
BuildLinear(st, step) ==
    LET n == step.count
        lc == Vec(n, LAMBDA i : <<st.next + i, At(st.batching, i)>>)
    IN  [st EXCEPT !.next = @ + n, !.batching = Drop(@, n),
                   !.rows = IF n = 0 THEN @ ELSE Append(@, R1csRow(lc, ConstLc(1), st.claim))]

BuildStep(st, step, configs, baked, c) ==
    CASE step.kind = "ConstantInitialClaim" ->
             [st EXCEPT !.claim = ConstLc(At(baked.initialClaims, step.chain))]
      [] step.kind = "InitialClaimVar" -> [st EXCEPT !.next = @ + 1, !.claim = VarLc(st.next)]
      [] step.kind = "InitialInput" ->
             BuildInput(AllocateOpenings(st, step.constraint.openings), step.constraint)
      [] step.kind = "CoeffRow" ->
             [st EXCEPT !.coeffs = Vec(step.coeffs, LAMBDA k : 1 + step.round * c + k)]
      [] step.kind = "NextClaim" -> BuildRound(st, step, configs, baked)
      [] step.kind = "FinalOutput" ->
             BuildOutput(AllocateOpenings(st, step.constraint.openings), step.constraint)
      [] step.kind = "LinearFinalOutput" -> BuildLinear(st, step)
      [] step.kind = "PlaceholderVars" -> [st EXCEPT !.next = @ + step.count]
      [] step.kind = "Extra" ->
             BuildExtra(AllocateOpenings(st, step.constraint.openings), step.constraint)

\* A row of a sparse matrix: no zero is stored.
SparseRow(lc) == SelectSeq(lc, LAMBDA e : e[2] # 0)

\* VerifierR1CSBuilder::build: the walk over the layout, then the matrices.
RECURSIVE BuildSteps(_, _, _, _, _)
BuildSteps(st, steps, configs, baked, c) ==
    IF Len(steps) = 1 THEN BuildStep(st, steps[1], configs, baked, c)
    ELSE LET half == Len(steps) \div 2
         IN  Of(BuildSteps(st, Take(steps, half), configs, baked, c),
                LAMBDA s : BuildSteps(s, Drop(steps, half), configs, baked, c))

WalkLayout(configs, baked, layout, region, c) ==
    BuildSteps([next |-> 1 + CoeffRows(configs) * c + region.offset,
                variables |-> region.variables, claim |-> <<>>,
                coeffs |-> <<>>, rows |-> <<>>, challenges |-> baked.challenges,
                inputs |-> baked.inputs, outputs |-> baked.outputs, extras |-> baked.extras,
                batching |-> baked.batching, extraOutputs |-> <<>>, extraBlindings |-> <<>>],
               layout, configs, baked, c)

MatrixOf(rows, side) == Vec(Len(rows), LAMBDA i : SparseRow(At(rows, i)[side]))

R1csOf(built, hyrax, layout, region) ==
    [a |-> MatrixOf(built.rows, "a"), b |-> MatrixOf(built.rows, "b"), c |-> MatrixOf(built.rows, "c"),
     size |-> Len(built.rows), vars |-> 1 + hyrax.rPrime * hyrax.C, hyrax |-> hyrax,
     layout |-> layout, extraOutputs |-> built.extraOutputs,
     extraBlindings |-> built.extraBlindings, ocIds |-> region.ids]

FinishR1cs(built, configs, layout, region, c) ==
    R1csOf(built,
           ComputeHyraxParams(configs, built.next - (1 + CoeffRows(configs) * c + region.offset),
                              region.offset \div c),
           layout, region)

BuildWith(configs, baked, layout, region, c) ==
    FinishR1cs(WalkLayout(configs, baked, layout, region, c), configs, layout, region, c)

BuildR1cs(configs, extras, baked, blocks) ==
    LET c == ColumnsOf(configs)
    IN  BuildWith(configs, baked, LayoutOf(configs, extras),
                  OpeningRegion(blocks, 1 + CoeffRows(configs) * c, c), c)

-----------------------------------------------------------------------------
\* mul_vector, project_columns and bilinear_eval; a column is a variable.
RowDot(row, z) == SumOf(1, Len(row), LAMBDA e : row[e][2] ** z[row[e][1] + 1])

MulVector(m, z) == Vec(Len(m), LAMBDA i : RowDot(At(m, i), z))

AddRow(sums, row, weight, start) ==
    LET upTo[e \in 0 .. Len(row)] ==
            IF e = 0 THEN sums
            ELSE IF row[e][1] \notin start .. (start + Len(sums) - 1) THEN upTo[e - 1]
            ELSE [upTo[e - 1] EXCEPT ![row[e][1] - start + 1] = @ ++ weight ** row[e][2]]
    IN  upTo[Len(row)]

ProjectRows(m, eq, start, len, first, last) ==
    LET upTo[i \in (first - 1) .. last] ==
            IF i < first THEN Zeros(len) ELSE AddRow(upTo[i - 1], m[i], eq[i], start)
    IN  upTo[last]

\* The rows in blocks.
ProjectColumns(m, eq, start, len) ==
    LET last(b) == IF 16 * b < Len(m) THEN 16 * b ELSE Len(m)
        upTo[b \in 0 .. (Len(m) + 15) \div 16] ==
            IF b = 0 THEN Zeros(len)
            ELSE AddVec(upTo[b - 1], ProjectRows(m, eq, start, len, last(b - 1) + 1, last(b)))
    IN  upTo[(Len(m) + 15) \div 16]

BilinearEval(m, eqRow, eqCol, start) ==
    LongSumOf(1, Len(m), LAMBDA i :
        eqRow[i] ** SumOf(1, Len(m[i]), LAMBDA e :
            IF m[i][e][1] < start THEN 0 ELSE m[i][e][2] ** At(eqCol, m[i][e][1] - start)))

\* check_satisfaction, of an R1CS and of a relaxed one: A z * B z = u C z + E.
ErrorOf(r1cs, z, u) ==
    LET az == MulVector(r1cs.a, z)
        bz == MulVector(r1cs.b, z)
        cz == MulVector(r1cs.c, z)
    IN  Vec(r1cs.size, LAMBDA i : At(az, i) ** At(bz, i) -- u ** At(cz, i))

CheckSatisfaction(r1cs, z) == z[1] = 1 /\ ErrorOf(r1cs, z, 1) = Zeros(r1cs.size)

CheckRelaxed(r1cs, w, u) == ErrorOf(r1cs, <<u>> \o w.W, u) = w.E

-----------------------------------------------------------------------------
(* witness.rs: the values, by a second walk over the layout.               *)

\* General constraints with their data; without data their slots stay zero.
AssignConstraint(st, step, given) ==
    LET c == step.constraint
        new == SelectSeq(c.openings, LAMBDA id : id \notin st.seen)
        values == Vec(Len(new), LAMBDA i : given[1].openings[Position(c.openings, At(new, i))])
    IN  IF Len(given) = 0 THEN [st EXCEPT !.noncoeff = @ \o Zeros(step.fresh + step.aux)]
        ELSE [st EXCEPT !.seen = @ \cup Range(new),
                        !.noncoeff = @ \o values \o
                            ComputeAuxVars(c, given[1].openings, given[1].challenges)]

AssignExtra(st, step, extras) ==
    LET c == step.constraint
        w == extras[step.index]
        new == SelectSeq(c.openings, LAMBDA id : id \notin st.seen)
        values == Vec(Len(new), LAMBDA i : w.openings[Position(c.openings, At(new, i))])
    IN  IF step.index > Len(extras)
        THEN [st EXCEPT !.noncoeff = @ \o Zeros(step.fresh + 1 + step.aux + 1)]
        ELSE [st EXCEPT !.seen = @ \cup Range(new),
                        !.noncoeff = @ \o values \o <<w.output>> \o
                            ComputeAuxVars(c, w.openings, w.challenges) \o <<w.blinding>>]

AssignStep(st, step, w, c) ==
    CASE step.kind = "ConstantInitialClaim" -> st
      [] step.kind = "InitialClaimVar" ->
             [st EXCEPT !.noncoeff = Append(@, At(w.initialClaims, step.chain))]
      [] step.kind = "InitialInput" -> AssignConstraint(st, step, w.stages[step.index].input)
      [] step.kind = "CoeffRow" ->
             [st EXCEPT !.coeffs = Pad(@, step.round * c) \o
                                   w.stages[step.index].rounds[step.at].coeffs]
      [] step.kind = "NextClaim" ->
             LET round == w.stages[step.index].rounds[step.at]
             IN  [st EXCEPT !.noncoeff = Append(@, Eval(round.coeffs, round.challenge))]
      [] step.kind = "FinalOutput" -> AssignConstraint(st, step, w.stages[step.index].output)
      [] step.kind = "LinearFinalOutput" ->
             [st EXCEPT !.noncoeff = @ \o w.stages[step.index].output[1].openings]
      [] step.kind = "PlaceholderVars" -> [st EXCEPT !.noncoeff = @ \o Zeros(step.count)]
      [] step.kind = "Extra" -> AssignExtra(st, step, w.extras)

\* assign_with_u
AssignRegions(r1cs, w, u, st) ==
    Pad(<<u>> \o Pad(st.coeffs, r1cs.hyrax.rCoeff * r1cs.hyrax.C) \o
        Pad(w.outputClaims, r1cs.hyrax.ocRows * r1cs.hyrax.C) \o st.noncoeff, r1cs.vars)

RECURSIVE AssignSteps(_, _, _, _)
AssignSteps(st, steps, w, c) ==
    IF Len(steps) = 1 THEN AssignStep(st, steps[1], w, c)
    ELSE LET half == Len(steps) \div 2
         IN  Of(AssignSteps(st, Take(steps, half), w, c),
                LAMBDA s : AssignSteps(s, Drop(steps, half), w, c))

Assign(r1cs, w, u) ==
    AssignRegions(r1cs, w, u,
        AssignSteps([coeffs |-> <<>>, noncoeff |-> <<>>, seen |-> Range(r1cs.ocIds)],
                    r1cs.layout, w, r1cs.hyrax.C))

-----------------------------------------------------------------------------
(* pedersen.rs and hyrax.rs.                                               *)

\* MAX_BLINDFOLD_GENERATORS, 32 in the code: a column of the grid for every
\* coefficient of the longest message, that of a uni-skip.
Generators == 4

Commit(values, blinding) == Append(Pad(values, Generators), blinding)

\* commit_chunked
CommitChunked(values, blindings) ==
    LET chunk(i) == SubSeq(values, i * Generators + 1, Smaller((i + 1) * Generators, Len(values)))
    IN  Vec(CeilDiv(Len(values), Generators), LAMBDA i : Commit(chunk(i), At(blindings, i)))

ZeroPoint == Zeros(Generators + 1)

\* commit_rows: rows of a grid, its end padded with zeros.
CommitRows(flat, cols, rows, blindings) ==
    Vec(rows, LAMBDA i :
        Commit(SubSeq(flat, i * cols + 1, Smaller((i + 1) * cols, Len(flat))), At(blindings, i)))

Msm(points, scalars) ==
    Vec(Generators + 1, LAMBDA g : SumOf(1, Len(points), LAMBDA i : scalars[i] ** At(points[i], g)))

\* combined_row, combined_blinding and evaluate.
CombinedRow(flat, cols, rRow) ==
    LET eq == Evals(rRow)
    IN  Vec(cols, LAMBDA k : SumOf(0, Len(eq) - 1, LAMBDA i : At(eq, i) ** PaddedAt(flat, i * cols + k)))

CombinedBlinding(blindings, rRow) == Dot(blindings, Evals(rRow))

HyraxEvaluate(row, rCol) == Dot(row, Evals(rCol))

-----------------------------------------------------------------------------
(* relaxed_r1cs.rs and folding.rs.                                         *)

FoldVec(u, v, r) == AddVec(u, Scale(v, r))

FoldPoints(ps, qs, r) == Vec(Len(ps), LAMBDA i : FoldVec(At(ps, i), At(qs, i), r))

\* RelaxedR1CSInstance::fold: <<>> when the lengths differ.
FoldInstances(one, other, cross, r) ==
    LET same(f, g) == Len(f) = Len(g)
    IN  IF ~(/\ same(one.rounds, other.rounds)
             /\ same(one.oc, other.oc)
             /\ same(one.noncoeff, other.noncoeff)
             /\ same(one.evals, other.evals)
             /\ same(one.e, other.e)
             /\ same(one.e, cross))
        THEN <<>>
        ELSE << [u |-> one.u ++ r ** other.u,
                 rounds |-> FoldPoints(one.rounds, other.rounds, r),
                 oc |-> FoldPoints(one.oc, other.oc, r),
                 noncoeff |-> FoldPoints(one.noncoeff, other.noncoeff, r),
                 evals |-> FoldPoints(one.evals, other.evals, r),
                 e |-> FoldPoints(FoldPoints(one.e, cross, r), other.e, r ** r)] >>

FoldWitnesses(one, other, t, tBlindings, r) ==
    [E |-> FoldVec(FoldVec(one.E, t, r), other.E, r ** r),
     W |-> FoldVec(one.W, other.W, r),
     wBlindings |-> FoldVec(one.wBlindings, other.wBlindings, r),
     eBlindings |-> FoldVec(FoldVec(one.eBlindings, tBlindings, r), other.eBlindings, r ** r)]

\* all_w_row_commitments: <<>> when they do not fit.
AllWRows(inst, hyrax) ==
    LET padded(points, n) == points \o Vec(n - Len(points), LAMBDA i : ZeroPoint)
    IN  IF \/ Len(inst.rounds) > hyrax.rCoeff
           \/ hyrax.rCoeff + Len(inst.oc) + Len(inst.noncoeff) > hyrax.rPrime
        THEN <<>>
        ELSE << padded(padded(inst.rounds, hyrax.rCoeff) \o inst.oc \o inst.noncoeff,
                       hyrax.rPrime) >>

\* compute_cross_term
CrossTerm(r1cs, z1, u1, z2, u2) ==
    LET az1 == MulVector(r1cs.a, z1)
        bz1 == MulVector(r1cs.b, z1)
        cz1 == MulVector(r1cs.c, z1)
        az2 == MulVector(r1cs.a, z2)
        bz2 == MulVector(r1cs.b, z2)
        cz2 == MulVector(r1cs.c, z2)
    IN  Vec(r1cs.size, LAMBDA i : At(az1, i) ** At(bz2, i) ++ At(az2, i) ** At(bz1, i)
                                  -- u1 ** At(cz2, i) -- u2 ** At(cz1, i))

\* The slots of a layout step outside the coefficient rows, which
\* sample_random_satisfying_pair fills: a third walk.
SampledSlots(step, known) ==
    CASE step.kind \in {"InitialClaimVar", "NextClaim"} -> 1
      [] step.kind \in {"InitialInput", "FinalOutput"} ->
             Cardinality(Range(step.constraint.openings) \ known) + step.aux
      [] step.kind \in {"LinearFinalOutput", "PlaceholderVars"} -> step.count
      [] step.kind = "Extra" -> Cardinality(Range(step.constraint.openings) \ known) + step.aux + 2
      [] OTHER -> 0

\* What a generator seeded here draws.
Draw(seed, i) == ((i + 7) * (i + 3) * 31 + (i + 1) * seed + 17) % FieldSize

Draws(seed, from, n) == Vec(n, LAMBDA i : Draw(seed, from + i))

DrawStep(st, step, c, seed, drawn) ==
    [rows |-> IF step.kind # "CoeffRow" THEN st.rows
              ELSE Pad(st.rows, step.round * c) \o Draws(seed, Len(st.rows), step.coeffs),
     slots |-> st.slots \o drawn,
     evals |-> IF step.kind # "Extra" THEN st.evals
               ELSE Append(st.evals, <<drawn[Len(drawn) - step.aux - 1], Last(drawn)>>),
     seen |-> st.seen \cup OpeningsIn(<<step>>)]

RECURSIVE DrawSteps(_, _, _, _)
DrawSteps(st, steps, c, seed) ==
    IF Len(steps) = 1
    THEN DrawStep(st, steps[1], c, seed,
                  Draws(seed, 500 + Len(st.slots), SampledSlots(steps[1], st.seen)))
    ELSE LET half == Len(steps) \div 2
         IN  Of(DrawSteps(st, Take(steps, half), c, seed),
                LAMBDA s : DrawSteps(s, Drop(steps, half), c, seed))

DrawSlots(r1cs, seed) ==
    DrawSteps([rows |-> <<>>, slots |-> <<>>, evals |-> <<>>, seen |-> Range(r1cs.ocIds)],
              r1cs.layout, r1cs.hyrax.C, seed)

SampledPair(r1cs, u, w, e, wBlindings, eBlindings, evals, all, grid) ==
    LET h == r1cs.hyrax
        rows == Len(SelectSeq(r1cs.layout, LAMBDA step : step.kind = "CoeffRow"))
    IN  [instance |-> [u |-> u, rounds |-> Take(all, rows),
                       oc |-> SubSeq(all, h.rCoeff + 1, h.rCoeff + h.ocRows),
                       noncoeff |-> SubSeq(all, h.rCoeff + h.ocRows + 1,
                                           h.rCoeff + h.ocRows + h.noncoeffRows),
                       e |-> CommitRows(e, grid.cols, grid.rows, eBlindings), evals |-> evals],
         witness |-> [E |-> e, W |-> w, wBlindings |-> wBlindings, eBlindings |-> eBlindings]]

CommitSampled(r1cs, u, w, wBlindings, eBlindings, evals, grid) ==
    SampledPair(r1cs, u, w, ErrorOf(r1cs, <<u>> \o w, u), wBlindings, eBlindings, evals,
                CommitRows(w, r1cs.hyrax.C, r1cs.hyrax.rPrime, wBlindings), grid)

SampleFrom(r1cs, seed, drawn, grid) ==
    LET h == r1cs.hyrax
        draws(from, n) == Draws(seed, from, n)
        rows == Len(SelectSeq(r1cs.layout, LAMBDA step : step.kind = "CoeffRow"))
    IN  CommitSampled(r1cs, IF Draw(seed, 999) = 0 THEN 1 ELSE Draw(seed, 999),
            Pad(Pad(drawn.rows, h.rCoeff * h.C) \o Pad(draws(400, Len(r1cs.ocIds)), h.ocRows * h.C)
                \o drawn.slots, h.rPrime * h.C),
            Pad(Pad(draws(900, rows), h.rCoeff) \o draws(950, h.ocRows + h.noncoeffRows), h.rPrime),
            draws(970, grid.rows), drawn.evals, grid)

SampleSatisfyingPair(r1cs, seed) ==
    SampleFrom(r1cs, seed, DrawSlots(r1cs, seed), EGrid(r1cs.hyrax.C, r1cs.size))

\* commit_cross_term_rows
CommitCrossTermRows(t, grid, blindings) ==
    CommitRows(Pad(t, grid.rows * grid.cols), grid.cols, grid.rows, blindings)

\* new_non_relaxed: no error, and the scalar is one.
NewNonRelaxed(w, r1cs, rounds, oc, noncoeff, evals, wBlindings) ==
    LET rows == EGrid(r1cs.hyrax.C, r1cs.size).rows
    IN  [instance |-> [u |-> 1, rounds |-> rounds, oc |-> oc, noncoeff |-> noncoeff, evals |-> evals,
                       e |-> Vec(rows, LAMBDA i : ZeroPoint)],
         witness |-> [E |-> Zeros(r1cs.size), W |-> w, wBlindings |-> wBlindings,
                      eBlindings |-> Zeros(rows)]]

-----------------------------------------------------------------------------
(* spartan.rs: two sumchecks, over the constraints and over the witness,   *)
(* the first variable in the most significant bit.                         *)

SpartanDegreeBound == 3
InnerDegreeBound == 2

BlindSpartanNew(r1cs, u, z, e, tau) ==
    LET padded(v) == Pad(v, NextPowerOfTwo(r1cs.size))
    IN  [u |-> u, az |-> padded(MulVector(r1cs.a, z)), bz |-> padded(MulVector(r1cs.b, z)),
         cz |-> padded(MulVector(r1cs.c, z)), e |-> padded(e), eq |-> Evals(tau)]

\* The i-th pair of a table, as a line, at x.
PairAt(table, i, x) == Line(At(table, i), At(table, i + Len(table) \div 2), x)

BlindSpartanMessage(st) ==
    LET term(i, x) == PairAt(st.eq, i, x) **
                      (PairAt(st.az, i, x) ** PairAt(st.bz, i, x)
                       -- st.u ** PairAt(st.cz, i, x) -- PairAt(st.e, i, x))
        half == Len(st.az) \div 2
    IN  FromEvals(Vec(SpartanDegreeBound + 1, LAMBDA x : LongSumOf(0, half - 1, LAMBDA i : term(i, x))))

BlindSpartanBind(st, r) ==
    [st EXCEPT !.az = BoundTop(@, r), !.bz = BoundTop(@, r), !.cz = BoundTop(@, r),
               !.e = BoundTop(@, r), !.eq = BoundTop(@, r)]

\* final_claims
BlindSpartanClaims(st) == [Az |-> st.az[1], Bz |-> st.bz[1], Cz |-> st.cz[1], E |-> st.e[1]]

\* witness_contributions and public_contributions: column 0 is the verifier's.
WitnessContributions(r1cs, z, rx) ==
    LET part(m) == LongDot(ProjectColumns(m, Evals(rx), 1, Len(z) - 1), Drop(z, 1))
    IN  <<part(r1cs.a), part(r1cs.b), part(r1cs.c)>>

PublicContributions(r1cs, u, rx) ==
    LET part(m) == u ** ProjectColumns(m, Evals(rx), 0, 1)[1]
    IN  <<part(r1cs.a), part(r1cs.b), part(r1cs.c)>>

\* expected_claim
BlindSpartanExpected(u, tau, rx, op) ==
    EqMle(tau, rx) ** (op.Az ** op.Bz -- u ** op.Cz -- op.E)

\* build_L_w, and compute_L_w_at_ry of the verifier, which never builds it.
BuildLw(r1cs, rx, abc, len) ==
    LET part(m, r) == Scale(ProjectColumns(m, Evals(rx), 1, len), r)
    IN  AddVec(AddVec(part(r1cs.a, abc[1]), part(r1cs.b, abc[2])), part(r1cs.c, abc[3]))

ComputeLwAtRy(r1cs, rx, ry, abc) ==
    LET part(m) == BilinearEval(m, Evals(rx), Evals(ry), 1)
    IN  Dot(abc, <<part(r1cs.a), part(r1cs.b), part(r1cs.c)>>)

BlindInnerNew(r1cs, rx, w, abc) == [lw |-> BuildLw(r1cs, rx, abc, Len(w)), w |-> w]

BlindInnerMessage(st) ==
    LET half == Len(st.w) \div 2
    IN  FromEvals(Vec(InnerDegreeBound + 1, LAMBDA x :
            LongSumOf(0, half - 1, LAMBDA i : PairAt(st.lw, i, x) ** PairAt(st.w, i, x))))

BlindInnerBind(st, r) == [st EXCEPT !.lw = BoundTop(@, r), !.w = BoundTop(@, r)]

-----------------------------------------------------------------------------
(* protocol.rs.  The challenges ch: r, tau, rx, three for the matrices, ry. *)

\* fold of the two pairs, as BlindFoldProver::prove does it.
FoldWith(real, sampled, t, tBlindings, cross, r) ==
    [random |-> sampled.instance, cross |-> cross,
     instance |-> FoldInstances(real.instance, sampled.instance, cross, r)[1],
     witness |-> FoldWitnesses(real.witness, sampled.witness, t, tBlindings, r)]

FoldCrossTerm(real, sampled, t, tBlindings, grid, r) ==
    FoldWith(real, sampled, t, tBlindings, CommitCrossTermRows(t, grid, tBlindings), r)

FoldSampled(r1cs, real, sampled, z, grid, ch) ==
    FoldCrossTerm(real, sampled,
                  CrossTerm(r1cs, z, real.instance.u, <<sampled.instance.u>> \o sampled.witness.W,
                            sampled.instance.u),
                  Vec(grid.rows, LAMBDA i : Draw(ch.seed, 800 + i)), grid, ch.r)

FoldedPair(r1cs, real, z, ch) ==
    FoldSampled(r1cs, real, SampleSatisfyingPair(r1cs, ch.seed), z, EGrid(r1cs.hyrax.C, r1cs.size), ch)

\* The messages of each sumcheck, compressed, and the state it ends in.
OuterMessages(st, rs) ==
    LET run[j \in 0 .. Len(rs)] ==
            IF j = 0 THEN [state |-> st, proof |-> <<>>]
            ELSE [state |-> BlindSpartanBind(run[j - 1].state, rs[j]),
                  proof |-> Append(run[j - 1].proof, Compress(BlindSpartanMessage(run[j - 1].state)))]
    IN  run[Len(rs)]

InnerMessages(st, rs) ==
    LET run[j \in 0 .. Len(rs)] ==
            IF j = 0 THEN [state |-> st, proof |-> <<>>]
            ELSE [state |-> BlindInnerBind(run[j - 1].state, rs[j]),
                  proof |-> Append(run[j - 1].proof, Compress(BlindInnerMessage(run[j - 1].state)))]
    IN  run[Len(rs)]

HyraxOpening(flat, cols, blindings, point) ==
    [row |-> CombinedRow(flat, cols, point), blinding |-> CombinedBlinding(blindings, point)]

\* The proof from the folded pair and the two sumchecks.
ProofOf(r1cs, noncoeff, folded, outer, inner, grid, ch) ==
    LET w == folded.witness
        values(xs) == Vec(Len(xs), LAMBDA i : w.W[At(xs, i)])
    IN  [random |-> folded.random, noncoeff |-> noncoeff, cross |-> folded.cross,
         spartan |-> outer.proof,
         claims |-> <<outer.state.az[1], outer.state.bz[1], outer.state.cz[1]>>, inner |-> inner.proof,
         wOpening |-> HyraxOpening(w.W, r1cs.hyrax.C, w.wBlindings,
                                   Take(ch.ry, LogOf(r1cs.hyrax.rPrime))),
         eOpening |-> HyraxOpening(Pad(w.E, NextPowerOfTwo(r1cs.size)), grid.cols, w.eBlindings,
                                   Take(ch.rx, LogOf(grid.rows))),
         evalOutputs |-> values(r1cs.extraOutputs), evalBlindings |-> values(r1cs.extraBlindings)]

ProveFolded(r1cs, noncoeff, folded, ch) ==
    LET u == folded.instance.u
        w == folded.witness
    IN  ProofOf(r1cs, noncoeff, folded,
                OuterMessages(BlindSpartanNew(r1cs, u, <<u>> \o w.W, w.E, ch.tau), ch.rx),
                InnerMessages(BlindInnerNew(r1cs, ch.rx, w.W, ch.abc), ch.ry),
                EGrid(r1cs.hyrax.C, r1cs.size), ch)

BlindFoldProve(r1cs, real, z, ch) ==
    ProveFolded(r1cs, real.instance.noncoeff, FoldedPair(r1cs, real, z, ch), ch)

\* The instance the verifier puts together from what the stages sent.
RealInstance(r1cs, proof, input) ==
    [u |-> 1, rounds |-> input.rounds, oc |-> input.oc, noncoeff |-> proof.noncoeff,
     evals |-> input.evals,
     e |-> Vec(EGrid(r1cs.hyrax.C, r1cs.size).rows, LAMBDA i : ZeroPoint)]

\* The last claim.  A decompressed message always sums to the claim it was
\* restored from, so the comparison the code makes in each round holds.
ClaimChain(polys, first, rs) ==
    LET claims[j \in 0 .. Len(polys)] ==
            IF j = 0 THEN first ELSE Eval(Decompress(polys[j], claims[j - 1]), rs[j])
    IN  claims[Len(polys)]

\* The checks in their order, the first that fails; attempt is the folded
\* instance, if there is one, and the last claims are those of the sumchecks.
SumcheckErrors(r1cs, proof, folded, ch, grid, wRows, outerLast, innerLast) ==
    LET h == r1cs.hyrax
        opens(rows, opening, point) ==
            Msm(rows, Evals(point)) = Commit(opening.row, opening.blinding)
        eValue == HyraxEvaluate(proof.eOpening.row, Drop(ch.rx, LogOf(grid.rows)))
        wValue == HyraxEvaluate(proof.wOpening.row, Drop(ch.ry, LogOf(h.rPrime)))
    IN  IF ~opens(folded.e, proof.eOpening, Take(ch.rx, LogOf(grid.rows))) THEN "EOpeningFailed"
        ELSE IF outerLast # BlindSpartanExpected(folded.u, ch.tau, ch.rx,
                                [Az |-> proof.claims[1], Bz |-> proof.claims[2],
                                 Cz |-> proof.claims[3], E |-> eValue]) THEN "OuterClaimMismatch"
        ELSE IF wRows = <<>> THEN "MalformedProof"
        ELSE IF ~opens(wRows[1], proof.wOpening, Take(ch.ry, LogOf(h.rPrime))) THEN "WOpeningFailed"
        ELSE IF innerLast # ComputeLwAtRy(r1cs, ch.rx, ch.ry, ch.abc) ** wValue
        THEN "FinalClaimMismatch"
        ELSE "Ok"

SumcheckVerdict(r1cs, proof, folded, ch, grid) ==
    LET public == PublicContributions(r1cs, folded.u, ch.rx)
    IN  SumcheckErrors(r1cs, proof, folded, ch, grid, AllWRows(folded, r1cs.hyrax),
            ClaimChain(proof.spartan, 0, ch.rx),
            ClaimChain(proof.inner,
                       Dot(ch.abc, <<proof.claims[1] -- public[1], proof.claims[2] -- public[2],
                                     proof.claims[3] -- public[3]>>), ch.ry))

VerifyFolded(r1cs, proof, folded, ch, grid) ==
    IF \/ Len(proof.evalOutputs) # Len(folded.evals)
       \/ Len(proof.evalBlindings) # Len(folded.evals)
    THEN "MalformedProof"
    ELSE IF \E i \in DOMAIN folded.evals :
               folded.evals[i] # <<proof.evalOutputs[i], proof.evalBlindings[i]>>
    THEN "EvalCommitmentMismatch"
    ELSE IF Len(proof.spartan) # LogOf(NextPowerOfTwo(r1cs.size)) THEN "WrongSpartanProofLength"
    ELSE IF \E j \in DOMAIN proof.spartan : Len(proof.spartan[j]) # SpartanDegreeBound
    THEN "DegreeBoundExceeded"
    ELSE IF Len(proof.inner) # LogOf(r1cs.hyrax.rPrime * r1cs.hyrax.C) THEN "WrongInnerSumcheckLength"
    ELSE IF \E j \in DOMAIN proof.inner : Len(proof.inner[j]) # InnerDegreeBound
    THEN "DegreeBoundExceeded"
    ELSE SumcheckVerdict(r1cs, proof, folded, ch, grid)

VerifyAttempt(r1cs, proof, attempt, ocRows, ch, grid) ==
    IF \/ Len(proof.noncoeff) # r1cs.hyrax.noncoeffRows
       \/ Len(proof.random.noncoeff) # r1cs.hyrax.noncoeffRows
       \/ ocRows # r1cs.hyrax.ocRows
       \/ Len(proof.random.oc) # r1cs.hyrax.ocRows
       \/ Len(proof.random.e) # grid.rows
       \/ attempt = <<>>
    THEN "MalformedProof"
    ELSE VerifyFolded(r1cs, proof, attempt[1], ch, grid)

BlindFoldVerify(r1cs, proof, input, ch) ==
    VerifyAttempt(r1cs, proof,
        FoldInstances(RealInstance(r1cs, proof, input), proof.random, proof.cross, ch.r),
        Len(input.oc), ch, EGrid(r1cs.hyrax.C, r1cs.size))

-----------------------------------------------------------------------------
(* BatchedSumcheck::prove_zk and prove_uniskip_round_zk: messages and      *)
(* claims are committed.  An instance is its claim, its messages under the *)
(* challenges, its constraints with their values and the claims it caches. *)

RoundOffset(insts, i) == Max({insts[k].rounds : k \in DOMAIN insts}) - insts[i].rounds

\* prove_zk: a batch of instances, challenges rs, batching coefficients alphas.
ProveZk(insts, rs, alphas, seed) ==
    LET n == Len(insts)
        rounds == Len(rs)
        scaled(i) == insts[i].claim ** TwoTo[RoundOffset(insts, i)]
        \* A round that an instance sits out halves its claim.
        poly(i, round) ==
            LET offset == RoundOffset(insts, i)
            IN  IF round > offset THEN insts[i].messages[round - offset]
                ELSE <<scaled(i) // TwoTo[round]>>
        batched(round) ==
            Vec(Max({Len(poly(i, round)) : i \in 1 .. n}), LAMBDA k :
                SumOf(1, n, LAMBDA i : alphas[i] ** PaddedAt(poly(i, round), k)))
        coeffs == Vec(rounds, LAMBDA j : batched(j + 1))
        blindings == Vec(rounds, LAMBDA j : Draw(seed, j))
        claims == Joined(Vec(n, LAMBDA i : insts[i + 1].openings))
        claimBlindings == Vec(CeilDiv(Len(claims), Generators), LAMBDA j : Draw(seed, 100 + j))
        each(field) == Vec(n, LAMBDA i : insts[i + 1][field])
    IN  [claim |-> SumOf(1, n, LAMBDA i : scaled(i) ** alphas[i]),
         coeffs |-> coeffs, blindings |-> blindings, challenges |-> rs, alphas |-> alphas,
         commitments |-> Vec(rounds, LAMBDA j : Commit(At(coeffs, j), At(blindings, j))),
         degrees |-> Vec(rounds, LAMBDA j : Len(At(coeffs, j)) - 1),
         outputs |-> each("output"), outputValues |-> each("outputValues"),
         inputs |-> each("input"), inputValues |-> each("inputValues"),
         exponents |-> Vec(n, LAMBDA i : RoundOffset(insts, i + 1)),
         claims |-> claims, claimBlindings |-> claimBlindings,
         claimCommitments |-> CommitChunked(Vec(Len(claims), LAMBDA i : At(claims, i)[2]), claimBlindings)]

\* prove_uniskip_round_zk
ProveUniskipZk(inst, r0, seed) ==
    LET coeffs == inst.messages[1]
        claimBlindings == Vec(CeilDiv(Len(inst.openings), Generators), LAMBDA j : Draw(seed, 100 + j))
    IN  [claim |-> inst.claim, coeffs |-> coeffs, blinding |-> Draw(seed, 0), challenge |-> r0,
         degree |-> Len(coeffs) - 1, commitment |-> Commit(coeffs, Draw(seed, 0)),
         input |-> inst.input, inputValues |-> inst.inputValues, claims |-> inst.openings,
         claimBlindings |-> claimBlindings,
         claimCommitments |-> CommitChunked(
             Vec(Len(inst.openings), LAMBDA i : At(inst.openings, i)[2]), claimBlindings)]

\* verify_transcript_only and verify_transcript: lengths and degrees.
TranscriptChecks(stage, rounds, bound) ==
    /\ Len(stage.commitments) = rounds
    /\ Len(stage.degrees) = rounds
    /\ \A j \in DOMAIN stage.degrees : stage.degrees[j] <= bound

-----------------------------------------------------------------------------
(* prove_blindfold.  The stages are numbered from 1; the first two begin   *)
(* with a uni-skip.  p.skips and p.stages are what the two above return.   *)

SkipStages == {1, 2}

\* What the stages give one after the other, each uni-skip before its stage.
PerStage(n, skip(_), regular(_)) ==
    Joined(Vec(n, LAMBDA k : (IF k + 1 \in SkipStages THEN skip(k + 1) ELSE <<>>) \o regular(k + 1)))

\* The value a constraint's challenges take: batching coefficients first.
BatchedValues(coeffs, values) == coeffs \o Joined(values)

ScaledAlphas(stage) ==
    Vec(Len(stage.alphas), LAMBDA i : At(stage.alphas, i) ** TwoTo[At(stage.exponents, i)])

InputValues(stage) == BatchedValues(ScaledAlphas(stage), stage.inputValues)
OutputValues(stage) == BatchedValues(stage.alphas, stage.outputValues)

\* The uni-skip of a stage: its round is summed over the skipped domain.
SkipConfig(k, degree, domain) ==
    StageConfig(1, degree, k # 1, PowerSums(domain, degree + 1))

\* The configuration of round i of a stage: constraints at both ends.
AtBothEnds(config, stage, i, batched) ==
    LET first == IF i = 1 THEN WithInputConstraint(config, BatchRequired(stage.inputs)) ELSE config
    IN  IF i = Len(stage.coeffs) /\ batched # <<>> THEN WithConstraint(first, batched[1]) ELSE first

ProverRoundConfig(stage, i) ==
    AtBothEnds(StageConfig(1, Len(stage.coeffs[i]) - 1, i = 1, <<>>), stage, i,
               BatchOutput(stage.outputs))

ProverConfigs(p) ==
    PerStage(Len(p.stages),
        LAMBDA k : << WithInputConstraint(
                          SkipConfig(k, Len(p.skips[k].coeffs) - 1, p.domains[k]), p.skips[k].input) >>,
        LAMBDA k : Vec(Len(p.stages[k].coeffs), LAMBDA i : ProverRoundConfig(p.stages[k], i + 1)))

\* FinalOutputWitness::general: the openings come from the accumulator.
GeneralWitness(p, c, values) ==
    [challenges |-> values, openings |-> Vec(Len(c.openings), LAMBDA i : p.openings[At(c.openings, i)])]

WitnessAtBothEnds(p, stage, i, batched) ==
    [rounds |-> << [coeffs |-> stage.coeffs[i], challenge |-> stage.challenges[i]] >>,
     input |-> IF i = 1 THEN << GeneralWitness(p, BatchRequired(stage.inputs), InputValues(stage)) >>
               ELSE <<>>,
     output |-> IF i = Len(stage.coeffs) /\ batched # <<>>
                THEN << GeneralWitness(p, batched[1], OutputValues(stage)) >> ELSE <<>>]

ProverRoundWitness(p, stage, i) == WitnessAtBothEnds(p, stage, i, BatchOutput(stage.outputs))

ProverWitnesses(p) ==
    PerStage(Len(p.stages),
        LAMBDA k : << [rounds |-> << [coeffs |-> p.skips[k].coeffs, challenge |-> p.skips[k].challenge] >>,
                       input |-> << GeneralWitness(p, p.skips[k].input, p.skips[k].inputValues) >>,
                       output |-> <<>>] >>,
        LAMBDA k : Vec(Len(p.stages[k].coeffs), LAMBDA i : ProverRoundWitness(p, p.stages[k], i + 1)))

\* The claim on the joint opening of stage 8.
ExtraConstraint(ids) ==
    Linear(Vec(Len(ids), LAMBDA i : <<Challenge(i), Opening(At(ids, i))>>))

ProverBaked(p) ==
    [challenges |-> PerStage(Len(p.stages), LAMBDA k : <<p.skips[k].challenge>>,
                                            LAMBDA k : p.stages[k].challenges),
     inputs |-> PerStage(Len(p.stages), LAMBDA k : p.skips[k].inputValues,
                                        LAMBDA k : InputValues(p.stages[k])),
     outputs |-> PerStage(Len(p.stages), LAMBDA k : <<>>,
                          LAMBDA k : IF BatchOutput(p.stages[k].outputs) = <<>> THEN <<>>
                                     ELSE OutputValues(p.stages[k])),
     extras |-> p.joint.coeffs, initialClaims |-> <<>>, batching |-> <<>>]

\* The output claims of each block, in rows of the grid.
ProverBlocks(p) ==
    LET ids(s) == << Vec(Len(s.claims), LAMBDA i : At(s.claims, i)[1]) >>
    IN  PerStage(Len(p.stages), LAMBDA k : ids(p.skips[k]), LAMBDA k : ids(p.stages[k]))

PaddedClaims(p, c) ==
    LET row(s) == Pad(Vec(Len(s.claims), LAMBDA i : At(s.claims, i)[2]), CeilDiv(Len(s.claims), c) * c)
    IN  PerStage(Len(p.stages), LAMBDA k : row(p.skips[k]), LAMBDA k : row(p.stages[k]))

ProverR1cs(p) ==
    BuildR1cs(ProverConfigs(p), << ExtraConstraint(p.joint.ids) >>, ProverBaked(p), ProverBlocks(p))

\* BlindFoldWitness::assign
ProverZ(p, r1cs) ==
    Assign(r1cs,
        [initialClaims |-> PerStage(Len(p.stages), LAMBDA k : <<p.skips[k].claim>>,
                                                   LAMBDA k : <<p.stages[k].claim>>),
         stages |-> ProverWitnesses(p),
         extras |-> << [output |-> p.joint.claim, blinding |-> p.joint.blinding,
                        challenges |-> p.joint.coeffs,
                        openings |-> Vec(Len(p.joint.ids), LAMBDA i : p.openings[At(p.joint.ids, i)])] >>,
         outputClaims |-> PaddedClaims(p, r1cs.hyrax.C)], 1)

\* The committed rows: those of the rounds and claims are the stages' own.
ProverPair(p, r1cs, z) ==
    LET h == r1cs.hyrax
        w == Drop(z, 1)
        n == Len(p.stages)
        blindings == Vec(h.noncoeffRows, LAMBDA i : Draw(p.seed, 700 + i))
        start == (h.rCoeff + h.ocRows) * h.C
        roundBlindings == PerStage(n, LAMBDA k : <<p.skips[k].blinding>>, LAMBDA k : p.stages[k].blindings)
        ocBlindings == PerStage(n, LAMBDA k : p.skips[k].claimBlindings, LAMBDA k : p.stages[k].claimBlindings)
    IN  NewNonRelaxed(w, r1cs,
            PerStage(n, LAMBDA k : <<p.skips[k].commitment>>, LAMBDA k : p.stages[k].commitments),
            PerStage(n, LAMBDA k : p.skips[k].claimCommitments, LAMBDA k : p.stages[k].claimCommitments),
            CommitRows(Drop(w, start), h.C, h.noncoeffRows, blindings),
            << <<p.joint.claim, p.joint.blinding>> >>,
            Pad(Pad(Pad(roundBlindings, h.rCoeff) \o ocBlindings, h.rCoeff + h.ocRows) \o blindings,
                h.rPrime))

-----------------------------------------------------------------------------
(* The verifier: the zk part of verify_stage1 .. verify_stage7, and        *)
(* verify_blindfold.  v.stages are its instances, v.skips the uni-skips.   *)

\* StageVerifyResult
StageVerifyResult(insts, rs, alphas) ==
    LET output == BatchOutput(Vec(Len(insts), LAMBDA i : At(insts, i).output))
        scaled == Vec(Len(insts), LAMBDA i : At(alphas, i) ** TwoTo[RoundOffset(insts, i + 1)])
    IN  [challenges |-> rs, output |-> output,
         outputValues |-> IF output = <<>> THEN <<>>
                          ELSE BatchedValues(alphas, Vec(Len(insts), LAMBDA i : At(insts, i).outputValues)),
         input |-> BatchRequired(Vec(Len(insts), LAMBDA i : At(insts, i).input)),
         inputValues |-> BatchedValues(scaled, Vec(Len(insts), LAMBDA i : At(insts, i).inputValues)),
         block |-> Joined(Vec(Len(insts), LAMBDA i : At(insts, i).ids))]

\* The configurations from the degrees in the proof; the constraints are put
\* in afterwards, at the indices recorded on the way.
VerifierConfigs(v, results, proofs) ==
    LET n == Len(results)
        bare == PerStage(n,
            LAMBDA k : << SkipConfig(k, proofs.skips[k].degree, v.domains[k]) >>,
            LAMBDA k : Vec(Len(proofs.stages[k].degrees), LAMBDA i :
                           StageConfig(1, At(proofs.stages[k].degrees, i), i = 0, <<>>)))
        end[k \in 0 .. n] ==
            IF k = 0 THEN 0
            ELSE end[k - 1] + (IF k \in SkipStages THEN 1 ELSE 0) + Len(proofs.stages[k].degrees)
        first(k) == end[k] - Len(proofs.stages[k].degrees) + 1
        output(i) == {k \in 1 .. n : end[k] = i /\ results[k].output # <<>>}
        input(i) == {results[k].input : k \in {k \in 1 .. n : first(k) = i}} \cup
                    {v.skips[k].input : k \in {k \in SkipStages : first(k) - 1 = i}}
    IN  [i \in DOMAIN bare |->
            [bare[i] EXCEPT
                !.input = IF input(i) = {} THEN <<>> ELSE << CHOOSE c \in input(i) : TRUE >>,
                !.output = IF output(i) = {} THEN <<>>
                           ELSE <<"constraint", results[CHOOSE k \in output(i) : TRUE].output[1]>>]]

VerifierBaked(v, results) ==
    [challenges |-> PerStage(Len(results), LAMBDA k : <<v.skips[k].challenge>>,
                                           LAMBDA k : results[k].challenges),
     inputs |-> PerStage(Len(results), LAMBDA k : v.skips[k].inputValues,
                                       LAMBDA k : results[k].inputValues),
     outputs |-> Joined(Vec(Len(results), LAMBDA k : results[k + 1].outputValues)),
     extras |-> v.joint.coeffs, initialClaims |-> <<>>, batching |-> <<>>]

VerifierBuild(v, proofs, results) ==
    BuildR1cs(VerifierConfigs(v, results, proofs), << ExtraConstraint(v.joint.ids) >>,
              VerifierBaked(v, results),
              PerStage(Len(results), LAMBDA k : <<v.skips[k].ids>>, LAMBDA k : <<results[k].block>>))

VerifierR1cs(v, proofs) ==
    VerifierBuild(v, proofs,
        Vec(Len(v.stages), LAMBDA k :
            StageVerifyResult(v.stages[k + 1], v.challenges[k + 1], v.alphas[k + 1])))

\* BlindFoldVerifierInput
VerifierInput(proofs, evalCommitments) ==
    LET n == Len(proofs.stages)
    IN  [rounds |-> PerStage(n, LAMBDA k : <<proofs.skips[k].commitment>>,
                                LAMBDA k : proofs.stages[k].commitments),
         oc |-> PerStage(n, LAMBDA k : proofs.skips[k].claimCommitments,
                            LAMBDA k : proofs.stages[k].claimCommitments),
         evals |-> evalCommitments]

-----------------------------------------------------------------------------
(* One proof.  zk holds the instances of the stages and of the uni-skips,  *)
(* the challenges and batching coefficients of each, the openings, the     *)
(* data of stage 8 and the challenges of BlindFold itself.                 *)

ZkProofs(zk) ==
    [stages |-> Vec(Len(zk.stages), LAMBDA k :
         ProveZk(At(zk.stages, k), At(zk.challenges, k), At(zk.alphas, k), 50 * k + 3)),
     skips |-> Vec(Len(zk.skips), LAMBDA k :
         ProveUniskipZk(At(zk.skips, k), At(zk.skipChallenges, k), 50 * k + 29))]

\* The verifier knows the ids of the claims, not their values.
ZkVerifier(zk) ==
    LET ids(inst) == Vec(Len(inst.openings), LAMBDA i : At(inst.openings, i)[1])
        known(inst) == [rounds |-> inst.rounds, input |-> inst.input, inputValues |-> inst.inputValues,
                        output |-> inst.output, outputValues |-> inst.outputValues, ids |-> ids(inst)]
    IN  [stages |-> Vec(Len(zk.stages), LAMBDA k :
             Vec(Len(zk.stages[k + 1]), LAMBDA i : known(zk.stages[k + 1][i + 1]))),
         skips |-> Vec(Len(zk.skips), LAMBDA k :
             [input |-> At(zk.skips, k).input, inputValues |-> At(zk.skips, k).inputValues,
              ids |-> ids(At(zk.skips, k)), challenge |-> At(zk.skipChallenges, k)]),
         challenges |-> zk.challenges, alphas |-> zk.alphas, domains |-> zk.domains,
         joint |-> [ids |-> zk.joint.ids, coeffs |-> zk.joint.coeffs]]

\* What prove_blindfold reads.
ProverData(zk, proofs) ==
    [stages |-> proofs.stages, skips |-> proofs.skips, domains |-> zk.domains,
     openings |-> zk.openings, joint |-> zk.joint, seed |-> 11]

\* All of it: the prover's matrices, assignment and pairs, the verifier's
\* matrices and input.
ZkSystem(zk, proofs, r1cs, z, real, folded) ==
    [proofs |-> proofs, r1cs |-> r1cs, z |-> z, real |-> real, folded |-> folded, ch |-> zk.ch,
     challenges |-> zk.challenges,
     u |-> folded.instance.u, foldedZ |-> <<folded.instance.u>> \o folded.witness.W,
     theirs |-> VerifierR1cs(ZkVerifier(zk), proofs),
     input |-> VerifierInput(proofs, << <<zk.joint.claim, zk.joint.blinding>> >>)]

\* What prover and verifier build separately is the same R1CS; what the prover
\* assigns by its own walk satisfies it, the folded pair satisfies the relaxed
\* one, and every commitment is that of its row.
SystemAgrees(sys) ==
    LET h == sys.r1cs.hyrax
        grid == EGrid(h.C, sys.r1cs.size)
        committed(inst, w) ==
            /\ AllWRows(inst, h) = << CommitRows(w.W, h.C, h.rPrime, w.wBlindings) >>
            /\ inst.e = CommitRows(w.E, grid.cols, grid.rows, w.eBlindings)
    IN  /\ \A k \in DOMAIN sys.proofs.stages :
               TranscriptChecks(sys.proofs.stages[k], Len(sys.challenges[k]), 3)
        /\ \A k \in DOMAIN sys.proofs.skips : sys.proofs.skips[k].degree <= 3
        /\ sys.theirs = sys.r1cs
        /\ CheckSatisfaction(sys.r1cs, sys.z)
        /\ CheckRelaxed(sys.r1cs, sys.folded.witness, sys.u)
        /\ committed(sys.real.instance, sys.real.witness)
        /\ committed(sys.folded.instance, sys.folded.witness)

\* The verifier, with its own R1CS, accepts the proof.
AcceptedProof(sys, r1cs, proof, ch) ==
    /\ RealInstance(r1cs, proof, sys.input) = sys.real.instance
    /\ BlindFoldVerify(r1cs, proof, sys.input, ch) = "Ok"

AcceptedUnder(sys, ch) ==
    AcceptedProof(sys, sys.theirs, BlindFoldProve(sys.r1cs, sys.real, sys.z, ch), ch)

Accepted(sys, ry) == AcceptedUnder(sys, [sys.ch EXCEPT !.ry = ry])

=============================================================================
