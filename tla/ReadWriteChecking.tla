------------------------- MODULE ReadWriteChecking -------------------------
(***************************************************************************)
(* The read-write checking sumchecks of RAM and of the registers, and the  *)
(* sparse matrices they have in common.                                    *)
(***************************************************************************)
EXTENDS RoundPolynomials, FiniteSets, FiniteSetsExt

(***************************************************************************)
(* The sparse matrices of the read-write checking sumchecks                *)
(* (subprotocols/read_write_matrix): the entries of ra, wa and Val at the  *)
(* cells <<row, column>> (cycle, address) that are accessed.  While cycle  *)
(* variables are bound the matrix is cycle-major, then address-major; at   *)
(* the end it is written out.  What a missing cell holds is implied by its *)
(* neighbours.  The matrix of the registers keeps ra and wa as indices     *)
(* into a table of coefficients until the table is full.                   *)
(***************************************************************************)

CONSTANTS
    ParThreshold,    \* entries of two columns from which the work is split, 32768 in the code
    MaxTableSize     \* MAX_LOOKUP_TABLE_SIZE, 2^16 in the code

ASSUME ThresholdAssumption == ParThreshold \in Nat \ {0, 1}
ASSUME TableAssumption == MaxTableSize \in Nat \ {0}

SumOver(S, term(_)) == MapThenSumSet(term, S) % FieldSize

\* One cell.  prev and next are the values before and after the cell's cycles.
Cell(ra, wa, val, prev, next) == [ra |-> ra, wa |-> wa, val |-> val, prev |-> prev, next |-> next]

\* The cell that a missing one stands for.
Untouched(value) == Cell(0, 0, value, value, value)

-----------------------------------------------------------------------------
\* OneHotCoeffLookupTable.  No table (<<>>): the coefficient is a field element.

TableBind(table, r) ==
    LET n == Len(table)
    IN Vec(n * n, LAMBDA i : Line(At(table, i % n), At(table, i \div n), r))

Saturated(table) == Len(table) >= MaxTableSize

\* OneHotCoeff::to_field and bind; the coefficient of a missing cell is 0.
ToField(coeff, table) == IF table = <<>> THEN coeff ELSE At(table, coeff)

CoeffBind(even, odd, r, table) ==
    IF table = <<>> THEN Line(even, odd, r) ELSE odd * Len(table) + even

\* OneHotCoeff::evals: at 0, and the slope.
CoeffEvals(even, odd, table) ==
    <<ToField(even, table), ToField(odd, table) -- ToField(even, table)>>

-----------------------------------------------------------------------------
\* Cycle-major: the two cells that the next cycle variable joins.

EvenRow(m, row, col) ==
    IF <<2 * row, col>> \in DOMAIN m.entries THEN m.entries[<<2 * row, col>>]
    ELSE Untouched(m.entries[<<2 * row + 1, col>>].prev)

OddRow(m, row, col) ==
    IF <<2 * row + 1, col>> \in DOMAIN m.entries THEN m.entries[<<2 * row + 1, col>>]
    ELSE Untouched(m.entries[<<2 * row, col>>].next)

RowPairs(m) == {<<cell[1] \div 2, cell[2]>> : cell \in DOMAIN m.entries}

\* bind_entries; Val is a field element, prev and next are memory words.
BindRows(m, even, odd, r) ==
    Cell(CoeffBind(even.ra, odd.ra, r, m.raTable), CoeffBind(even.wa, odd.wa, r, m.waTable),
         Line(even.val, odd.val, r), even.prev, odd.next)

GrowTable(table, r) == IF table = <<>> \/ Saturated(table) THEN table ELSE TableBind(table, r)

\* ReadWriteMatrixCycleMajor::bind.
CycleMajorBind(m, r) ==
    [m EXCEPT !.entries = [p \in RowPairs(m) |->
                              BindRows(m, EvenRow(m, p[1], p[2]), OddRow(m, p[1], p[2]), r)],
              !.raTable = GrowTable(@, r),
              !.waTable = GrowTable(@, r)]

\* deref_coeffs.
DerefCoeffs(m) ==
    [m EXCEPT !.entries = [cell \in DOMAIN @ |->
                              [@[cell] EXCEPT !.ra = ToField(@, m.raTable), !.wa = ToField(@, m.waTable)]],
              !.raTable = <<>>,
              !.waTable = <<>>]

-----------------------------------------------------------------------------
\* Address-major.  to_address_major: the coefficients are field elements.
AddressMajor(m) == [entries |-> DerefCoeffs(m).entries, init |-> m.init]

Column(m, col) ==
    LET rows == {cell[1] : cell \in {c \in DOMAIN m.entries : c[2] = col}}
    IN [row \in rows |-> m.entries[<<row, col>>]]

ColumnPairsOf(m) == {cell[2] \div 2 : cell \in DOMAIN m.entries}

\* The value of a column before this row: a checkpoint.
ValueBefore(column, row, checkpoint) ==
    LET earlier == {i \in DOMAIN column : i < row}
    IN IF earlier = {} THEN checkpoint ELSE column[Max(earlier)].next

\* seq_bind_cols: every row of the two columns, with both its cells.
SeqMerge(even, odd, evenCheckpoint, oddCheckpoint) ==
    {[row  |-> row,
      even |-> IF row \in DOMAIN even THEN even[row]
               ELSE Untouched(ValueBefore(even, row, evenCheckpoint)),
      odd  |-> IF row \in DOMAIN odd THEN odd[row]
               ELSE Untouched(ValueBefore(odd, row, oddCheckpoint))] :
        row \in DOMAIN even \cup DOMAIN odd}

\* A mutant: the checkpoint of the later part is that of the whole column.
CheckpointOfColumn(column, pivot, checkpoint) == checkpoint

\* The checkpoint of the later part of a column that is split before the pivot.
CheckpointAt(column, pivot, checkpoint) ==
    LET earlier == {i \in DOMAIN column : i < pivot}
    IN CASE DOMAIN column = {} -> checkpoint
         [] DOMAIN column # {} /\ earlier # {} -> column[Max(earlier)].next
         [] OTHER -> column[Min(DOMAIN column)].prev

Pivot(even, odd) ==
    LET longer == IF Cardinality(DOMAIN even) > Cardinality(DOMAIN odd) THEN DOMAIN even ELSE DOMAIN odd
    IN CHOOSE row \in longer : Cardinality({i \in longer : i < row}) = Cardinality(longer) \div 2

PartOf(column, rows) == [row \in DOMAIN column \cap rows |-> column[row]]

\* bind_cols: the same, split at the middle of the longer column.
RECURSIVE MergeColumns(_, _, _, _)
MergeColumns(even, odd, evenCheckpoint, oddCheckpoint) ==
    IF Cardinality(DOMAIN even) + Cardinality(DOMAIN odd) <= ParThreshold
    THEN SeqMerge(even, odd, evenCheckpoint, oddCheckpoint)
    ELSE LET pivot  == Pivot(even, odd)
             rows   == DOMAIN even \cup DOMAIN odd
             before == {row \in rows : row < pivot}
         IN MergeColumns(PartOf(even, before), PartOf(odd, before), evenCheckpoint, oddCheckpoint)
            \cup MergeColumns(PartOf(even, rows \ before), PartOf(odd, rows \ before),
                              CheckpointAt(even, pivot, evenCheckpoint),
                              CheckpointAt(odd, pivot, oddCheckpoint))

MergePair(m, pair) ==
    MergeColumns(Column(m, 2 * pair), Column(m, 2 * pair + 1), At(m.init, 2 * pair), At(m.init, 2 * pair + 1))

\* bind_entries of the address-major entries.
BindCells(even, odd, r) ==
    Cell(Line(even.ra, odd.ra, r), Line(even.wa, odd.wa, r), Line(even.val, odd.val, r),
         Line(even.prev, odd.prev, r), Line(even.next, odd.next, r))

\* ReadWriteMatrixAddressMajor::bind.
AddressMajorBind(m, r) ==
    LET merged == [pair \in ColumnPairsOf(m) |-> MergePair(m, pair)]
        cells  == UNION {{<<both.row, pair>> : both \in merged[pair]} : pair \in DOMAIN merged}
        joined(cell) == CHOOSE both \in merged[cell[2]] : both.row = cell[1]
    IN [entries |-> [cell \in cells |-> BindCells(joined(cell).even, joined(cell).odd, r)],
        init |-> BoundBot(m.init, r)]

-----------------------------------------------------------------------------
\* materialize: cell <<row, col>> is at col * rows + row.
MaterializeField(m, cols, rows, field) ==
    Vec(cols * rows, LAMBDA i :
        LET cell == <<i % rows, i \div rows>>
        IN IF cell \in DOMAIN m.entries THEN m.entries[cell][field] ELSE 0)

\* Val of the address-major matrix: a column without entries is left 0.
MaterializeVal(m, cols, rows, init) ==
    Vec(cols * rows, LAMBDA i :
        LET row == i % rows
            col == i \div rows
            column == Column(m, col)
        IN CASE DOMAIN column = {} -> 0
             [] row \in DOMAIN column -> column[row].val
             [] OTHER -> ValueBefore(column, row, At(init, col)))

-----------------------------------------------------------------------------
(***************************************************************************)
(* The RAM read-write checking sumcheck (zkvm/ram/read_write_checking.rs,  *)
(* read_write_matrix/ram.rs):                                              *)
(*   sum over k, j of eq(r_cycle, j) ra(k, j) (Val(k, j)                   *)
(*                            + gamma (Val(k, j) + Inc(j))).               *)
(* d is the witness and the parameters: the RAM accesses of the cycles,    *)
(* the initial memory, gamma, r_cycle and the rounds of the phases.        *)
(***************************************************************************)

Touches(access) == access.kind # "none"

\* RamCycleMajorEntry::from_cycle and ReadWriteMatrixCycleMajor::new.
RamMatrix(d) ==
    LET cycles == {j \in 0..(Len(d.ram) - 1) : Touches(At(d.ram, j))}
        access(cell) == At(d.ram, cell[1])
        init == Vec(Len(d.memory), LAMBDA k : At(d.memory, k) % FieldSize)
    IN [entries |-> [cell \in {<<j, At(d.ram, j).addr>> : j \in cycles} |->
                        Cell(1, 0, access(cell).pre, access(cell).pre, access(cell).post)],
        raTable |-> <<>>, waTable |-> <<>>, init |-> init]

\* CommittedPolynomial::RamInc: what a write adds.
RamInc(d) == Vec(Len(d.ram), LAMBDA j : At(d.ram, j).post -- At(d.ram, j).pre)

\* The term of one cell, in Val, ra and Inc.
RamTerm(d, ra, val, inc) == ra ** (val ++ d.gamma ** (inc ++ val))

\* compute_evals of the cycle-major entries: at 0, and the leading coefficient.
RamRowEvals(d, m, pair, inc0, incSlope) ==
    LET even == EvenRow(m, pair[1], pair[2])
        odd  == OddRow(m, pair[1], pair[2])
    IN <<RamTerm(d, even.ra, even.val, inc0),
         RamTerm(d, odd.ra -- even.ra, odd.val -- even.val, incSlope)>>

\* compute_evals of the address-major entries: at 0 and at 2.
RamColumnEvals(d, both, inc, eq) ==
    LET at2(f) == both.odd[f] ++ both.odd[f] -- both.even[f]
    IN <<eq ** RamTerm(d, both.even.ra, both.even.val, inc),
         eq ** RamTerm(d, at2("ra"), at2("val"), inc)>>

-----------------------------------------------------------------------------
\* initialize.
RamRwInitialize(d) ==
    LET inc == RamInc(d)
    IN IF d.phase1 > 0
       THEN [matrix |-> RamMatrix(d), gruen |-> GruenNew(d.rCycle, LowToHigh, 1), inc |-> inc,
             eq |-> <<>>, ra |-> <<>>, val |-> <<>>]
       ELSE [matrix |-> AddressMajor(RamMatrix(d)), gruen |-> <<>>, inc |-> inc,
             eq |-> Evals(d.rCycle), ra |-> <<>>, val |-> <<>>]

\* The weight of a pair of rows under the two tables of the split eq.
PairWeight(gruen, row) ==
    LET inner == EInCurrent(gruen)
    IN At(EOutCurrent(gruen), row \div Len(inner)) ** At(inner, row % Len(inner))

RamPhase1Message(d, st, claim) ==
    LET incSlope(row) == At(st.inc, 2 * row + 1) -- At(st.inc, 2 * row)
        evals(p) == RamRowEvals(d, st.matrix, p, At(st.inc, 2 * p[1]), incSlope(p[1]))
        total(i) == SumOver(RowPairs(st.matrix), LAMBDA p : PairWeight(st.gruen, p[1]) ** evals(p)[i])
    IN GruenPolyDeg3(st.gruen, total(1), total(2), claim)

RamPhase2Message(d, st, claim) ==
    LET evals(both) == RamColumnEvals(d, both, At(st.inc, both.row), At(st.eq, both.row))
        total(i) == SumOver(ColumnPairsOf(st.matrix), LAMBDA pair :
                        SumOver(MergePair(st.matrix, pair), LAMBDA both : evals(both)[i]))
    IN FromEvalsAndHint(claim, <<total(1), total(2)>>)

\* phase3_compute_message: cycle variables while there are any, then addresses.
RamPhase3Message(d, st, claim) ==
    LET rows == Len(st.inc)
        cols == Len(st.ra) \div rows
        at(z, i, x, degree) == At(SumcheckEvals(z, i, degree, LowToHigh), x)
        cycleEval(x) == SumOf(0, rows \div 2 - 1, LAMBDA j : at(st.eq, j, x, 3) **
                            SumOf(0, cols - 1, LAMBDA k :
                                RamTerm(d, at(st.ra, k * (rows \div 2) + j, x, 3),
                                        at(st.val, k * (rows \div 2) + j, x, 3), at(st.inc, j, x, 3))))
        addressEval(x) == st.eq[1] ** SumOf(0, cols \div 2 - 1, LAMBDA k :
                              RamTerm(d, at(st.ra, k, x, 2), at(st.val, k, x, 2), st.inc[1]))
    IN FromEvalsAndHint(claim, IF rows > 1 THEN Vec(3, cycleEval) ELSE Vec(2, addressEval))

RamRwMessage(d, st, round, claim) ==
    CASE round < d.phase1 -> RamPhase1Message(d, st, claim)
      [] d.phase1 <= round /\ round < d.phase1 + d.phase2 -> RamPhase2Message(d, st, claim)
      [] OTHER -> RamPhase3Message(d, st, claim)

\* materialize of the cycle-major matrix: Val of an untouched cell is the initial value.
RamMaterializeRows(st, cols, rows) ==
    LET m == st.matrix
    IN [st EXCEPT !.ra = MaterializeField(m, cols, rows, "ra"),
                  !.val = Vec(cols * rows, LAMBDA i :
                              LET cell == <<i % rows, i \div rows>>
                              IN IF cell \in DOMAIN m.entries THEN m.entries[cell].val
                                 ELSE At(m.init, i \div rows))]

RamMaterialize(st, cols, rows) ==
    [st EXCEPT !.ra = MaterializeField(st.matrix, cols, rows, "ra"),
               !.val = MaterializeVal(st.matrix, cols, rows, st.matrix.init)]

RamPhase1Bind(d, st, r, round) ==
    LET bound == [st EXCEPT !.matrix = CycleMajorBind(@, r), !.gruen = GruenBind(@, r),
                            !.inc = BoundBot(@, r)]
        merged == [bound EXCEPT !.eq = GruenMerge(bound.gruen)]
    IN CASE round < d.phase1 - 1 -> bound
         [] round = d.phase1 - 1 /\ d.phase2 > 0 -> [merged EXCEPT !.matrix = AddressMajor(@)]
         [] OTHER -> RamMaterializeRows(merged, Len(d.memory), Len(d.ram) \div 2^d.phase1)

RamPhase2Bind(d, st, r, round) ==
    LET next(bound) ==
            IF round < d.phase1 + d.phase2 - 1 THEN bound
            ELSE RamMaterialize(bound, Len(d.memory) \div 2^d.phase2, Len(d.ram) \div 2^d.phase1)
    IN next([st EXCEPT !.matrix = AddressMajorBind(@, r)])

RamPhase3Bind(st, r) ==
    LET cycleLeft == Len(st.inc) > 1
    IN [st EXCEPT !.ra = BoundBot(@, r), !.val = BoundBot(@, r),
                  !.inc = IF cycleLeft THEN BoundBot(@, r) ELSE @,
                  !.eq = IF cycleLeft THEN BoundBot(@, r) ELSE @]

RamRwIngest(d, st, r, round) ==
    CASE round < d.phase1 -> RamPhase1Bind(d, st, r, round)
      [] d.phase1 <= round /\ round < d.phase1 + d.phase2 -> RamPhase2Bind(d, st, r, round)
      [] OTHER -> RamPhase3Bind(st, r)

-----------------------------------------------------------------------------
\* normalize_opening_point: address, then cycle, both most significant first.
RamRwPoint(d, challenges) ==
    LET logT   == Len(d.rCycle)
        phase1 == Take(challenges, d.phase1)
        phase2 == SubSeq(challenges, d.phase1 + 1, d.phase1 + d.phase2)
        rest   == Drop(challenges, d.phase1 + d.phase2)
        cycle3 == Take(rest, logT - d.phase1)
        address3 == Drop(rest, logT - d.phase1)
    IN [address |-> Rev(address3) \o Rev(phase2), cycle |-> Rev(cycle3) \o Rev(phase1)]

\* cache_openings of the verifier: the polynomials opened, and where.
RamRwPoints(d, challenges) ==
    LET p == RamRwPoint(d, challenges)
    IN [RamVal |-> p.address \o p.cycle, RamRa |-> p.address \o p.cycle, RamInc |-> p.cycle]

\* cache_openings of the prover: what it claims there.
RamRwClaims(st) == [RamVal |-> st.val[1], RamRa |-> st.ra[1], RamInc |-> st.inc[1]]

\* RamRwParams::input_claim.
RamRwInputClaim(d, op) == op["RamReadValue"] ++ d.gamma ** op["RamWriteValue"]

\* expected_output_claim.
RamRwExpected(d, challenges, op) ==
    EqMle(d.rCycle, RamRwPoint(d, challenges).cycle)
    ** op["RamRa"] ** (op["RamVal"] ++ d.gamma ** (op["RamVal"] ++ op["RamInc"]))

\* output_claim_constraint on the values of output_constraint_challenge_values.
RamRwConstraint(d, challenges, op) ==
    LET eq == EqMle(d.rCycle, RamRwPoint(d, challenges).cycle)
        values == <<eq ** (1 ++ d.gamma), eq ** d.gamma>>
    IN values[1] ** op["RamRa"] ** op["RamVal"] ++ values[2] ** op["RamRa"] ** op["RamInc"]

-----------------------------------------------------------------------------
(***************************************************************************)
(* The registers read-write checking sumcheck                              *)
(* (zkvm/registers/read_write_checking.rs, read_write_matrix/registers.rs):*)
(*   sum over k, j of eq(r_cycle, j) (wa(k, j) (Val(k, j) + Inc(j))        *)
(*       + gamma rs1_ra(k, j) Val(k, j) + gamma^2 rs2_ra(k, j) Val(k, j)). *)
(* A cycle of d.registers has the registers it reads and writes, each as   *)
(* a set with at most one access.                                          *)
(***************************************************************************)

CONSTANT RegisterCount   \* K, 128 in the code

ASSUME RegisterAssumption == RegisterCount \in {2, 4, 8}

RegsOf(accesses) == {a.reg : a \in accesses}

\* fill_entries_for_cycle: the registers of a cycle.  The value is the one before
\* the cycle; rs1 and rs2 are the low and the high bit of the index of ra.
RegisterCell(c, reg) ==
    LET one(S) == CHOOSE a \in S : TRUE
        in1 == reg \in RegsOf(c.rs1)
        in2 == reg \in RegsOf(c.rs2)
        inD == reg \in RegsOf(c.rd)
        val == CASE in1 -> one(c.rs1).val
                 [] ~in1 /\ in2 -> one(c.rs2).val
                 [] OTHER -> one(c.rd).pre
    IN Cell((IF in1 THEN 1 ELSE 0) + (IF in2 THEN 2 ELSE 0), IF inD THEN 1 ELSE 0,
            val, val, IF inD THEN one(c.rd).post ELSE val)

\* ReadWriteMatrixCycleMajor::new.
RegistersMatrix(d) ==
    LET regs(j)  == LET c == At(d.registers, j) IN RegsOf(c.rs1) \cup RegsOf(c.rs2) \cup RegsOf(c.rd)
        cells    == UNION {{<<j, reg>> : reg \in regs(j)} : j \in 0..(Len(d.registers) - 1)}
        gamma2   == d.gamma ** d.gamma
    IN [entries |-> [cell \in cells |-> RegisterCell(At(d.registers, cell[1]), cell[2])],
        raTable |-> <<0, d.gamma, gamma2, d.gamma ++ gamma2>>,
        waTable |-> <<0, 1>>,
        init    |-> Zeros(RegisterCount)]

\* CommittedPolynomial::RdInc.
RdInc(d) ==
    Vec(Len(d.registers), LAMBDA j : SumOver(At(d.registers, j).rd, LAMBDA a : a.post -- a.pre))

RegTerm(ra, wa, val, inc) == ra ** val ++ wa ** (val ++ inc)

\* compute_evals of the cycle-major entries.
RegRowEvals(m, pair, inc0, incSlope) ==
    LET even == EvenRow(m, pair[1], pair[2])
        odd  == OddRow(m, pair[1], pair[2])
        ra   == CoeffEvals(even.ra, odd.ra, m.raTable)
        wa   == CoeffEvals(even.wa, odd.wa, m.waTable)
    IN <<RegTerm(ra[1], wa[1], even.val, inc0),
         RegTerm(ra[2], wa[2], odd.val -- even.val, incSlope)>>

\* compute_evals of the address-major entries.
RegColumnEvals(both, inc, eq) ==
    LET at2(f) == both.odd[f] ++ both.odd[f] -- both.even[f]
    IN <<eq ** RegTerm(both.even.ra, both.even.wa, both.even.val, inc),
         eq ** RegTerm(at2("ra"), at2("wa"), at2("val"), inc)>>

-----------------------------------------------------------------------------
RegRwInitialize(d) ==
    LET st(matrix, gruen, eq) == [matrix |-> matrix, gruen |-> gruen, inc |-> RdInc(d), eq |-> eq,
                                  ra |-> <<>>, wa |-> <<>>, val |-> <<>>]
    IN IF d.phase1 > 0 THEN st(RegistersMatrix(d), GruenNew(d.rCycle, LowToHigh, 1), <<>>)
       ELSE st(AddressMajor(RegistersMatrix(d)), <<>>, Evals(d.rCycle))

\* ReadWriteMatrixCycleMajor::compute_message.
RegPhase1Message(st, claim) ==
    LET incSlope(row) == At(st.inc, 2 * row + 1) -- At(st.inc, 2 * row)
        evals(p) == RegRowEvals(st.matrix, p, At(st.inc, 2 * p[1]), incSlope(p[1]))
        total(i) == SumOver(RowPairs(st.matrix), LAMBDA p : PairWeight(st.gruen, p[1]) ** evals(p)[i])
    IN GruenPolyDeg3(st.gruen, total(1), total(2), claim)

RegPhase2Message(st, claim) ==
    LET evals(both) == RegColumnEvals(both, At(st.inc, both.row), At(st.eq, both.row))
        total(i) == SumOver(ColumnPairsOf(st.matrix), LAMBDA pair :
                        SumOver(MergePair(st.matrix, pair), LAMBDA both : evals(both)[i]))
    IN FromEvalsAndHint(claim, <<total(1), total(2)>>)

RegPhase3Message(st, claim) ==
    LET rows == Len(st.inc)
        cols == Len(st.ra) \div rows
        at(z, i, x, degree) == At(SumcheckEvals(z, i, degree, LowToHigh), x)
        term(i, x, degree, inc) ==
            RegTerm(at(st.ra, i, x, degree), at(st.wa, i, x, degree), at(st.val, i, x, degree), inc)
        cycleEval(x) == SumOf(0, rows \div 2 - 1, LAMBDA j : at(st.eq, j, x, 3) **
                            SumOf(0, cols - 1, LAMBDA k : term(k * (rows \div 2) + j, x, 3, at(st.inc, j, x, 3))))
        addressEval(x) == st.eq[1] ** SumOf(0, cols \div 2 - 1, LAMBDA k : term(k, x, 2, st.inc[1]))
    IN FromEvalsAndHint(claim, IF rows > 1 THEN Vec(3, cycleEval) ELSE Vec(2, addressEval))

RegRwMessage(d, st, round, claim) ==
    CASE round < d.phase1 -> RegPhase1Message(st, claim)
      [] d.phase1 <= round /\ round < d.phase1 + d.phase2 -> RegPhase2Message(st, claim)
      [] OTHER -> RegPhase3Message(st, claim)

\* materialize of the cycle-major and of the address-major matrix.
RegMaterializeRows(st, cols, rows) ==
    LET m == DerefCoeffs(st.matrix)
    IN [st EXCEPT !.ra = MaterializeField(m, cols, rows, "ra"),
                  !.wa = MaterializeField(m, cols, rows, "wa"),
                  !.val = MaterializeField(m, cols, rows, "val")]

RegMaterialize(st, cols, rows) ==
    [st EXCEPT !.ra = MaterializeField(st.matrix, cols, rows, "ra"),
               !.wa = MaterializeField(st.matrix, cols, rows, "wa"),
               !.val = MaterializeVal(st.matrix, cols, rows, Zeros(cols))]

\* phase1_bind: the indices give way to coefficients once a table is full.
RegPhase1Bind(d, st, r, round) ==
    LET m == st.matrix
        full == m.raTable # <<>> /\ (Saturated(m.waTable) \/ Saturated(m.raTable))
        bound == [st EXCEPT !.matrix = CycleMajorBind(IF full THEN DerefCoeffs(m) ELSE m, r),
                            !.gruen = GruenBind(@, r),
                            !.inc = BoundBot(@, r)]
        merged == [bound EXCEPT !.eq = GruenMerge(bound.gruen)]
    IN CASE round < d.phase1 - 1 -> bound
         [] round = d.phase1 - 1 /\ d.phase2 > 0 -> [merged EXCEPT !.matrix = AddressMajor(@)]
         [] OTHER -> RegMaterializeRows(merged, RegisterCount, Len(d.registers) \div 2^d.phase1)

RegPhase2Bind(d, st, r, round) ==
    LET next(bound) ==
            IF round < d.phase1 + d.phase2 - 1 THEN bound
            ELSE RegMaterialize(bound, RegisterCount \div 2^d.phase2, Len(d.registers) \div 2^d.phase1)
    IN next([st EXCEPT !.matrix = AddressMajorBind(@, r)])

RegPhase3Bind(st, r) ==
    LET cycleLeft == Len(st.inc) > 1
    IN [st EXCEPT !.ra = BoundBot(@, r), !.wa = BoundBot(@, r), !.val = BoundBot(@, r),
                  !.inc = IF cycleLeft THEN BoundBot(@, r) ELSE @,
                  !.eq = IF cycleLeft THEN BoundBot(@, r) ELSE @]

RegRwIngest(d, st, r, round) ==
    CASE round < d.phase1 -> RegPhase1Bind(d, st, r, round)
      [] d.phase1 <= round /\ round < d.phase1 + d.phase2 -> RegPhase2Bind(d, st, r, round)
      [] OTHER -> RegPhase3Bind(st, r)

-----------------------------------------------------------------------------
\* compute_rs2_ra_claim: a split eq over the cycle and the register together.
Rs2RaClaim(d, address, cycle) ==
    LET n      == Len(cycle) + Len(address)
        hiBits == Min({Len(cycle), (n + 1) \div 2})
        joint  == cycle \o address
        eHi    == Evals(Take(joint, hiBits))
        eLo    == Evals(Drop(joint, hiBits))
        inLo   == n - hiBits - Len(address)
        size   == 2^inLo
        end(hi) == Min({(hi + 1) * size, Len(d.registers)})
        reads(j) == SumOver(At(d.registers, j).rs2, LAMBDA a :
                        At(eLo, (j % size) * 2^Len(address) + a.reg))
    IN SumOf(0, Len(eHi) - 1, LAMBDA hi :
           IF hi * size >= Len(d.registers) THEN 0
           ELSE At(eHi, hi) ** SumOf(hi * size, end(hi) - 1, reads))

\* normalize_opening_point: as for RAM.
RegRwPoint(d, challenges) == RamRwPoint(d, challenges)

RegRwPoints(d, challenges) ==
    LET p == RegRwPoint(d, challenges)
        whole == p.address \o p.cycle
    IN [RegistersVal |-> whole, Rs1Ra |-> whole, Rs2Ra |-> whole, RdWa |-> whole, RdInc |-> p.cycle]

\* cache_openings of the prover: rs1_ra from the combination and rs2_ra.
RegRwClaims(d, st, challenges) ==
    LET p == RegRwPoint(d, challenges)
        rs2 == Rs2RaClaim(d, p.address, p.cycle)
        rs1 == (st.ra[1] -- d.gamma ** d.gamma ** rs2) // d.gamma
    IN [RegistersVal |-> st.val[1], Rs1Ra |-> rs1, Rs2Ra |-> rs2, RdWa |-> st.wa[1], RdInc |-> st.inc[1]]

RegRwInputClaim(d, op) ==
    op["RdWriteValue"] ++ d.gamma ** (op["Rs1Value"] ++ d.gamma ** op["Rs2Value"])

RegRwExpected(d, challenges, op) ==
    LET rd  == op["RdWa"] ** (op["RdInc"] ++ op["RegistersVal"])
        rs1 == op["Rs1Ra"] ** op["RegistersVal"]
        rs2 == op["Rs2Ra"] ** op["RegistersVal"]
    IN EqMle(RegRwPoint(d, challenges).cycle, d.rCycle) ** (rd ++ d.gamma ** (rs1 ++ d.gamma ** rs2))

\* output_claim_constraint: four products.
RegRwConstraint(d, challenges, op) ==
    LET eq == EqMle(RegRwPoint(d, challenges).cycle, d.rCycle)
        val == op["RegistersVal"]
    IN eq ** op["RdWa"] ** op["RdInc"] ++ eq ** op["RdWa"] ** val
       ++ eq ** d.gamma ** op["Rs1Ra"] ** val ++ eq ** (d.gamma ** d.gamma) ** op["Rs2Ra"] ** val

=============================================================================
