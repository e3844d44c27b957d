-------------------------- MODULE InstructionProof --------------------------
(***************************************************************************)
(* A traced cycle and the proof of its lookup: the witness of the cycle    *)
(* gives the read-RAF sumcheck its table, index and input claim.  A proof  *)
(* depends on the lookup alone, so the trace is forgotten when it begins.  *)
(***************************************************************************)
EXTENDS InstructionTrace, TablePolynomials

-----------------------------------------------------------------------------
(***************************************************************************)
(* The address rounds of the instruction read-RAF sumcheck, for the        *)
(* contribution of one cycle (instruction_lookups/read_raf_checking.rs     *)
(* with poly/prefix_suffix.rs and poly/identity_poly.rs).  Every message   *)
(* of the prover is a sum over the cycles, so the cycles are checked one   *)
(* by one.  The sumcheck proves that the lookup output and the lookup      *)
(* operands of the cycle are the entry of its table at its index and the   *)
(* parts of that index.                                                    *)
(*                                                                         *)
(* The index variables are bound from the most significant one, in phases  *)
(* of LogM rounds.  Within a phase the prover has arrays over the chunk of *)
(* the index the phase binds; of the arrays that accumulate the cycles,    *)
(* this cycle fills one entry, and `entry` is the factor that binding has  *)
(* put on it.                                                              *)
(***************************************************************************)

CONSTANTS
    Phases,      \* the numbers of phases of the prover's configuration
    Challenges,  \* the verifier's challenges, one for each round
    Gamma,       \* the challenge that batches the table with the operands
    EqCycle      \* eq(r_reduction, j) of the cycle

VARIABLES
    lookup,    \* the cycle: table, index bits, whether operands are interleaved
    phases,    \* params.phases
    point,     \* r: the challenges so far
    uEval,     \* u_evals of the cycle
    tables,    \* v: of each phase's expanding table, the entry of the cycle
    entry,     \* see above
    prefixes,  \* prefix_checkpoints
    registry,  \* PrefixRegistry::checkpoints
    message,   \* the last message: its values at 0 and at 2
    claim,     \* previous_claim
    combined   \* combined_val_polynomial at the cycle, None before the last round

proofVars ==
    <<lookup, phases, point, uEval, tables, entry, prefixes, registry, message, claim,
      combined>>

\* Before a proof begins.
NoLookup == [index |-> <<>>]

Proving == lookup # NoLookup

Sides == {"Left", "Right", "Identity"}

LogM == LOG_K \div phases

Phase == Len(point) \div LogM

SuffixLen == LOG_K - (Phase + 1) * LogM

\* The index around the variable of this round: its bit, the bits of the chunk
\* after it and the bits after the chunk.
Bound == lookup.index[Len(point) + 1]

ChunkRest == SubSeq(lookup.index, Len(point) + 2, LOG_K - SuffixLen)

SuffixBits == LowBits(lookup.index, SuffixLen)

HasTable == lookup.table.name # "None"

-----------------------------------------------------------------------------
\* The messages.  A polynomial of the round is the product of a prefix, the
\* same for all cycles and evaluated at c, and the entry of this cycle.

\* init_suffix_polys and the binding of its arrays.
SuffixEval(s) == uEval ** entry ** SuffixMle(s, SuffixBits)

ReadChecking(c) ==
    LET rX == IF Len(point) % 2 = 1 THEN point[Len(point)] ELSE None
        q  == Query(rX, c, ChunkRest, Len(point))
    IN IF HasTable
       THEN Combine(lookup.table, [p \in PrefixNames |-> PrefixMle(p, prefixes, q)],
                    [s \in SuffixNames |-> SuffixEval(s)])
       ELSE 0

\* The part of an index, or of a point, that is the operand.
OperandOf(side, b) ==
    CASE side = "Left" -> LeftBits(b) [] side = "Right" -> RightBits(b) [] side = "Identity" -> b

\* prefix_polynomial on the challenges of this phase, c and the rest of the chunk.
RafPrefix(side, chunk) ==
    LET operand == OperandOf(side, chunk)
    IN OrZero(registry[side]) ** TwoTo[Len(operand)] ++ FieldValue(operand)

\* init_Q_raf: the suffixes are a shift and the operand itself.
RafTerm(side, c) ==
    LET suffix == OperandOf(side, SuffixBits)
        chunk  == SubSeq(point, Phase * LogM + 1, Len(point)) \o <<c>> \o ChunkRest
    IN uEval ** entry ** (RafPrefix(side, chunk) ** TwoTo[Len(suffix)] ++ FieldValue(suffix))

Raf(c) ==
    IF lookup.interleaved
    THEN Gamma ** RafTerm("Left", c) ++ Gamma ** Gamma ** RafTerm("Right", c)
    ELSE Gamma ** Gamma ** RafTerm("Identity", c)

\* The sum over the chunk at 0 and at 2.  The entry of the cycle is in the half
\* of the arrays that its bit selects, and at 2 an array is 2 * right - left.
EvalAtZero == IF Bound = 0 THEN ReadChecking(0) ++ Raf(0) ELSE 0

EvalAtTwo ==
    LET product == ReadChecking(2) ++ Raf(2)
    IN IF Bound = 0 THEN 0 -- product ELSE product ++ product

\* UniPoly::from_evals_and_hint and its value at x.
TwoInv == (FieldSize + 1) \div 2

FromEvalsAndHint(hint, e0, e2, x) ==
    LET e1 == hint -- e0
        c2 == ((e0 -- e1 -- e1) ++ e2) ** TwoInv
        c1 == e1 -- e0 -- c2
    IN e0 ++ x ** (c1 ++ x ** c2)

-----------------------------------------------------------------------------
\* InstructionReadRafSumcheckProver::initialize.
Initialize(cycleLookup, inputClaim, n) ==
    /\ lookup' = cycleLookup
    /\ phases' = n
    /\ point' = <<>>
    /\ uEval' = EqCycle
    /\ tables' = <<1>>
    /\ entry' = 1
    /\ prefixes' = NoCheckpoints
    /\ registry' = [side \in Sides |-> None]
    /\ message' = <<>>
    /\ claim' = inputClaim
    /\ combined' = None

\* A mutant: the handoff reads the operands before the registry is updated.
CombinedValEarly(checkpoints, reg) ==
    (IF HasTable
     THEN Combine(lookup.table, [p \in PrefixNames |-> Unwrap(checkpoints[p])],
                  [s \in SuffixNames |-> SuffixMle(s, <<>>)])
     ELSE 0)
    ++ (IF lookup.interleaved
        THEN Gamma ** registry["Left"] ++ Gamma ** Gamma ** registry["Right"]
        ELSE Gamma ** Gamma ** registry["Identity"])

\* init_log_t_rounds: every suffix is evaluated on the empty bit string.
CombinedVal(checkpoints, reg) ==
    (IF HasTable
     THEN Combine(lookup.table, [p \in PrefixNames |-> Unwrap(checkpoints[p])],
                  [s \in SuffixNames |-> SuffixMle(s, <<>>)])
     ELSE 0)
    ++ (IF lookup.interleaved
        THEN Gamma ** Unwrap(reg["Left"]) ++ Gamma ** Gamma ** Unwrap(reg["Right"])
        ELSE Gamma ** Gamma ** Unwrap(reg["Identity"]))

\* compute_message, the check of the verifier and ingest_challenge of one round.
AddressRound ==
    LET round     == Len(point)
        r         == Challenges[round + 1]
        factor    == IF Bound = 0 THEN 1 -- r ELSE r
        table     == tables[Phase + 1] ** factor
        lastRound == (round + 1) % LogM = 0
        chunk     == SubSeq(point, Phase * LogM + 1, round) \o <<r>>
    IN /\ Proving
       /\ round < LOG_K
       /\ message' = <<EvalAtZero, EvalAtTwo>>
       /\ claim' = FromEvalsAndHint(claim, message'[1], message'[2], r)
       /\ point' = Append(point, r)
       /\ prefixes' = IF round % 2 = 1
                      THEN UpdateCheckpoints(prefixes, point[round], r, round, SuffixLen)
                      ELSE prefixes
       /\ registry' = IF lastRound THEN [side \in Sides |-> RafPrefix(side, chunk)] ELSE registry
       /\ IF lastRound /\ Phase # phases - 1
          THEN /\ uEval' = uEval ** table
               /\ tables' = [tables EXCEPT ![Phase + 1] = table] \o <<1>>
               /\ entry' = 1
          ELSE /\ UNCHANGED uEval
               /\ tables' = [tables EXCEPT ![Phase + 1] = table]
               /\ entry' = entry ** factor
       /\ combined' = IF round + 1 = LOG_K THEN CombinedVal(prefixes', registry') ELSE None
       /\ UNCHANGED <<lookup, phases>>

\* The product of the claims InstructionRa that cache_openings publishes.
RaClaim == ProductOf(1, Len(tables), LAMBDA i : tables[i])

-----------------------------------------------------------------------------
\* The verifier.

\* OperandPolynomial::evaluate and IdentityPolynomial::evaluate.
OperandMle(side, r) == FieldValue(OperandOf(side, r))

\* The factor of expected_output_claim that depends on the address alone.
ValClaim(r) ==
    LET rafClaim == IF lookup.interleaved
                    THEN OperandMle("Left", r) ++ Gamma ** OperandMle("Right", r)
                    ELSE Gamma ** OperandMle("Identity", r)
    IN (IF HasTable THEN TableMle(lookup.table, r) ELSE 0) ++ Gamma ** rafClaim

ExpectedOutputClaim == EqCycle ** RaClaim ** ValClaim(point)

-----------------------------------------------------------------------------
\* eq of the index of the cycle and a point that has as many variables.
EqIndex(r) == ProductOf(1, Len(r), LAMBDA i : EqOf(r[i], lookup.index[i]))

\* The table entry that the prefix ChangeDivisorW leaves out of the rounds of
\* the upper halves: the most negative word by -1.
OverflowingWordDivision ==
    /\ lookup.table.name = "VirtualChangeDivisorW"
    /\ SignedBits(Value(LeftBits(lookup.index)), WordLen) = -(2^(WordLen - 1))
    /\ SignedBits(Value(RightBits(lookup.index)), WordLen) = -1

\* Each message of the prover is the polynomial of the statement: at 0 and at 2
\* it is the eq of the index at the point bound so far times the table and the
\* operands as the verifier evaluates them.  The prefixes, their checkpoints,
\* the suffixes, the shifts of the operands and the condensed weights agree
\* with the multilinear extension in every round of every phase, with one
\* exception: the overflowing division of words, in the first XLEN rounds.
RoundsMatchTables ==
    LET round == Len(point) - 1
        at(c) == LET bound == Append(SubSeq(point, 1, round), c)
                     rest  == SubSeq(lookup.index, round + 2, LOG_K)
                 IN EqCycle ** EqIndex(bound) ** ValClaim(bound \o rest)
    IN message # <<>> => message = <<at(0), at(2)>> \/ (round < XLEN /\ OverflowingWordDivision)

\* After the address rounds the polynomials the prover hands to the cycle rounds
\* are those of the verifier's address point, and the running claim, which began
\* as the lookup output and operands of the cycle, is what the verifier expects:
\* an honest proof is accepted, but for the overflowing division of words.
HonestAccepted ==
    (Proving /\ Len(point) = LOG_K) =>
        /\ combined = ValClaim(point)
        /\ RaClaim = EqIndex(point)
        /\ claim = ExpectedOutputClaim <=> ~OverflowingWordDivision

-----------------------------------------------------------------------------
(* The proof after the trace. *)

CONSTANT Sample   \* the words of the lookup indexes whose proofs are followed

allVars == <<vars, proofVars>>

\* LookupQuery::to_lookup_index, as two words and as bits.
IndexWords(l) ==
    LET operand == RightLookupOperand(l)
    IN IF Interleaved(l) THEN <<l.left, operand[2]>> ELSE operand

LookupIndex(l) ==
    LET high == BitsOf(IndexWords(l)[1], XLEN)
        low  == BitsOf(IndexWords(l)[2], XLEN)
    IN IF Interleaved(l) THEN Interleave(high, low) ELSE high \o low

\* The XORROT tables are one for each rotation.
TableOf(cy, l) ==
    LET names == CASE l.table = "VirtualXORROT" -> {"XorRot16", "XorRot24", "XorRot32", "XorRot63"}
                   [] l.table = "VirtualXORROTW" ->
                        {"XorRotW16", "XorRotW12", "XorRotW8", "XorRotW7"}
                   [] OTHER -> {}
    IN [name |-> l.table,
        rot  |-> IF names = {} THEN "none" ELSE CHOOSE n \in names : RotationOf[n] = cy.i.imm]

\* input_claim: the lookup output and the operands of the witness.
InputClaim(l) ==
    LET operand == RightLookupOperand(l)
        right   == operand[1] ** TwoTo[XLEN] ++ operand[2]
    IN EqCycle ** (l.output ++ Gamma ** LeftLookupOperand(l) ++ Gamma ** Gamma ** right)

ProveLookup ==
    /\ honest
    /\ status # "rejected"
    /\ cycle # NoCycle
    /\ LET l == LookupOf(cycle)
       IN /\ IndexWords(l)[1] \in Sample
          /\ IndexWords(l)[2] \in Sample
          /\ \E n \in Phases :
                Initialize([table |-> TableOf(cycle, l), index |-> LookupIndex(l),
                            interleaved |-> Interleaved(l)],
                           InputClaim(l), n)
    /\ status' = "proving"
    /\ honest' = TRUE
    /\ next' = 1
    /\ sequence' = <<>>
    /\ instr' = "none"
    /\ machine' = "none"
    /\ start' = "none"
    /\ cycle' = NoCycle

ProofInit ==
    /\ Init
    /\ lookup = NoLookup
    /\ phases = 0
    /\ point = <<>>
    /\ uEval = 0
    /\ tables = <<>>
    /\ entry = 0
    /\ prefixes = <<>>
    /\ registry = <<>>
    /\ message = <<>>
    /\ claim = 0
    /\ combined = None

ProofNext ==
    \/ Next /\ UNCHANGED proofVars
    \/ ProveLookup
    \/ AddressRound /\ UNCHANGED vars

ProofSpec == ProofInit /\ [][ProofNext]_allVars

=============================================================================
