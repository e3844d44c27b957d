------------------------------ MODULE Sumchecks ------------------------------
(***************************************************************************)
(* What the sumchecks of a Jolt proof have in common.                      *)
(*                                                                         *)
(* Field elements are left out.  What is kept of a sumcheck is which       *)
(* challenges bind which variables, which claims it takes, at which points *)
(* it assumes them, and which claims it leaves behind.  A point is the     *)
(* sequence of its coordinates, highest variable first (BIG_ENDIAN), and a *)
(* coordinate is a challenge, named by the batch and the round it is drawn *)
(* in.  A polynomial's claim is what the prover really evaluated: the      *)
(* polynomial, and the point its variables were bound to.                  *)
(*                                                                         *)
(* A sumcheck instance is a record:                                        *)
(*   rounds         num_rounds                                             *)
(*   offset         round_offset, a function of the batch's rounds         *)
(*   uses           claims of its input claim, each with the point that    *)
(*                  the instance's eq polynomial has for it                *)
(*   ok             the assertions of its constructor                      *)
(*   prover         what the prover's cache_openings appends, by the       *)
(*                  challenges of its own rounds                           *)
(*   verifier       what the verifier's cache_openings appends             *)
(*   pre, dummies, scale, final   powers of two: see Balanced              *)
(***************************************************************************)
EXTENDS Integers, Sequences, SequencesExt, FiniteSetsExt

CONSTANTS
    LogKChunk,          \* log_k_chunk
    LOG_K,              \* address bits of an instruction lookup
    LogKVirtualChunk,   \* lookups_ra_virtual_log_k_chunk
    LogRegisters,       \* log_2 of REGISTER_COUNT
    NumLookupTables,    \* number of lookup tables
    OpeningIds          \* the opening ids of a proof

\* OneHotConfig::validate.
ASSUME OneHotAssumption ==
    /\ LogKChunk \in Nat \ {0}
    /\ LogKVirtualChunk \in Nat \ {0} /\ LogKVirtualChunk % LogKChunk = 0
    /\ LOG_K \in Nat \ {0} /\ LOG_K % LogKVirtualChunk = 0
    /\ LogRegisters \in Nat \ {0}
    /\ NumLookupTables \in Nat \ {0}

Coordinate == Nat \X Nat
Points == Seq(Coordinate)

\* The coordinate that pads an address to whole chunks.
ZeroCoordinate == <<0, 0>>

----------------------------------------------------------------------------
(* Polynomials and opening ids. *)

Virt(name) == <<"virtual", name, 0>>
VirtAt(name, i) == <<"virtual", name, i>>
OpFlag(name) == <<"op_flag", name, 0>>
InstrFlag(name) == <<"instruction_flag", name, 0>>
Comm(name) == <<"committed", name, 0>>
CommAt(name, i) == <<"committed", name, i>>
Advice(kind) == <<"advice", kind, 0>>

\* ALL_R1CS_INPUTS.
R1CSInputs ==
    << Virt("LeftInstructionInput"), Virt("RightInstructionInput"), Virt("Product"),
       Virt("ShouldBranch"), Virt("PC"), Virt("UnexpandedPC"), Virt("Imm"),
       Virt("RamAddress"), Virt("Rs1Value"), Virt("Rs2Value"), Virt("RdWriteValue"),
       Virt("RamReadValue"), Virt("RamWriteValue"), Virt("LeftLookupOperand"),
       Virt("RightLookupOperand"), Virt("NextUnexpandedPC"), Virt("NextPC"),
       Virt("NextIsVirtual"), Virt("NextIsFirstInSequence"), Virt("LookupOutput"),
       Virt("ShouldJump"), OpFlag("AddOperands"), OpFlag("SubtractOperands"),
       OpFlag("MultiplyOperands"), OpFlag("Load"), OpFlag("Store"), OpFlag("Jump"),
       OpFlag("WriteLookupOutputToRD"), OpFlag("VirtualInstruction"), OpFlag("Assert"),
       OpFlag("DoNotUpdateUnexpandedPC"), OpFlag("Advice"), OpFlag("IsCompressed"),
       OpFlag("IsFirstInSequence"), OpFlag("IsLastInSequence") >>

\* PRODUCT_UNIQUE_FACTOR_VIRTUALS.
ProductFactors ==
    << Virt("LeftInstructionInput"), Virt("RightInstructionInput"), OpFlag("Jump"),
       OpFlag("WriteLookupOutputToRD"), Virt("LookupOutput"), InstrFlag("Branch"),
       Virt("NextIsNoop"), OpFlag("VirtualInstruction") >>

CircuitFlags == {p \in Range(R1CSInputs) : p[1] = "op_flag"}

\* OneHotParams::from_config.
InstructionD == LOG_K \div LogKChunk
VirtualD == LOG_K \div LogKVirtualChunk
ChunksOf(log_K) == (log_K + LogKChunk - 1) \div LogKChunk

\* The one-hot polynomials of a proof, in the order of the unified polynomials.
RaPolynomials(c) ==
    [i \in 1 .. InstructionD |-> CommAt("InstructionRa", i)]
    \o [i \in 1 .. ChunksOf(c.bytecode_log_K) |-> CommAt("BytecodeRa", i)]
    \o [i \in 1 .. ChunksOf(c.ram_log_K) |-> CommAt("RamRa", i)]

\* OpeningId: a polynomial and the sumcheck (SumcheckId) that opened it.
At(poly, sumcheck) == [poly |-> poly, sumcheck |-> sumcheck]
PolynomialOf(k) == k.poly
IdsAt(polys, sumcheck) == {At(p, sumcheck) : p \in polys}

\* What the accumulators of opening_proof.rs are used with.
Claims == (STRING \X STRING \X Nat) \X Points
ZeroClaim == << <<"", "", 0>>, <<>> >>

Acc == INSTANCE OpeningAccumulator WITH
           Key <- OpeningIds, PolyOf <- PolynomialOf, Point <- Points, NoPoint <- <<>>,
           Claim <- Claims, Zero <- ZeroClaim

\* get_*_opening panics on a key that is not there.
Has(acc, k) == Acc!Resolve(acc, k) \in DOMAIN acc.openings
PointOf(acc, k) == IF Has(acc, k) THEN Acc!Opening(acc, k).point ELSE <<>>
ClaimOf(acc, k) == IF Has(acc, k) THEN Acc!Opening(acc, k).claim ELSE ZeroClaim

----------------------------------------------------------------------------
(* Points. *)

First(s, n) == SubSeq(s, 1, Min({n, Len(s)}))
From(s, n) == SubSeq(s, n + 1, Len(s))
LastOf(s, n) == From(s, Max({0, Len(s) - n}))

\* OneHotParams::compute_r_address_chunks: zeros in front fill the first chunk.
AddressChunks(r_address) ==
    LET over == Len(r_address) % LogKChunk
        padded == IF over = 0 THEN r_address
                  ELSE [i \in 1 .. LogKChunk - over |-> ZeroCoordinate] \o r_address
    IN  [i \in 1 .. Len(padded) \div LogKChunk |->
            SubSeq(padded, (i - 1) * LogKChunk + 1, i * LogKChunk)]

\* Variables hi, hi - 1, .., lo + 1: bound low to high (BindingOrder::LowToHigh),
\* variable 1 being the highest.
Down(hi, lo) == [j \in 1 .. hi - lo |-> hi + 1 - j]

\* The point a polynomial is bound to when its variables are bound in this order.
Bound(order, r) ==
    [v \in 1 .. Len(order) |-> r[CHOOSE j \in DOMAIN order : order[j] = v]]
LowToHigh(r) == Bound(Down(Len(r), 0), r)

\* The challenges of the rounds that are not dummy rounds.
Without(r, dummies) ==
    LET kept[n \in 0 .. Len(r)] ==
            IF n = 0 THEN <<>>
            ELSE IF n \in dummies THEN kept[n - 1] ELSE Append(kept[n - 1], r[n])
    IN  kept[Len(r)]

----------------------------------------------------------------------------
(* Instances. *)

\* A claim of a polynomial at a point, as an instance assumes it.
Use(k, point) == [key |-> k, point |-> point]
Uses(keys, point) == {Use(k, point) : k \in keys}

\* What cache_openings appends: the prover has the value the polynomial has where
\* it was bound, the verifier has the point alone.
Opened(k, point, bound) == [key |-> k, point |-> point, claim |-> <<k.poly, bound>>]
OpenedEach(polys, sumcheck, point, bound) ==
    [i \in DOMAIN polys |-> Opened(At(polys[i], sumcheck), point, bound)]
Expect(k, point) == [key |-> k, point |-> point]
ExpectEach(polys, sumcheck, point) ==
    [i \in DOMAIN polys |-> Expect(At(polys[i], sumcheck), point)]

\* A mutant: every instance starts at the first round.
OffsetZero(rounds) == [max \in Nat |-> 0]

\* round_offset, unless an instance overrides it: the last rounds of the batch.
RoundOffset(rounds) == [max \in Nat |-> max - rounds]

\* An instance without dummy rounds or powers of two of its own.
Instance(rounds, uses, Prover(_), Verifier(_)) ==
    [rounds |-> rounds, offset |-> RoundOffset(rounds), uses |-> uses, ok |-> TRUE,
     prover |-> [r \in Points |-> Prover(r)], verifier |-> [r \in Points |-> Verifier(r)],
     pre |-> 0, dummies |-> {}, scale |-> [j \in Nat |-> 0], final |-> 0]

\* The rounds of a batch, and an instance's own challenges among the batch's.
MaxRounds(batch) == Max({batch[i].rounds : i \in DOMAIN batch})
Slice(instance, r) ==
    LET offset == instance.offset[Len(r)]
    IN  SubSeq(r, offset + 1, offset + instance.rounds)

\* BatchedSumcheck multiplies an instance's input claim by 2^(max - rounds) and
\* halves its claim in every round the instance is not active in.  The instance
\* itself may multiply the input claim by 2^pre, send the halved claim in rounds
\* of its own (dummies), and multiply its message in round j by 2^scale[j].  Its
\* messages add up to the claim they follow, and the verifier's expected output
\* claim, which has the factor 2^final, to the last one, when the powers agree.
Balanced(instance, max) ==
    LET offset == instance.offset[max]
        before(j) == instance.pre + (max - instance.rounds) - offset
                       - Cardinality({i \in instance.dummies : i < j})
        after == max - offset - instance.rounds
    IN  /\ \A j \in (1 .. instance.rounds) \ instance.dummies :
              instance.scale[j] = before(j)
        /\ instance.final = before(instance.rounds + 1) - after

=============================================================================
