----------------------------- MODULE ProofStages -----------------------------
(***************************************************************************)
(* A Jolt proof: JoltCpuProver::prove and JoltVerifier::verify, stage by   *)
(* stage, with an honest prover.  Both sides build the sumcheck instances  *)
(* of a stage from the claims of earlier stages, run them as one batch,    *)
(* and add the claims they leave to their accumulators; the last stage     *)
(* opens all commitments at one point.  The prover's claims say what it    *)
(* evaluated, so that a point recorded for the wrong variables, a claim    *)
(* taken at a point it was not made at, or a step of one side that the     *)
(* other does not mirror shows in the state.                               *)
(*                                                                         *)
(* Each side runs on a thread with Dory parameters of its own, and another *)
(* proof may run on the prover's thread while it waits for parallel work.  *)
(***************************************************************************)
EXTENDS AdviceReduction

CONSTANTS
    Configs,        \* program sizes, ReadWriteConfig, advice and layout of a proof
    OtherLogT,      \* log_T of another proof on the prover's thread
    MaxSteals       \* how often such a proof gets in between

\* ReadWriteConfig cannot bind more variables in a phase than there are.  A trace is
\* padded to 256 cycles or more, so that a chunk has no more variables than a cycle
\* ("ensures that T >= k^{1/D}").  An advice polynomial fits the top left block of
\* the main matrix, which its commitment's dimensions are chosen for.
FitsMatrix(c, kind) ==
    /\ AdviceCols(c, kind) <= MainCols(c)
    /\ AdviceRows(c, kind) <= Nu(LogKChunk + c.log_T)
ASSUME ConfigAssumption ==
    \A c \in Configs :
        /\ c.log_T \in Nat /\ c.ram_log_K \in Nat /\ c.bytecode_log_K \in Nat
        /\ LogKChunk <= c.log_T
        /\ c.trusted \in Nat /\ c.untrusted \in Nat /\ c.layout \in Layouts
        /\ c.p1 \in 0 .. c.log_T /\ c.p2 \in 0 .. c.ram_log_K
        /\ c.q1 \in 0 .. c.log_T /\ c.q2 \in 0 .. LogRegisters
        /\ \A kind \in AdviceKinds : FitsMatrix(c, kind)

\* An accumulator has room for every polynomial of a proof.
ASSUME OpeningIdAssumption ==
    \A c \in Configs : Polynomials(c) \subseteq {k.poly : k \in OpeningIds}

VARIABLES
    config,         \* member of Configs
    stage,          \* [prover, verifier]: what each side does next
    prover,         \* [acc, transcript, advice, ok, wrong, unbalanced, used, appended]
    verifier,       \* the same
    thread,         \* [prover, verifier]: the Dory parameters of its thread
    matrix,         \* the matrix shapes the prover worked with, by use
    stolen          \* steals so far, and one since the prover last initialized

vars == <<config, stage, prover, verifier, thread, matrix, stolen>>

----------------------------------------------------------------------------
(* A batch. *)

\* ok: no panic so far.  The last four are history: kernels that are not at the
\* point of their claim, instances whose powers of two do not agree, keys whose
\* claims went into a sumcheck or the opening, and keys appended.
NewSide ==
    [acc |-> Acc!NewAccumulator, transcript |-> <<>>, advice |-> [k \in {} |-> k], ok |-> TRUE,
     wrong |-> {}, unbalanced |-> {}, used |-> {}, appended |-> <<>>]

\* insert_or_alias_opening and populate_or_alias_opening in a row.
ProverAppend(side, o) ==
    [side EXCEPT !.ok = @ /\ Acc!MayInsert(side.acc, o.key, o.point, o.claim),
                 !.acc = Acc!InsertOrAlias(@, o.key, o.point, o.claim),
                 !.appended = Append(@, o.key)]
VerifierAppend(side, o) ==
    [side EXCEPT !.ok = @ /\ Acc!MayPopulate(side.acc, o.key, o.point),
                 !.acc = Acc!PopulateOrAlias(@, o.key, o.point),
                 !.appended = Append(@, o.key)]

\* Claim after claim.
ProverAppends(side, opened) ==
    LET after[n \in 0 .. Len(opened)] ==
            IF n = 0 THEN side ELSE ProverAppend(after[n - 1], opened[n])
    IN  after[Len(opened)]
VerifierAppends(side, expected) ==
    LET after[n \in 0 .. Len(expected)] ==
            IF n = 0 THEN side ELSE VerifierAppend(after[n - 1], expected[n])
    IN  after[Len(expected)]

Challenges(b, n) == [j \in 1 .. n |-> <<b, j>>]

\* The input claims both sides append to the transcript.
InputClaims(side, batch) ==
    [i \in DOMAIN batch |-> {ClaimOf(side.acc, u.key) : u \in batch[i].uses}]

\* flush_to_transcript.
Flush(side) ==
    [side EXCEPT !.transcript = Append(@, side.acc.pending), !.acc = Acc!Flushed(@)]

\* BatchedSumcheck::prove and verify up to cache_openings.
Start(side, b, batch) ==
    LET uses == UNION {batch[i].uses : i \in DOMAIN batch}
        max == MaxRounds(batch)
    IN  [side EXCEPT
           !.ok = /\ @
                  /\ \A i \in DOMAIN batch : batch[i].ok
                  /\ \A u \in uses : Has(side.acc, u.key),
           !.transcript = @ \o << InputClaims(side, batch), max >>,
           !.wrong = @ \cup {u.key : u \in {x \in uses : PointOf(side.acc, x.key) # x.point}},
           !.unbalanced = @ \cup {<<b, i>> : i \in {x \in DOMAIN batch : ~Balanced(batch[x], max)}},
           !.used = @ \cup {u.key : u \in uses}]

ProveBatch(side, b, batch) ==
    LET r == Challenges(b, MaxRounds(batch))
        opened == FlattenSeq([i \in DOMAIN batch |-> batch[i].prover[Slice(batch[i], r)]])
    IN  Flush(ProverAppends(Start(side, b, batch), opened))

VerifyBatch(side, b, batch) ==
    LET r == Challenges(b, MaxRounds(batch))
        expected == FlattenSeq([i \in DOMAIN batch |-> batch[i].verifier[Slice(batch[i], r)]])
    IN  Flush(VerifierAppends(Start(side, b, batch), expected))

\* The stages are the same on both sides but for these two.
Run(who, side, b, batch) ==
    IF who = "prover" THEN ProveBatch(side, b, batch) ELSE VerifyBatch(side, b, batch)
AppendAdvice(who, side, c) ==
    IF who = "prover" THEN ProverAppends(side, ProverAdvice(side.acc, c))
    ELSE VerifierAppends(side, VerifierAdvice(side.acc, c))

----------------------------------------------------------------------------
(* The stages, as both sides run them. *)

Stage1(who, side, c) ==
    LET skipped == Run(who, side, 1, <<OuterUniSkip>>)
    IN  Run(who, skipped, 2, <<OuterRemaining(skipped.acc, c)>>)

Stage2(who, side, c) ==
    LET skipped == Run(who, side, 3, <<ProductUniSkip(side.acc)>>)
        acc == skipped.acc
    IN  Run(who, skipped, 4, <<RamReadWrite(acc, c), ProductRemainder(acc, c),
                               InstructionReduction(acc, c), RamRaf(acc, c), RamOutput(c)>>)

Stage3(who, side, c) ==
    LET acc == side.acc
    IN  Run(who, side, 5, <<Shift(acc, c), InstructionInput(acc), RegistersReduction(acc, c)>>)

\* The advice's claims are appended before the batch, and go to the transcript
\* with the batch's.
Stage4(who, side, c) ==
    LET with == AppendAdvice(who, side, c)
    IN  Run(who, with, 6, <<RegistersReadWrite(side.acc, c), RamVal(with.acc, c)>>)

Stage5(who, side, c) ==
    LET acc == side.acc
    IN  Run(who, side, 7, <<InstructionReadRaf(acc, c), RamRaReduction(acc, c), RegistersVal(acc)>>)

\* Trusted advice, then untrusted.
AdviceOrder(c) == Only("trusted", c.trusted > 0) \o Only("untrusted", c.untrusted > 0)

\* The batch of stage 6, whose advice reductions take the thread's layout, and
\* what they keep for stage 7.
Stage6(who, side, c, layout) ==
    LET acc == side.acc
        kinds == AdviceOrder(c)
        params == [k \in Range(kinds) |-> AdviceParams(c, k, layout)]
        batch == <<BytecodeReadRaf(acc, c), Booleanity(acc, c), RamHamming(acc),
                   RamRaVirtual(acc, c), InstructionRaVirtual(acc), IncReduction(acc, c)>>
                 \o [i \in DOMAIN kinds |-> CyclePhase(acc, c, kinds[i], params[kinds[i]])]
        r == Challenges(8, MaxRounds(batch))
        slice(k) == Slice(CyclePhase(acc, c, k, params[k]), r)
    IN  [Run(who, side, 8, batch) EXCEPT
           !.advice = [k \in Range(kinds) |->
              [params[k] EXCEPT !.challenges = CycleVarChallenges(c, k, layout, slice(k))]]]

\* The advice with variables left after stage 6.
AddressKinds(c, advice) ==
    LET left(k) == k \in DOMAIN advice /\ AddressPhaseRounds(c, k, advice[k].layout) > 0
    IN  Only("trusted", left("trusted")) \o Only("untrusted", left("untrusted"))

Stage7(who, side, c, layout) ==
    LET kinds == AddressKinds(c, side.advice)
    IN  Run(who, side, 9, <<HammingWeight(side.acc, c)>>
                          \o [i \in DOMAIN kinds |->
                                 AddressPhase(side.acc, c, kinds[i], side.advice[kinds[i]], layout)])

\* What the commitments are opened to: the claims of stages 6 and 7.  Both sides
\* look the advice's claims up, and leave them out if they are not there.
UnifiedId == At(CommAt("InstructionRa", 1), "HammingWeightClaimReduction")
OpenedIds(side, c) ==
    <<RamInc("IncClaimReduction"), RdInc("IncClaimReduction")>>
    \o [i \in DOMAIN RaPolynomials(c) |-> At(RaPolynomials(c)[i], "HammingWeightClaimReduction")]
    \o Only(AdviceFinal("trusted"), Has(side.acc, AdviceFinal("trusted")))
    \o Only(AdviceFinal("untrusted"), Has(side.acc, AdviceFinal("untrusted")))

\* The claims, the points of the advice, which their factors depend on, and the
\* point of the opening.
Stage8(side, c) ==
    LET ids == OpenedIds(side, c)
    IN  [side EXCEPT !.ok = @ /\ \A i \in DOMAIN ids : Has(side.acc, ids[i]),
                     !.used = @ \cup Range(ids),
                     !.transcript = @ \o << [i \in DOMAIN ids |-> ClaimOf(side.acc, ids[i])],
                                            [k \in Range(KindsOf(c)) |->
                                                PointOf(side.acc, AdviceFinal(k))],
                                            PointOf(side.acc, UnifiedId) >>]

----------------------------------------------------------------------------
(* The prover. *)

Init ==
    /\ config \in Configs
    /\ stage = [prover |-> "preprocess", verifier |-> "waiting"]
    /\ prover = NewSide
    /\ verifier = NewSide
    /\ \E layout \in Layouts :
          thread = [prover |-> [NewThread EXCEPT !.layout = config.layout],
                    verifier |-> [NewThread EXCEPT !.layout = layout]]
    /\ matrix = [use \in {} |-> use]
    /\ stolen = [times |-> 0, since |-> FALSE]

\* A shape the prover reads, and whether another proof has got in between.
Read(use, t) ==
    matrix' = [u \in DOMAIN matrix \cup {use} |->
                  IF u = use THEN [shape |-> Shape(t), stolen |-> stolen.since] ELSE matrix[u]]

\* Commits to advice in its own context; the guard gives the context back.
InAdviceContext(kind) ==
    WithContext(InitializeContext(thread.prover, 0, AdviceVars(config, kind), kind, "unchanged"),
                kind)
CommitAdvice(kind) ==
    IF AdviceVars(config, kind) = 0 THEN UNCHANGED <<thread, matrix>>
    ELSE /\ Read(kind, InAdviceContext(kind))
         /\ thread' = [thread EXCEPT !.prover = Dropped(InAdviceContext(kind), @.context)]

ProverTo(from, to) ==
    /\ prover.ok
    /\ stage.prover = from
    /\ stage' = [stage EXCEPT !.prover = to]

\* commit_trusted_advice of the SDK, before the proof.
CommitTrustedAdvice ==
    /\ ProverTo("preprocess", "commit")
    /\ CommitAdvice("trusted")
    /\ UNCHANGED <<config, prover, verifier, stolen>>

\* A mutant: parameters that are there are not entered again.
InitializedOnce(t, c) ==
    IF Initialized(t) THEN t ELSE InitializeContext(t, LogKChunk, c.log_T, "Main", t.layout)

\* The main context for this proof, in the thread's layout.
Reinitialized(t, c) == InitializeContext(t, LogKChunk, c.log_T, "Main", t.layout)

\* generate_and_commit_witness_polynomials reads the shape at once; the loop that
\* commits polynomial by polynomial in the address major layout reads it again.
CommitInit ==
    /\ ProverTo("commit", "witness")
    /\ thread' = [thread EXCEPT !.prover = Reinitialized(@, config)]
    /\ matrix' = [u \in DOMAIN matrix \cup {"commit"} |->
                     IF u = "commit" THEN [shape |-> Shape(Reinitialized(thread.prover, config)),
                                           stolen |-> FALSE]
                     ELSE matrix[u]]
    /\ stolen' = [stolen EXCEPT !.since = FALSE]
    /\ UNCHANGED <<config, prover, verifier>>
CommitWitness ==
    /\ ProverTo("witness", "advice")
    /\ IF thread.prover.layout = "AddressMajor" THEN Read("commit", thread.prover)
       ELSE UNCHANGED matrix
    /\ UNCHANGED <<config, prover, verifier, thread, stolen>>

\* generate_and_commit_untrusted_advice.
CommitUntrustedAdvice ==
    /\ ProverTo("advice", "stage1")
    /\ CommitAdvice("untrusted")
    /\ UNCHANGED <<config, prover, verifier, stolen>>

ProveStage(from, to, side) ==
    /\ ProverTo(from, to)
    /\ prover' = side
    /\ UNCHANGED <<config, verifier, thread, matrix, stolen>>

ProveStage1 == ProveStage("stage1", "stage2", Stage1("prover", prover, config))
ProveStage2 == ProveStage("stage2", "stage3", Stage2("prover", prover, config))
ProveStage3 == ProveStage("stage3", "stage4", Stage3("prover", prover, config))
ProveStage4 == ProveStage("stage4", "stage5", Stage4("prover", prover, config))
ProveStage5 == ProveStage("stage5", "stage6", Stage5("prover", prover, config))
ProveStage6 ==
    ProveStage("stage6", "stage7", Stage6("prover", prover, config, thread.prover.layout))
ProveStage7 ==
    ProveStage("stage7", "stage8", Stage7("prover", prover, config, thread.prover.layout))

\* prove_stage8 sets the parameters, works on the claims, and then builds and
\* opens the joint polynomial, which asks for the parameters again.
ProveStage8 ==
    /\ ProverTo("stage8", "open")
    /\ thread' = [thread EXCEPT !.prover = Reinitialized(@, config)]
    /\ stolen' = [stolen EXCEPT !.since = FALSE]
    /\ prover' = Stage8(prover, config)
    /\ UNCHANGED <<config, verifier, matrix>>
OpenJointPolynomial ==
    /\ ProverTo("open", "done")
    /\ Read("open", thread.prover)
    /\ UNCHANGED <<config, prover, verifier, thread, stolen>>

\* A thread of the pool that waits for parallel work takes up another proof, which
\* leaves its own parameters behind.
Steal ==
    /\ stage.prover # "done"
    /\ stolen.times < MaxSteals
    /\ thread' = [thread EXCEPT
                    !.prover = InitializeContext(@, LogKChunk, OtherLogT, "Main", @.layout)]
    /\ stolen' = [times |-> stolen.times + 1, since |-> TRUE]
    /\ UNCHANGED <<config, stage, prover, verifier, matrix>>

----------------------------------------------------------------------------
(* The verifier. *)

\* The proof's claims, to which the verifier adds points as it finds them.
ProofClaims ==
    [Acc!NewAccumulator EXCEPT
       !.openings = [k \in DOMAIN prover.acc.openings |->
                        [point |-> <<>>, claim |-> prover.acc.openings[k].claim]]]
Deliver ==
    /\ stage.prover = "done"
    /\ stage.verifier = "waiting"
    /\ stage' = [stage EXCEPT !.verifier = "stage1"]
    /\ verifier' = [verifier EXCEPT !.acc = ProofClaims]
    /\ UNCHANGED <<config, prover, thread, matrix, stolen>>

VerifyStage(from, to, side) ==
    /\ verifier.ok
    /\ stage.verifier = from
    /\ stage' = [stage EXCEPT !.verifier = to]
    /\ verifier' = side
    /\ UNCHANGED <<config, prover, matrix, stolen>>

VerifyStage1 ==
    VerifyStage("stage1", "stage2", Stage1("verifier", verifier, config)) /\ UNCHANGED thread
VerifyStage2 ==
    VerifyStage("stage2", "stage3", Stage2("verifier", verifier, config)) /\ UNCHANGED thread
VerifyStage3 ==
    VerifyStage("stage3", "stage4", Stage3("verifier", verifier, config)) /\ UNCHANGED thread
VerifyStage4 ==
    VerifyStage("stage4", "stage5", Stage4("verifier", verifier, config)) /\ UNCHANGED thread
VerifyStage5 ==
    VerifyStage("stage5", "stage6", Stage5("verifier", verifier, config)) /\ UNCHANGED thread
VerifyStage6 ==
    /\ VerifyStage("stage6", "stage7", Stage6("verifier", verifier, config, thread.verifier.layout))
    /\ UNCHANGED thread
VerifyStage7 ==
    /\ VerifyStage("stage7", "stage8", Stage7("verifier", verifier, config, thread.verifier.layout))
    /\ UNCHANGED thread

\* Only now does the layout of the proof become the thread's.
VerifyStage8 ==
    /\ VerifyStage("stage8", "done", Stage8(verifier, config))
    /\ thread' = [thread EXCEPT !.verifier =
                    InitializeContext(@, LogKChunk, config.log_T, "Main", config.layout)]

Next ==
    \/ CommitTrustedAdvice \/ CommitInit \/ CommitWitness \/ CommitUntrustedAdvice
    \/ ProveStage1 \/ ProveStage2 \/ ProveStage3 \/ ProveStage4
    \/ ProveStage5 \/ ProveStage6 \/ ProveStage7 \/ ProveStage8 \/ OpenJointPolynomial
    \/ Steal \/ Deliver
    \/ VerifyStage1 \/ VerifyStage2 \/ VerifyStage3 \/ VerifyStage4
    \/ VerifyStage5 \/ VerifyStage6 \/ VerifyStage7 \/ VerifyStage8

Spec == Init /\ [][Next]_vars

----------------------------------------------------------------------------
(* Properties. *)

\* The verifier scheduled the advice as the prover did.
SameLayout ==
    \A kind \in DOMAIN verifier.advice : verifier.advice[kind].layout = config.layout

\* No assertion of a constructor or of an accumulator fails on an honest proof,
\* and no stage looks up a claim that earlier stages have not left: under every
\* ReadWriteConfig the sumchecks of stage 2 end with one address, the sumchecks
\* that read a polynomial twice read it at one point, and so on.
ProofNeverPanics == prover.ok /\ (SameLayout => verifier.ok)

\* The verifier appends to its transcript what the prover appended, and finds for
\* every claim the point the prover opened it at.
SidesAgree ==
    SameLayout =>
        /\ IsPrefix(verifier.transcript, prover.transcript)
        /\ \A k \in Range(verifier.appended) :
              PointOf(verifier.acc, k) = PointOf(prover.acc, k)

\* The same, whatever layout the verifier's thread is in: verify_stage8 takes the
\* layout from the proof so that "the verifier uses the same layout as the prover".
LayoutComesFromProof ==
    \A k \in Range(verifier.appended) : PointOf(verifier.acc, k) = PointOf(prover.acc, k)

CMids == {CMid(kind) : kind \in AdviceKinds}

\* The comparison of the prover's sort asked a thread with another layout.
SortedElsewhere(kind) == SortLayout(config, kind, config.layout) # config.layout

\* A claim is the value of its polynomial at the point recorded with it: the order
\* in which normalize_opening_point puts the challenges is the order in which the
\* prover bound the variables, also for polynomials bound in three phases, with
\* gaps, or in permuted order.
TrueOpenings ==
    \A k \in DOMAIN prover.acc.openings \ CMids :
        \/ prover.acc.openings[k].claim = <<k.poly, prover.acc.openings[k].point>>
        \/ \E kind \in Range(KindsOf(config)) : k = AdviceFinal(kind) /\ SortedElsewhere(kind)

\* A sumcheck multiplies each claim's polynomial by an eq polynomial at the point
\* of that claim, although many take one point for claims of several polynomials
\* and sumchecks.
KernelsMatch == prover.wrong = {} /\ (SameLayout => verifier.wrong = {})

\* Instances whose powers of two are known not to agree: the RAF and the output
\* check when read-write checking has both cycle and address rounds in its third
\* phase, and an advice reduction with rows but no columns among the cycles.
Exceptions ==
    {<<4, i>> : i \in {x \in {4, 5} : config.p1 < config.log_T /\ config.p2 < config.ram_log_K}}
    \cup LET kinds == AddressKinds(config, prover.advice)
         IN  {<<9, 1 + i>> : i \in {x \in DOMAIN kinds :
                /\ config.layout = "AddressMajor"
                /\ AdviceCols(config, kinds[x]) <= LogKChunk
                /\ AdviceRows(config, kinds[x]) > 0}}

\* Every other instance of every batch sends messages that add up to its claim,
\* whatever rounds of the batch it is idle in, and ends with the claim the verifier
\* expects.
ClaimWeightsMatch == prover.unbalanced \subseteq Exceptions

\* No side appends a key twice: the accumulator's assertion does not see a second
\* append of a key that was aliased.
AppendedOnce ==
    \A side \in {prover, verifier} : Len(side.appended) = Cardinality(Range(side.appended))

\* Once the verifier accepts, every claim it took from the proof has been used by
\* a later sumcheck or the opening of the commitments: nothing is left unproven.
EveryClaimUsed ==
    stage.verifier = "done" => Range(verifier.appended) \ CMids \subseteq verifier.used

\* The variables of an advice polynomial, lowest first, among those of the matrix.
Embedded(variables, c, kind) ==
    First(variables, AdviceCols(c, kind))
    \o SubSeq(variables, MainCols(c) + 1, MainCols(c) + AdviceRows(c, kind))

\* All commitments can be opened at one point: one-hot polynomials were opened at
\* it, dense ones at its cycle, and advice at the coordinates of its block.
OpenedAtUnifiedPoint ==
    stage.prover \in {"open", "done"} =>
        LET unified == PointOf(prover.acc, UnifiedId)
            address == First(unified, LogKChunk)
            cycle == From(unified, LogKChunk)
            variables == Reverse(MatrixOrder(thread.prover, address, cycle))
        IN  /\ Len(unified) = LogKChunk + config.log_T
            /\ \A p \in Range(RaPolynomials(config)) :
                  PointOf(prover.acc, At(p, "HammingWeightClaimReduction")) = unified
            /\ PointOf(prover.acc, RamInc("IncClaimReduction")) = cycle
            /\ PointOf(prover.acc, RdInc("IncClaimReduction")) = cycle
            /\ \A kind \in Range(KindsOf(config)) :
                  /\ Has(prover.acc, AdviceFinal(kind))
                  /\ Reverse(PointOf(prover.acc, AdviceFinal(kind)))
                       = Embedded(variables, config, kind)

\* The prover commits and opens in the matrix of its own proof, unless another
\* proof ran on its thread since it last set the parameters.
OwnMatrix ==
    \A use \in DOMAIN matrix :
        matrix[use].stolen \/
        matrix[use].shape = IF use \in AdviceKinds
                            THEN Dimensions(0, AdviceVars(config, use))
                            ELSE Dimensions(LogKChunk, config.log_T)

=============================================================================
