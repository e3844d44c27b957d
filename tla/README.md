# A TLA+ development for Lightning Jolt

This directory holds TLA+ models of the Jolt zkVM in this repository (its tracer,
its instructions with their virtual sequences, lookups and constraints, and the
bookkeeping of its prover and verifier), the TLC configurations that check them on
small instances, and proofs, checked by TLAPS, that some of the properties hold
for every instance. `PROJECT.json` records, for every definition that models
code, the file and the lines it models.

There are three layers. The first is control: when memory is recorded and when it
is handed over, which thread owns what, which claims both sides put in the
transcript and at which points, which register an expansion names. The second is
what instructions compute: whether a virtual sequence does what its instruction
does, and whether lookups, flags and constraints agree with it. The third is the
algebra of the prover, over a small prime field: the messages each sumcheck
prover computes from sparse matrices, split tables and windows that it throws away
and builds anew from phase to phase, against the sum the verifier has in mind. The
polynomial commitment scheme, curves and hashes are left out.

## 1. Inventory

| Part | State it keeps | Operations | Talks to |
|---|---|---|---|
| Checkpointing tracer, `tracer/src/lib.rs` | emulator, buffered cycles, previous pc, recording map, saved processor state, step counter | `next`, `start_saving_checkpoints`, `save_checkpoint`; `next` on a `Checkpoint`; the driver `trace_checkpoints` | emulator (call), owners of checkpoints (other threads) |
| Emulated memory, `tracer/src/emulator/memory.rs` | doubleword map, optional recording map | reads and writes of 1, 2, 4, 8 bytes, taking the map | tracer |
| CPU and MMU, `tracer/src/emulator/{cpu,mmu}.rs` | registers, CSRs, reservation, privilege, device | `tick`, traps, register and memory access | memory, instructions |
| Instructions, `tracer/src/instruction` | none of their own | `exec`, `trace`, `inline_sequence`; LR and SC keep a second reservation in virtual registers | CPU, virtual register allocator |
| Inline assembler, `tracer/src/utils/inline_helpers.rs` | the sequence being built | `emit_*`, `finalize`, `finalize_inline` | instructions, allocator |
| Virtual register allocator, `tracer/src/utils/virtual_registers.rs` | flags of the registers, list of inline registers to zero, each behind a mutex shared by all clones | `allocate`, `allocate_for_inline`, guard drop, `get_registers_for_reset` | every expansion, in `decode` and in every emulator |
| Trace writer, `tracer/src/utils/trace_writer.rs` | current batch, bounded channel, buffered file, thread handle | `push`, `finalize`; the writer thread's loop | `trace_to_file`, the file system |
| Instruction lookups and tables, `jolt-core/src/zkvm/{instruction,lookup_table}` | none | flags, inputs, operands, index and output of a lookup; entries of a table, its extension, its prefixes and suffixes | cycles of the trace, R1CS, the read-RAF sumcheck |
| R1CS, `jolt-core/src/zkvm/r1cs` | none | columns of a cycle, constraints | lookups, Spartan |
| Opening accumulators, `jolt-core/src/poly/opening_proof.rs` | openings, index by polynomial, aliases, pending claims | `append_*`, getters, `flush_to_transcript` on both sides | all sumchecks, transcript, proof |
| Batched sumcheck, `jolt-core/src/subprotocols/sumcheck.rs` | claims and challenges of a batch | rounds, caching of openings | accumulator, transcript |
| Sumchecks, `jolt-core/src/zkvm/{spartan,ram,registers,bytecode,instruction_lookups,claim_reductions}` | parameters, phases | input claim, rounds, opening point, openings cached, on both sides | accumulator |
| Stages, `jolt-core/src/zkvm/{prover,verifier}.rs` | the proof under construction | commitments, stages 1 to 8 | all of the above |
| Dory parameters, `jolt-core/src/poly/commitment/dory/dory_globals.rs` | thread-local sizes, contexts and layout | initialise, enter and leave a context | commitments on a thread pool |
| SRS caches, `third-party/dory-pcs` | lock-protected prepared points | initialise, look up, reset | commitment scheme |
| Polynomials, `jolt-core/src/poly` | tables, split or sparse | binding in either order, evaluation, interpolation, compression of messages | sumcheck provers |
| BlindFold, `jolt-core/src/subprotocols/blindfold` | a constraint system, its witness, an accumulated pair | building, folding, two sumchecks, openings of committed rows | stages in zero-knowledge mode |
| On-chain verifier, `onchain-verifier/contracts` | arrays of flushed claims and challenges | a formula per stage | exported proofs |
| Transcripts, SDK, examples | hash state, glue | hashing, clients | - |

What is hard about these parts:

* **Checkpoints.** A checkpoint is replayed from nothing but the first-access
  values of its chunk and the processor state at its start, maybe in the middle
  of a virtual sequence. An access that is not recorded, or recorded too late,
  shows up many cycles later, in one program in a thousand.
* **Sharing.** Cloning an emulator clones `Arc`s: replays on several threads share
  the allocator. Its two mutexes are taken one after the other. The Dory
  parameters are thread-local while proofs and commitments run on a thread pool.
* **Two copies of one thing.** LR/SC reservations live in the emulator and in
  registers the constraint system sees; openings live in the prover's and in the
  verifier's accumulator, and the verifier's is filled before it knows the points.
  What an instruction computes is written down as `exec`, as a virtual sequence,
  as `to_lookup_output` and as a lookup table. The rounds in which a sumcheck
  binds a variable are computed by the prover's polynomials, by
  `normalize_opening_point` and by the sumchecks that read its claims.
* **Checkpoints of polynomials.** The read-RAF sumcheck never holds a table. It
  keeps 46 checkpoints, most of them updated from several others every second
  round, arrays that are thrown away and built anew in every phase, and hands a
  value assembled from all of them to the cycle rounds. Each table is written down
  three times: as entries, as an extension, as a combination of prefixes and
  suffixes. The tests compare them at random indices, where the rare cases the
  prefixes are made for do not occur.
* **Sumcheck provers.** No prover holds the polynomial it sums. Read-write checking
  binds a sparse matrix, by cycles, then by addresses, then a dense rest; the
  one-hot sumchecks keep a table of indices and a table of eq until they expand
  both; Spartan sends a message of degree 27 and then streams. Each change of
  representation is one more place where a challenge may be bound twice or not
  at all. The verifier's last check is written down four times, for the verifier,
  for BlindFold's constraints, for the extractors and in Solidity.
* **Advice.** Quotients, remainders and the success of SC come from the prover:
  a sequence has to reject every value but the right one.
* **Failure on another thread.** The writer thread may die at any time; the tracing
  thread learns of it only by a failing send, which it does not report.

`PROJECT.json` lists these as hazards, each at its line, with the properties
that would catch it.

## 2. Modules

| Module | Models | Extends |
|---|---|---|
| `CheckpointingTracer` | tracer, memory recording, checkpoints and their replay, for an arbitrary guest machine | - |
| `TraceCheckpoints` | the loop of `trace_checkpoints` and the concurrent owners of its result | `CheckpointingTracer` |
| `CheckpointingTracer_proofs` | theorems on the tracer and on `trace_checkpoints` | `TraceCheckpoints`, `SequenceFacts` |
| `SequenceFacts` | lemmas on naturals and sequences that the proofs share | - |
| `LoadReserved` | what LR and SC do: their `exec` functions (the abstract specification) | - |
| `LoadReservedTrace` | what is traced and proved instead: dispatch, advice, virtual sequences | `LoadReserved` |
| `LoadReserved_proofs` | theorems on LR and SC | `LoadReservedTrace` |
| `Words` | the machine integers the instructions compute with | - |
| `Instructions` | `exec` of every instruction, real and virtual | `Words` |
| `VirtualSequences` | the inline assembler and every `inline_sequence` | `Instructions` |
| `InstructionLookups` | lookup tables, the lookup and the flags of every instruction, the R1CS constraints | `Words` |
| `InstructionTrace` | the trace of one instruction, with honest or forged advice | `VirtualSequences`, `InstructionLookups` |
| `Polynomials` | the field, with a small prime; vectors, eq polynomials and their relatives | - |
| `TablePrefixes` | bits of a lookup index, each prefix with its checkpoint | `Instructions`, `Polynomials` |
| `TablePolynomials` | each suffix; of each table the extension and the combination of prefixes and suffixes | `TablePrefixes` |
| `InstructionProof` | a traced cycle and the address rounds of the read-RAF sumcheck on its lookup | `InstructionTrace`, `TablePolynomials` |
| `RoundPolynomials` | messages as univariate polynomials, split eq, one-hot polynomials, products of lines | `Polynomials` |
| `ReadWriteChecking` | the sparse matrices and the read-write checking of RAM and registers | `RoundPolynomials` |
| `RamSumchecks` | memory layout, initial and final RAM, the other sumchecks on RAM | `ReadWriteChecking` |
| `ClaimReductions` | reductions of claims, the register values | `RamSumchecks` |
| `OneHotSumchecks` | booleanity, Hamming weight, virtualisation of the one-hot polynomials | `ClaimReductions` |
| `SpartanProvers` | the constraints in their two groups, Spartan's six sumchecks | `OneHotSumchecks` |
| `OnChainVerifier` | the contracts' checks, the tables of claims for the extractors | `SpartanProvers` |
| `BlindFold` | the verifier as a constraint system, its witness, folding and proof | `OneHotSumchecks` |
| `SumcheckProvers` | each of these sumchecks, round by round | `OnChainVerifier`, `BlindFold` |
| `VirtualRegisters` | allocator, guards and expansions on several threads | - |
| `VirtualRegisters_proofs` | theorems on the allocator | `VirtualRegisters`, `SequenceFacts` |
| `TraceFile` | what a trace file is: a log of encoded batches (the abstract specification) | - |
| `TraceWriter` | collector, channel, writer thread, buffered file | instance of `TraceFile` |
| `TraceWriter_proofs` | theorems on the writer | `TraceWriter`, `SequenceFacts` |
| `OpeningAccumulator` | both accumulators, as operators on their state | - |
| `OpeningProtocol` | a proof's claims from the prover to the verifier, in any order | `OpeningAccumulator` |
| `OpeningProtocol_proofs` | theorems on the accumulators | `OpeningProtocol`, `SequenceFacts` |
| `Sumchecks` | a batch of sumchecks: rounds, offsets, scaling; what an instance is | instance of `OpeningAccumulator` |
| `StageSumchecks` | each sumcheck of the system: the claims it takes, the variables it binds in which rounds, the claims it leaves | `Sumchecks` |
| `AdviceReduction` | the Dory parameters of a thread; the two-phase claim reduction of advice, in both layouts | `StageSumchecks` |
| `ProofStages` | `JoltCpuProver::prove` and `JoltVerifier::verify`, stage by stage | `AdviceReduction` |
| `ProofStages_proofs` | theorems on the stages: points, orders and powers of two | `ProofStages`, `SequenceFacts` |
| `ProofStages_claims` | theorems on the claims the stages pass on | `ProofStages_proofs` |
| `MC...` | instances for TLC | the module of that name |

Definitions marked "A mutant" are deliberate errors; substituted for the
definition that follows them, they must make the property they are listed with
in `PROJECT.json` fail. They show that the property depends on that code.

### CheckpointingTracer

The state is that of the Rust struct: `emu` joins `emulator_state`, `prev_pc` and
`current_traces`; `recorded` is `MemoryData.checkpoint`, `saved` is
`saved_processor_state`, `since` is `trace_steps_since_last_checkpoint`;
`saving` is TRUE when the two options are `Some`, which they are from the start
here.
`checkpoints` is the vector of checkpoints handed out, each with the progress of
its replay.

| Action | Code |
|---|---|
| `Init` | `trace_checkpoints` up to its loop: a new tracer, and `start_saving_checkpoints` on it |
| `NextCycle`, `Finish` | `GeneralizedLazyTraceIter::next` on the tracer, with `lazy_step_cycle`, `step_emulator`, `Cpu::tick` and `MemoryData::access_u64` |
| `SaveCheckpoint` | `save_checkpoint` |
| `ReplayCycle(k)`, `ReplayEnd(k)` | `next` on checkpoint `k`, by whoever owns it |

The guest machine is given by constants: which doublewords a fetch reads, which
doublewords the fetched instruction touches, and its effect. A data access reads
and then writes: a plain load writes back what it read, which changes nothing, so
one set serves both. "Processor state" is all that
`save_state_with_empty_memory` clones. That an instruction is a function of that
state and of the doublewords it touches is the one thing assumed of the machine
(`MachineAssumption`): no hidden input such as a clock. Errors inside `tick`
(a failing fetch, a wait for interrupts) show as a tick without cycles.

`h_...` variables are history for the properties; no guard reads them except the
bound `MaxCycles` on `Len(h_out)` and the bookkeeping of who has stopped
(`h_stopped`: a caller does not call `next` again on an iterator that returned
`None`).

### LoadReserved and LoadReservedTrace

Executing (`exec`) and tracing (`trace`) are two implementations of the same
instruction. `Instruction::trace` sends an instruction with `rd = x0` past its own
trace function, straight to its virtual sequence; otherwise SC's trace function
fetches the advice bit from the emulator's reservation, runs the sequence, and
clears the reservation. The sequence asserts `success * (reservation - address) = 0`,
stores `mem + (rs2 - mem) * success`, and clears both reservation registers. One
action is one instruction; a sequence cannot be interrupted. Word and register
arithmetic are constants with the laws the proof needs (`ArithmeticAssumption`).

### Words, Instructions, VirtualSequences, InstructionLookups, InstructionTrace

A machine is a record of registers, pc, memory and whether an assertion failed or
an access trapped; `Instructions` has one operator per `exec` function, a function
on machines, and `Exec` dispatches. `VirtualSequences` has one operator per
`inline_sequence`: a sequence of records with the operands the assembler gives
them, built with the temporaries in the order in which they are allocated and
nested expansions in place. `Inline` is the dispatch of
`Instruction::inline_sequence`: an instruction with `rd = x0` and no side effect
becomes a NOP, one with side effects gets a virtual register for `rd`, and only
the top level has this rule. `Finalize` numbers the sequence and leaves the
compressed flag on its last instruction only.

`InstructionLookups` gives, for each instruction, the table, flags, inputs and
`to_lookup_output` of its file in `zkvm/instruction`, the entries of each table
(`materialize_entry`), the combination of the operands into one index, and the
R1CS constraints on a cycle and its successor. A constraint that multiplies a flag
by an expression is an implication here. The equations of the virtualized inputs
come from the verifier's side of the sumcheck that checks them.

`InstructionTrace` runs them:

| Action | Code |
|---|---|
| `FetchRegReg`, `FetchRegImm`, `FetchControl`, `FetchMemory`, `FetchAmo`, `FetchAdvice` | `Cpu::tick_operate` up to the expansion, on an instruction of that form |
| `TakeAdvice` | the `trace` function of a division fills in an advice (honest), or a prover does as it likes |
| `Trace` | `RISCVTrace::trace` on the next instruction of the sequence: one cycle, one row of the witness |

All 64-bit constants of the sequences (shift amounts, masks, sign bits) are
written in terms of `XLEN`, `WordLen` and `ByteLen`, which scale together. The
immediates that name a width scale with it; the 32-bit variants of the sequences,
chosen when the emulator runs RV32, are left out.

### TablePrefixes, TablePolynomials, InstructionProof

A table has 2^(2 XLEN) entries, so the prover of the read-RAF sumcheck splits the
variables of the index into phases, and in each phase writes every table as a sum
of products of a prefix (of the variables bound so far and in this phase) and a
suffix (of those of later phases). `TablePrefixes` has a pair of definitions for
each file of `lookup_table/prefixes`: `XPrefix` is its `prefix_mle`, `XCheckpoint`
its `update_prefix_checkpoint`; `PrefixMle` and `UpdateCheckpoints` dispatch.
`XSuffix` is a `suffix_mle`, `XMle` an `evaluate_mle` and `XCombine` a `combine`.
They compute in the integers modulo `FieldSize`; what a bit string computes in
machine integers is computed so here, with the width scaled.

`InstructionProof` follows the state of `InstructionReadRafSumcheckProver`, of
which every message is a sum over the cycles of the trace; it follows one cycle,
so of every array the prover accumulates cycles in, one entry. `AddressRound` is a
round: `compute_message`, the claim that both sides go on with, and
`ingest_challenge`: binding, checkpoints in every second round, registry, weights
and next phase in the last round of a phase, and `init_log_t_rounds` at the end.
It starts from a cycle of `InstructionTrace`, with the index,
table and operands of that cycle and, as input claim, the outputs of its witness
(`ProveLookup`); the rest of the trace is forgotten then, which joins equal
lookups of different instructions.

### VirtualRegisters

An expansion is a sequence of the operations it performs on the allocator; each is
one step of a thread, since each takes a lock of its own. A drop names its guard,
counted from the youngest: guards go in any order (SC.W drops `v_mem` before
`v_diff`, an inline's builder drops its fields from the oldest on).
`get_registers_for_reset` is two steps, because it releases the lock on the flags
before it takes the one on the list. A panic unwinds the guards of its thread.

An instruction is a record: whether `rd = x0` is remapped to a register held around
the whole expansion, the steps of the advice builder, and those of the sequence.
`decode` runs `Decoded(s)`, without the advice builder, and `Alone(s)` is what that
names on an allocator of its own: the registers of the bytecode. The tracer runs
`Traced(s)`: `INLINE::trace` builds the advice, which names nothing, and then the
sequence, both with the emulator's allocator. The registers the advice took stay on
the list to zero, so this could add registers to the end of the traced inline or
change their order. History records whether the expansions of two emulators have
overlapped: `TurnsMatchBytecode` says that as long as they take turns they name the
registers of the bytecode.

Two assumptions say what an expansion is like, and TLC evaluates both on the
instance. `ExpansionAssumption`: by itself the traced expansion fits the pools, and
ends without guards and with nothing listed. `decode` would panic on the sequence
otherwise; the rest is Rust's ownership (a guard is a local value of the function
that builds the sequence) and `finalize_inline`, which each inline that allocates
ends with. `AdviceAssumption`: the advice drops its guards, and by the time the
sequence resets it has taken the registers the advice took, in the same order and
before any other. The builders ensure it by starting `advice` and `inline_sequence`
from the same constructor, which allocates
(`jolt-inlines/secp256k1/src/sequence_builder.rs:457-466`, likewise p256 and
grumpkin). The other inlines have no advice builder.

The instance has the shapes found in the code: two temporaries of which the older is
dropped first and its register used again (SC.W), a remapped x0 around a whole
expansion, an inline with an advice builder and a nested expansion, and a remapped
inline with fewer registers, so that a register left on the list by one inline would
show in the next.

### TraceFile and TraceWriter

Two processes: the tracing thread (`phase`) and the writer thread (`writer`). A
batch is encoded as its length and its items. The `BufWriter` may hand any prefix
of its contents to the file at any write; a failing create, write or flush ends
the writer thread with an error and drops the receiver. Receiving a batch and
writing it is one step, so the model's channel holds the batch being written: its
depth is the code's plus one. The emulator may panic (`Abandon`), after which the
process may exit under the detached writer (`Exit`).

`TraceFile` says what the caller of `trace_to_file` is promised: items are pushed,
a log that is at all times a prefix of their encoding grows, and a result is
returned, which is `Ok` only with the whole encoding in the log. `TraceWriter`
implements it (`WritesTraceFile`) with the items taken by `push` as the trace, the
bytes in the file as the log and the outcome of `finalize` as the result.

### OpeningAccumulator and OpeningProtocol

`insert_or_alias_opening` (prover) and `populate_or_alias_opening` (verifier) are
operators on the record of an accumulator. The protocol first lets a prover append
openings in any order, at any points, with flushes anywhere, and records the
order as the script; then the proof is delivered and the verifier follows the
same script, as its stages do. `Deliver` delivers the prover's claims;
`DeliverAny` delivers any set of claims in their place. A claim of a polynomial
is its value at the point; intermediate claims (the advice reduction's) belong to
no point. No key is appended twice (`AppendedCorrect` proves that of `ProofStages`).

### Sumchecks and ProofStages

Field elements are left out. What is kept of a sumcheck instance is what the two
sides must agree on without ever telling each other: how many rounds it has and
where in its batch it begins, which challenge binds which variable of which
polynomial, which earlier claims enter its input claim and at which points its eq
polynomials assume them, which claims it leaves at which points, and the powers of
two by which its claim is scaled. A challenge is named by the batch and the round
it is drawn in, a point is a sequence of challenges, and a claim of the prover
records the polynomial and the point to which its variables were really bound. So
a claim that is recorded at a point other than the one it was evaluated at is
visible, as is an eq polynomial at the wrong point.

`StageSumchecks` defines all sumchecks
this way, prover and verifier apart where their code is apart: Spartan outer,
product, shift and instruction inputs; RAM and register read-write checking with
their three phases, RAF evaluation and output check that run beside them, value
checks; bytecode and instruction read-RAF, booleanity, virtualisation of the
one-hot polynomials; the claim reductions. `AdviceReduction` is the one with the
most intricate schedule: two phases in two stages, gaps in the first, columns and
rows of the advice placed by the layout.

`ProofStages` runs a proof on two threads:

| Action | Code |
|---|---|
| `CommitTrustedAdvice`, `CommitInit`, `CommitWitness`, `CommitUntrustedAdvice` | commitments, each in its Dory context |
| `ProveStage1` .. `ProveStage8`, `OpenJointPolynomial` | `prove_stage1` .. `prove_stage8` of `JoltCpuProver` |
| `Deliver` | `JoltProof`, and `JoltVerifier::new` |
| `VerifyStage1` .. `VerifyStage8` | `verify_stage1` .. `verify_stage8` |
| `Steal` | another proof runs on the prover's thread while it waits for the pool, and leaves its Dory parameters behind |

The accumulators are those of `OpeningAccumulator`, with deduplication and
aliases. A panic of a constructor or an accumulator is `ok = FALSE`, after which
that side takes no step.

### SumcheckProvers and the modules below it

A sumcheck here is a polynomial over a prime field and a prover for it. `Init`
takes the input claim from the openings the instance begins with and computes the
first message; `Round` draws a challenge, evaluates the message at it
(`Eval(message, r)` is the next claim), binds the prover's state
(`ingest_challenge`), computes the next message (`compute_message`) or, after the
last, the claims to cache (`cache_openings`). `kernel` names the instance, `data`
is what it is run on: a trace of eight cycles with its memory, registers, one-hot
indices and points. For each of the twenty-one kernels there is an operator for
each function of its file: initialisation with its first tables, message,
ingestion with its change of phase, cached claims, input claim, the verifier's
expected output claim, and BlindFold's constraints on both ends.

What changes how a value is computed and never which is left out: small-scalar
arithmetic, delayed reductions, and the division of a sum among threads. What
changes the representation is kept: sparse matrices with checkpoints
(`ReadWriteChecking`), prefix and suffix tables of the first phase of a reduction
(`ClaimReductions`), tables of indices until they are expanded
(`OneHotSumchecks`), univariate skip, windows and switch-over of the streaming
outer sumcheck (`SpartanProvers`), products of 4 to 16 lines by interpolation
(`RoundPolynomials`).

`OnChainVerifier` has the formulas of the Solidity contracts, which address the
claims of a stage by position and find the challenges of an instance by an offset.
They leave out the advice; they read all rounds of the output check as an address,
which is so when phase 1 binds all cycles; and stages 4 to 6 take the first instance
as the longest. `OnChain` and `WithoutAdvice` say where they are compared.

`BlindFold` follows `prove_blindfold`: the R1CS that the prover and the verifier
build from the stages, each in its own way; the witness, filled by a third walk
over the layout; the random satisfying pair and the folding; the two sumchecks on
the folded system and the opening of committed rows. A commitment is the vector of
its scalars with the blinding last, so that it is as linear as the real one.
Randomness and challenges are given with the data.

Reading notes: the `HighToLow` branch of `SharedRaRound3::bind` is never used;
`HalfSplitSchedule` exists but `prover.rs:924` chooses `LinearOnlySchedule` (the run
has both); the message of a gap round alone would make `compress` panic, but it is
always summed with others in its batch; MAX_BLINDFOLD_GENERATORS equals the row
length 32 only because the outer univariate skip sends 28 coefficients; in
`R1CSEvaluator.sol` the names in the header for z[30], z[31], z[33] and z[34] are not
those of the columns it uses; `mleReversed`, `lt` and `eqPlusOne` of
`EqPolynomial.sol` are not called.

## 3. Runs

| Run | Shows | Bounds |
|---|---|---|
| `trace_checkpoints` | each replay hands out exactly its chunk of the trace, whenever it runs and wherever the chunk was cut; the invariant of the proof; chunk boundaries at multiples of the interval; the replays put together are the trace; everything ends | all 250 programs of three instructions with two initial data values, 5 cycles, 3 checkpoints, interval 2; the loop of `trace_checkpoints` on those that end: 338,427 states |
| `load_reserved` | the assertion of SC never fails; no stale reservation register; tracing implements executing | one-bit words, two-bit registers, three words, one doubleword overlapping two of them |
| `store_conditional_x0` (violation) | SC with `rd = x0` leaves the reservation in place | the same, with x0 as a destination |
| `instructions` | an accepted sequence does what its instruction does, whatever the advice; honest advice is accepted; every cycle satisfies the constraints with the entry of its table; each message of its lookup's proof is that of the table's extension, and the proof is accepted | registers of 16 bits, words of 8, bytes of 2; all ops on all pairs of 10 values, 8 patterns of aliased or x0 operands on pairs of 5, 7 offsets, 7 forged quotients with 4 remainders each; proofs of the lookups whose index is made of 6 words, in 4 and in 8 phases: 400,000 states |
| `divw_negative` (violation) | `VirtualChangeDivisorW` with a negative dividend gives its lookup an input that the flags do not select | as `instructions` |
| `virtual_registers` | emulators that take turns name the registers of the bytecode and never run out; even when they overlap no register has two guards and no flag leaks | pools of 2 and 3, two emulators, 2 expansions each: 1.2 million states |
| `concurrent_replay` (violation) | two threads expand into other registers than the bytecode's | the same |
| `trace_writer` | `Ok` means the whole trace is on disk; a file never has a gap; what is taken and not yet written is bounded; `TraceFile` is implemented; `finalize` returns | 2 items, batches of 2, depth 1, 5 items: full, partial and empty last batches, a full channel |
| `opening_claims` | an honest proof: no panic, equal transcripts, true openings read, aliases end; any proof: one absorbed claim per polynomial and point | 5 keys of 2 polynomials, 2 points, all coincidences of values, 6 steps honest, 4 forged: 2.2 million states |
| `proof_stages` | a whole proof: no panic, equal transcripts and points, true openings, eq polynomials at the points of their claims, matching powers of two, no key appended twice, no claim unused, one point for all commitments, the prover's own matrix | see below: 176 proofs, 16,834 states |
| `sumcheck_provers` | each message of each of 21 sumchecks and of BlindFold's two is the sum of the verifier's polynomial; cached claims are true openings; constraints, tables and contracts have the verifier's values; algorithms do what they are for | 46 instances, 2,705 states, see below |
| `verifier_layout` (violation) | the verifier schedules advice by the layout of its thread, not of the proof | the AddressMajor proofs of these |

The bounds are chosen so that the interesting cases occur.

*Tracer*: a chunk boundary inside a two-cycle instruction, an instruction that a
chunk overwrites before it is fetched, a doubleword read before and after a write,
a doubleword first touched in the second chunk, a loop that comes back, a program
that ends by jumping to itself and one that ends without a cycle.

*Accumulators*: three keys of one polynomial at one point, so that an alias is made
with another present, and points that coincide after other claims were flushed.

*Instructions*: TLC's integers have 32 bits, so a product of two registers must fit
in 31: 16-bit registers are the largest. Everything the sequences do by width
(double shifts, masks, sign bits, the high half of a product) has the same form at
every width; the values are those around the limits of a word and of a register.
The forged quotients lie one below, equal to, and five powers of two above the
honest one, which includes those whose product with the divisor wraps; the
remainders are the honest one, zero, and the two that solve the equation modulo
the width. Virtual registers start with a value that another sequence left. What
this width does not show is a constant of the code that is wrong for 64 bits only.

*Lookups*: the index has 32 bits. Phases of 8 and of 4 variables: the code has
phases of 16 and 8 of the 128 variables, and a shift amount (6 bits there, 4 here)
fits in a phase in both. The words of an index are limits of words and registers
and bitmasks that shift by 0, 1, 7 and 15, so that each table is used, with each
of its prefixes different from zero. The prime 32749 is the largest below 2^15, so
that a product fits in TLC's integers; challenges, batching challenge and the
weight of the cycle are fixed elements. Two different polynomials of the degrees
in question agree at such a point with a chance of about one in a thousand, and
each is compared in 32 rounds at many indices. Only honest cycles are proved: what a
dishonest prover can do is a matter of the soundness of sumchecks.

*Sumcheck provers*: a trace of eight cycles on 16 words of RAM (advice, inputs,
outputs, panic and termination bits, program and heap) and four registers, with
reads and writes of one word by several cycles, cycles without access and
registers read twice; two traces of Spartan rows with every flag set somewhere; 32
cycles, most of them padding, for the windows of the split schedule, the
narrowest on which one window spans several rounds. The phases are all cycles
first, all addresses first, and splits that leave both to phase 3, but for the
RAF evaluation and the output check (see the exceptions). One-hot chunks of one and two bits, products of
4, 8 and 16. In each round one of two challenges (one for BlindFold, whose
sumchecks have seven and eight rounds). Messages are compared at one point more
than their degree, so equal values are equal polynomials; for BlindFold only in
the last rounds (`MaxCornerBits`), before that through the claims they leave.

*Proof*: with chunks of 2 address bits, 8-bit lookup addresses and virtual chunks
of 4, there are several one-hot polynomials of each kind and an address that does
not fill its chunks (3 and 5 bits). The configurations are every split of a trace
of 2^4 cycles and a RAM of 2^5 words into the three phases of read-write checking
(phases one and two not both empty: the code calls `unimplemented!`), and, with
the default split and traces of 2^4 and 2^5 cycles, every size of trusted or
untrusted advice that fits the matrix and two pairs of both, in both layouts.
Advice of up to 2^5 words is sorted by one thread, longer advice on the pool
(`SequentialSortVars`; rayon sorts in chunks of some thousand elements, scaled
like the rest), and one other proof of another size may get in.

Deadlock is not checked where a behaviour is meant to come to an end (a trace
that is over, an instruction traced, a proof verified or a side that panicked); it
is checked in `load_reserved`.

**Fairness.** `DriverSpec` assumes that the loop of `trace_checkpoints` keeps
running (straight-line host code, with no wait in it) and that each owner goes on
collecting its iterator. `TraceWriter` assumes both threads keep being scheduled;
neither the panic of the emulator nor the exit of the process is assumed to
happen. Both runs quantify over finite traces only: `Ends` in `MCInit` leaves programs
that loop for ever to the other caller, and `MaxItems` ends a trace. A proof, a
sumcheck and an instruction end because they have finitely many steps; nothing is claimed about
their progress.

**Refinements.** `TraceImplementsExec` (traced LR and SC implement their `exec`),
`WritesTraceFile` (the writer implements `TraceFile`). `SequenceImplementsExec`
says the same of all other instructions, as an invariant on the last state of
each sequence, since one instruction is one abstract step.

### Exceptions the properties state

These properties hold but for cases that they name:

* `ClaimWeightsMatch` leaves out (`Exceptions`) RAF evaluation and output check
  when read-write checking has both cycle and address rounds in phase 3: their
  messages carry the factor of the whole gap in every round
  (`ram/raf_evaluation.rs:281-319`, `ram/output_check.rs:273-311`), so that the
  powers of two do not agree. The default configuration leaves nothing to phase 3;
  `config.rs:44-45` says "other configurations are possible". It also leaves out
  advice in the AddressMajor layout whose columns are all address variables:
  the verifier counts the idle cycle rounds only when the advice has both column
  and row rounds among the cycles (`claim_reductions/advice.rs:628`), the prover
  halves in each of them.
* `TrueOpenings` leaves out (`SortedElsewhere`) advice in the AddressMajor layout
  that is long enough for `par_sort_by` to compare on the pool's threads: the
  comparison asks its thread for the layout (`claim_reductions/advice.rs:395`), and
  `prover.rs:745-747` notes that "worker threads don't have DoryGlobals
  initialized in thread-local storage".
* `HonestNeverRejected` leaves out (`MostNegativeWordByZero`) DIVW and REMW of the
  most negative word by zero: the advised absolute remainder 2^31 fails the
  sequence's check that it is not a negative word, and the tracer panics; `exec`
  returns -1 and the dividend, as the instruction's documentation says. The
  property states that no advice passes there.
* `RoundsMatchTables` and `HonestAccepted` leave out (`OverflowingWordDivision`)
  the lookup of `VirtualChangeDivisorW` for the most negative word divided by -1.
  The prefix `ChangeDivisorW` is zero in the first XLEN rounds
  (`lookup_table/prefixes/change_divisor_w.rs:24-26`), though the variables of those
  rounds do not occur in it and its value there is the constant 2 - 2^XLEN, as the
  comment above it has it ("a (2 - 2^XLEN) * eq(x, 100...000) * eq(y, 111...111)
  where x and y are the lower word parts"). So the messages of those rounds leave
  out the adjustment of the divisor, and DIVW and REMW of -2^31 by -1 cannot be
  proved: `HonestAccepted` states that the last claim differs exactly there. The
  test that compares the two (`lookup_table/test.rs:108`) draws its indices at
  random. All other tables agree with their extensions.

`OwnMatrix` leaves out a matrix used after another proof ran on the thread and
before the parameters were set again; `ethrex-trace/examples/ethrex_block_prove.rs`
runs whole proofs on one pool, which is how that can come about. `EveryClaimUsed`
leaves out the intermediate claim of an advice reduction that has no address
phase, from which no later sumcheck starts.

## 4. Proofs

Every theorem is about the specification itself, for every value of the
constants that satisfies the named assumptions. The bounds of the runs
(`MaxCycles`, `MaxItems`, `MaxSteps` and so on) are arbitrary naturals there, so
they restrict nothing. Each inductive invariant, or its parts, was checked by TLC
on the instance of the run before it was proved.

**Tracer** (`CheckpointingTracer_proofs`), for every guest machine, program,
interval and schedule of saves and replays:

* `TypeCorrect`, `ReplayInvariantHolds`, `ReplayCorrect`: `Spec` implies
  `[]TypeOK`, `[]ReplayInvariant` and `[]ReplayMatchesTrace`;
* `DriverInvariant`, `ChunksAreCounted`, `ReplaysAreTheTrace`: `DriverSpec`, the
  loop of `trace_checkpoints` and the owners of its result, implies
  `[]DriverInv`, `[]ChunksAreIntervals` and `[]ReplaysRebuildTrace`.

`ReplayMatchesTrace` is not inductive. The next cycle of a replay depends on its
processor state and on the doublewords it will touch, so the invariant must say
that these are the tracer's. `ReplayInvariant` adds: the history is an execution
(`TraceIsExecution`); a recorded doubleword has the value of the start of the
chunk, one that is not recorded has not changed since, and all that the chunk
touched is recorded (`ChunkRecorded`); a checkpoint agrees with the tracer's state
at its place, on all the memory it has, and has all the memory that the rest of
its chunk will touch (`CheckpointsFaithful`); and the counters tile the trace
(`ChunksTileTrace`). The heart is the lemma `LazyStepAgrees`: two emulators with
the same processor state, whose memories agree on what one of them is about to
touch, take the same step. `DriverInv` adds what the loop counts: until the
program ends, the steps since the last checkpoint and the calls left in `dropping`
make one interval, and chunk k starts at cycle (k - 1) * Interval; when it returns,
the last chunk is the remainder, which may be empty. The replays put together
are the trace by induction on the number of chunks. Assumptions:
`ConstantsAssumption`, `MachineAssumption`, `IntervalAssumption` (an interval of at
least one cycle).

**LR and SC** (`LoadReserved_proofs`), for all address sets, value ranges and
destination registers other than x0:

* `AssertionNeverFails`: `TraceSpec => []AssertionHolds`;
* `ReservationSafe`: `TraceSpec => []NoStaleReservation`;
* `TraceRefinesExec`: `TraceSpec => TraceImplementsExec`, that is, the traced
  sequences implement `LoadReserved!Spec` step by step, with the identity as
  refinement mapping.

The invariant is that the two reservations mirror each other
(`ReservationMirrored`): an advice taken from the emulator's reservation is then
one that the sequence's own check of the registers accepts. The arithmetic of the
conditional store needs only that a word survives sign extension and that a
doubleword is its two halves. The hypothesis `0 \notin Rd` is necessary:
`store_conditional_x0` shows what happens without it.

**Opening accumulators** (`OpeningProtocol_proofs`), for every set of keys,
polynomials, points and claims and proofs of every length: `Invariant`,
`NeverPanics`, `SameTranscripts`, `ReadsAreTrue`, `OneAbsorbedClaim`,
`ResolveEnds`. Both accumulators are described by the script the prover has
recorded, so that the invariant (`ProtocolInv`) says of each side separately what
it is after the first n steps: which keys are fresh (the first of their polynomial
at their point) and so open, which are aliases and of which, which claims wait for
the next flush. An alias leads to a key that is no alias, so that `resolve_alias`
takes one step. The verifier's places are those of the prover because
`OpenToVerifier` finds exactly the openings whose point it has learnt. Assumptions
(`AccumulatorAssumption`, `ProtocolAssumption`): each polynomial has at most one
intermediate claim (the advice reduction's, `claim_reductions/advice.rs:527`), and
an opening that is not one has a point with coordinates; the script appends no
key twice, which `AppendedCorrect` proves of the stages. `OneAbsorbedClaim` and
`ResolveEnds` also hold of proofs that carry any set of claims.

**Trace writer** (`TraceWriter_proofs`), for every batch size, channel depth and
trace: `WriterInvariant`, `NoGapEver`, `OkIsComplete`, `BacklogBounded`, and
`ThreadsImplementFile` (`Spec => WritesTraceFile`, the refinement of `TraceFile`).
The invariant splits the items pushed so far into those that the writer has taken
over, whose encoding file and buffer hold together, and the rest, which is what
waits in the channel and the current batch until the receiver is gone, and which
nobody will write once it is (`Settled`). The encoding of a trace is a
concatenation of the encodings of its batches (`EncodingConcat`), and all taken
over are whole but maybe the last.

**Virtual register allocator** (`VirtualRegisters_proofs`), for any number of
emulators, pools of any size and any set of expansions: `AllocatorInvariant`,
`AllocatorType`, `GuardsAreUnique`, `TracerNamesBytecode`, `TurnsNeverPanic`.
`GuardsAreUnique` holds of every interleaving, with panics at any point and guards
dropped in any order. For the others the invariant compares the tracer's expansion
with the same expansion by itself (`AloneFrom`): it always holds as many guards as
that, and while the emulators take turns the same ones, has named the same
registers, and the list of registers to reset is its own. That the tracer's
expansion by itself names the registers of `decode`'s, which has no advice builder,
is the lemma `NamesAgree`: in step with each other the two hold and name the same,
and their lists are equal or the tracer's is still the advice's list, of which
`decode`'s is a prefix (`Alike`). Assumptions: `ExpansionAssumption` and
`AdviceAssumption`, see the module's section.

**Stages** (`ProofStages_proofs`, `ProofStages_claims`), for every size of chunks, program, RAM, bytecode
and advice, every split of read-write checking into phases and both layouts:

* `WeightsCorrect`: every instance of every batch of the prover sends messages with
  the power of two its input claim was multiplied by, and ends with the claim the
  verifier expects (`ClaimWeightsMatch`, with the exceptions of section 3). The
  lemmas take the twenty-odd instances one by one: which are `Plain`, that is,
  active in the batch's last rounds without powers of their own (they balance in any
  batch, `PlainBalanced`); the RAF evaluation and the output check, which start
  after the first phase and halve over a gap (`GappedBalanced`); the two phases of
  an advice reduction (`CyclePhaseFacts`, `AddressPhaseFacts`), which rest on
  `ScheduleExists` and `ScheduleCounts`: column rounds, gap and row rounds are three
  intervals, whatever the layout and the sizes, and the gap the verifier counts is the
  number of dummy rounds but in the case the exceptions name. `BatchFacts` says that
  a batch leaves points in the accumulator and no unbalanced instance but those of
  its list. The invariant `WeightsInv` says that the accumulator has points (the
  rounds of some instances are the length of one), that until stage 7 only
  instances with a gap are unbalanced, and that stage 6 leaves the advice scheduled
  in the proof's layout, which no other proof on the thread changes (`ThreadInv`).
* `TrueCorrect`: every claim the prover keeps is the value of its polynomial at the
  point recorded with it (`TrueOpenings`, with the exception of section 3). The code
  computes the two apart: the polynomial is bound round by round in some order, and
  `normalize_opening_point` reorders the challenges afterwards. `BoundAt` and
  `BoundInOrder` say what binding in an order gives; `ReadWriteOrderPlaces` and
  `ReadWritePlaces` that in the three phases of read-write checking round and
  coordinate correspond, wherever the phases end; `OrderIs` and `AdviceBound` that the
  order `AdviceClaimReductionProver::initialize` sorts an advice polynomial into is a
  rotation, by the rows and columns that are address variables (`RotationIs`,
  `BeforeIs`, `PlaceIs`), and `AdviceCycleBound` and `AdviceAddressBound` that the
  points of stage 6 and stage 7 undo it. `WeightsInv` carries the rest: all claims
  of the accumulator are true, and what stage 6 keeps for the advice is the sorted
  order and one challenge for each variable that stage 7 does not bind.
* `MatrixCorrect`: `OwnMatrix`, also for any number of other proofs on the thread.
  The invariant `MatrixInv` adds that the thread's main shape is this proof's from
  the commitment on while `stolen.since` is false; an advice context that is
  entered and left gives the main one back as it was (`AdviceContext`).
* `KnowsAlways`: the inductive invariant `KnowsInv`, which carries the whole table of
  openings through the stages. `K1(c)` to `K7(c, layout)` are the claims after each
  stage, each a key with its point, as functions of the configuration alone. At the
  beginning of a stage either side knows exactly these (`SideKnows`): each is found in
  the accumulator at its point, directly or through an alias, what was appended is
  their keys, each once, and the index by polynomial lists only stored openings. It
  has also read those that the stages so far ask for (`Used1` .. `Used7`), and none at
  a point other than that of the eq polynomial. For every instance there is a lemma
  (`...Given`) that it finds the claims it takes among those of earlier stages at the
  points it assumes, and leaves claims on polynomials of the proof with new keys.
  `BatchKnows` and `BatchRuns` put them together: the first induction is over the
  claims of a list, through deduplication and aliases (`KnowsInsert`,
  `KnowsAlias`), the second over the instances of a batch. The verifier is shown to
  know the same claims whatever layout its thread is in: its advice alone is at the
  points of that layout (`VerifierAt`). From the invariant follow:
  * `AppendedCorrect`: `AppendedOnce`, because the list has no repetition;
  * `KernelsCorrect`: `KernelsMatch`: claims that a constructor takes at one point were
    left at one point by the tables. The address of RAM is the same in the claims of
    read-write checking, the RAF and the output check (`RamAddr`), under every
    `ReadWriteConfig`, although their rounds and the order of them differ (`GappedIs`);
  * `UsedCorrect`: `EveryClaimUsed`, because the keys of the last table are covered by
    the uses of all stages and of the opening (`KeysSettled`);
  * `OpenedCorrect`: `OpenedAtUnifiedPoint`. The points of the one-hot polynomials and of
    the increments are read off the table. For the advice the schedule says which
    rounds of stage 6 and 7 bind the variables of the block (`BlockIs`, `FinalTaken`):
    the challenges kept are those of the columns and rows among the cycles, in the
    order of the matrix variables, and stage 7 supplies the address variables.

Assumptions: `OpeningIdAssumption`: the ids an accumulator has room for include every
polynomial of the proof (`CommittedPolynomial` and `VirtualPolynomial`);
`OneHotAssumption` (`OneHotConfig::validate`, and that a lookup index has bits) and
`ConfigAssumption`: the bounds of `ReadWriteConfig::validate`; a trace of at least as many cycles as a chunk
has values, because it is padded to 256 cycles or more ("ensures that T >= k^{1/D}",
`prover.rs:371-372`); and advice that fits the main matrix, which
`adjust_trace_length_for_advice` sees to or panics (`prover.rs:278-350`).

`SequenceFacts` has the lemmas these rest on. An operator cannot be a parameter of
a lemma for the provers at hand, so induction is over sets: `NatSetInduction` says
that a set with 0 and all successors has all naturals, from the well-foundedness
of < and `WFMin` of the library. With it recursive functions can be
unfolded too: that `FlattenSeq` (a recursive function of the community modules)
adds a sequence at a time, that `AloneFrom` and the encoding of batches exist and
satisfy their equations.

Only model-checked:

* liveness (`EveryReplayEnds`, `FinalizeReturns`), which is out of the prover's
  reach;
* `SidesAgree` and `ProofNeverPanics`. That both sides know the same keys is part of
  `KnowsAlways`, and that they have them at the same points too when the layouts agree;
  what is left of `SidesAgree` is the order of the transcript, which depends on which
  claims each side aliased, and of `ProofNeverPanics` the assertions of the
  constructors;
* the instructions and lookups: non-linear arithmetic modulo 2^XLEN, bits and a
  prime field, which the SMT backend does not decide; a proof of a sequence or of a
  table for every XLEN would be one of number theory. The modules compute with bits
  (`Bitwise`) and expand sequences recursively (`Dispatch`), and so are for TLC
  only;
* the sumcheck provers, for the same reasons: a proof would be one of multilinear
  algebra over any field, by induction over the rounds.

## 5. Where the code and its documentation disagree

* `store_conditional_x0`: SC with `rd = x0` is traced without its advice and
  without invalidating the reservation.
* `concurrent_replay`: checkpoints share the virtual register allocator, so they
  are not "only owned data".
* `verifier_layout`: the verifier enters the proof's layout in stage 8, "to use the
  same layout as the prover", after stages 6 and 7 have scheduled the advice by
  the layout of its thread.
* `divw_negative`: the left input of `VirtualChangeDivisorW` is the low word of
  rs1, the flags and the sumcheck that checks the inputs say all of rs1.

Without a run:

* The prefix `ChangeDivisorW` in the first XLEN rounds, see the exceptions above.
* `start_saving_checkpoints` on a tracer that has already run, or is already
  saving, leaves the step counter and the map as they are, so that the next chunk
  is counted wrong; the documentation of `save_checkpoint` (`tracer/src/lib.rs:556`)
  promises the chunk since that call. The one caller starts on a new tracer, and
  so does the model.
* With a maximum advice size of 8 bytes the advice polynomial has no variables, and
  its openings have the empty point: the prover aliases the intermediate claim of
  the reduction to the first opening (`opening_proof.rs:487`), the verifier, which
  never matches empty points, reads zero. A comment at
  `claim_reductions/advice.rs:527` says the claim can't be deduplicated.
* `CHANNEL_DEPTH` times the batch size is about 25 GB, not 2 GB.
* `trace_checkpoints` returns an empty last checkpoint when the interval divides
  the length of the trace (`ChunksAreIntervals` states the count the code gives;
  `test_checkpoints` expects the quotient rounded up).

## 6. Plan

Modelling, in this order:

1. **CPU**: traps, interrupts, CSRs, ECALL and MRET, `exec` against `trace`;
   `MemoryLayout` and the regions of the device; decoding, compressed included.
2. **Accumulators in zero-knowledge mode**: `take_pending_claims` and the claims
   BlindFold reads, as another mode of `ProofStages`.
3. **Allocator and checkpoints together**: replays whose expansions share the
   allocator, so that `concurrent_replay` speaks of cycles.
4. **Inlines**: the sequences of the hash and curve inlines, with the registers they
   zero and their advice.
5. **SRS caches**: initialise, look up and reset under the lock.

Theorems to add, of the stages: `SidesAgree`, by induction over the lists the two
sides append, with the index by polynomial the same on both sides at every point that
is not empty; `ProofNeverPanics`, from `KnowsAlways` and `TrueCorrect`. Of the
instructions: the sequences that do not compute with bits (branches, additions,
moves).

## 7. Not modelled, and why

* Group and pairing arithmetic, Dory's reduce-and-fold, hashes and the transcript's
  state: over domains that TLC cannot enumerate. Many lines of `jolt-core` and
  most of the vendored curve code are of this kind. Field arithmetic is that of a
  small prime, and limbs, Montgomery form and delayed reductions are left out.
* The messages of the cycle rounds of the instruction read-RAF sumcheck, of the
  bytecode read-RAF and of the advice reduction: products of multilinear
  polynomials. Their schedule, claims and points are in `StageSumchecks` and
  `AdviceReduction`.
* The suffixes that no table uses (`gt`, `right_shift_padding`,
  `left_shift_w_helper`) and the delayed reductions and caches of the read-RAF
  prover, which change how a sum is computed and not what it is.
* Zero-knowledge mode but for BlindFold itself: which claims the stages hand over
  to it (`take_pending_claims`), and the transcript of its protocol.
* The generated Dory verifier of the contracts, the export of proofs and the gnark
  circuit. ELF parsing, serialisation formats, the SDK's macros, the platform glue,
  examples, benchmarks and vendored code: input and output, or clients.
* 32-bit paths of the sequences: another choice of constants for the same shapes.
* Out-of-range accesses stop the emulator and are left out; misaligned ones are
  part of `Instructions`. In `CheckpointingTracer` an access is a set of
  doublewords, and sub-word masks are part of the instruction's effect.
* The repository's `z3-verifier` and `zklean-extractor` are verification tools of
  their own, for instruction semantics and constraints.
