------------------------ MODULE CheckpointingTracer ------------------------
(***************************************************************************)
(* The lazy tracer of tracer/src/lib.rs with the memory backend of         *)
(* tracer/src/emulator/memory.rs.                                          *)
(*                                                                         *)
(* A CheckpointingTracer emulates the guest one instruction at a time and  *)
(* hands out its cycles one by one.  While checkpoints are being saved,    *)
(* the memory records, for each doubleword touched in the current chunk,   *)
(* the value it had before its first access.  save_checkpoint pairs that   *)
(* map with the processor state kept from the start of the chunk; the      *)
(* resulting Checkpoint re-executes the chunk on its own, against the      *)
(* recorded map alone, possibly on another thread and at any later time.   *)
(*                                                                         *)
(* The guest machine is a parameter: an instruction reads the doublewords  *)
(* FetchSet gives, these and the processor state decide which doublewords  *)
(* the instruction touches (DataSet), and Exec is its effect: the next     *)
(* processor state, the new contents of those doublewords, and the cycles  *)
(* of its virtual sequence.  "Processor state" is everything a Checkpoint  *)
(* clones: registers, CSRs, the device, the advice tape.                   *)
(***************************************************************************)
EXTENDS Naturals, Sequences, SequencesExt

CONSTANTS
    Cpu,            \* processor states
    BootCpu,        \* the ones a program can start in
    Pc,             \* program counters
    ResetPc,        \* the initial prev_pc of a tracer (the code's 0)
    Index,          \* doubleword indices of guest memory
    Value,          \* doubleword values
    Zero,           \* the value of a doubleword that was never accessed
    BootMemory,     \* memories after setup_program
    Cycle,          \* trace entries
    PcOf(_),        \* Cpu -> Pc
    FetchSet(_),    \* Cpu -> SUBSET Index
    DataSet(_, _),  \* Cpu, fetched contents -> SUBSET Index
    Exec(_, _, _),  \* Cpu, fetched contents, data contents -> effect
    MaxCycles,      \* bound: cycles handed out by the tracer
    MaxCheckpoints  \* bound: checkpoints saved

\* The HashMap<usize, u64> of MemoryData: an absent entry reads as zero.
Map == UNION {[S -> Value] : S \in SUBSET Index}
EmptyMap == [i \in {} |-> Zero]

Effect(c, w) ==
    [cpu : Cpu, writes : [DataSet(c, w) -> Value], cycles : Seq(Cycle)]

ASSUME ConstantsAssumption ==
    /\ BootCpu \subseteq Cpu
    /\ ResetPc \in Pc
    /\ Zero \in Value
    /\ BootMemory \subseteq Map
    /\ MaxCycles \in Nat
    /\ MaxCheckpoints \in Nat

ASSUME MachineAssumption ==
    \A c \in Cpu :
        /\ PcOf(c) \in Pc
        /\ FetchSet(c) \subseteq Index
        /\ \A w \in [FetchSet(c) -> Value] :
              /\ DataSet(c, w) \subseteq Index
              /\ \A r \in [DataSet(c, w) -> Value] : Exec(c, w, r) \in Effect(c, w)

VARIABLES
    emu,                \* emulator_state, prev_pc and current_traces of the tracer
    saving,             \* the recording map and saved_processor_state are Some
    recorded,           \* MemoryData.checkpoint
    saved,              \* saved_processor_state
    since,              \* trace_steps_since_last_checkpoint
    finished,
    final_memory,       \* final_memory_state, meaningful once finished
    checkpoints         \* the Checkpoints handed out, each with its replay's progress

\* History: what was traced and what was replayed, for the properties only.
VARIABLES
    h_out,              \* the cycles the tracer has handed out
    h_states,           \* h_states[p + 1]: emu when p cycles had been handed out
    h_from,             \* Len(h_out) when the current chunk began
    h_chunks,           \* for each checkpoint, the piece of h_out its chunk is
    h_replayed,         \* for each checkpoint, the cycles its replay has handed out
    h_stopped           \* the checkpoints whose iterator has returned None

tracerVars == <<emu, saving, recorded, saved, since, finished, final_memory>>
historyVars == <<h_out, h_states, h_from>>
replayVars == <<checkpoints, h_replayed, h_stopped>>
vars == <<tracerVars, historyVars, replayVars, h_chunks>>

----------------------------------------------------------------------------
(* Memory: access_u64 and its users. *)

\* What a read of doubleword i returns.
Get(m, i) == IF i \in DOMAIN m THEN m[i] ELSE Zero

Read(m, S) == [i \in S |-> Get(m, i)]

\* Accessing S inserts the missing entries; the ones in D are then overwritten.
Write(m, S, D, writes) ==
    [i \in DOMAIN m \cup S |-> IF i \in D THEN writes[i] ELSE Get(m, i)]

\* A mutant: the recorded value follows the latest access.
RecordLatest(r, m, S) ==
    [i \in DOMAIN r \cup S |-> IF i \in S THEN Get(m, i) ELSE r[i]]

\* checkpoint.entry(index).or_insert_with(..): only the first access of a chunk counts.
Record(r, m, S) ==
    [i \in DOMAIN r \cup S |-> IF i \in DOMAIN r THEN r[i] ELSE Get(m, i)]

----------------------------------------------------------------------------
(* The emulator. *)

\* Cpu::tick with a trace: fetch, then run the instruction's virtual sequence.
Tick(c, m) ==
    LET word == Read(m, FetchSet(c))
        data == DataSet(c, word)
        e    == Exec(c, word, Read(m, data))
        touched == FetchSet(c) \cup data
    IN  [cpu |-> e.cpu, mem |-> Write(m, touched, data, e.writes),
         cycles |-> e.cycles, touched |-> touched]

\* step_emulator: a program that jumps to itself has terminated and is not
\* ticked; the cycles of a tick are reversed so that they can be popped.
StepEmulator(e) ==
    IF e.prev_pc = PcOf(e.cpu)
    THEN [emu |-> e, touched |-> {}]
    ELSE LET t == Tick(e.cpu, e.mem)
         IN  [emu |-> [cpu |-> t.cpu, prev_pc |-> PcOf(e.cpu), mem |-> t.mem,
                       current_traces |-> Reverse(t.cycles)],
              touched |-> t.touched]

\* lazy_step_cycle up to the pop: tick only when no cycle is buffered.
LazyStep(e) ==
    IF e.current_traces # <<>>
    THEN [emu |-> e, touched |-> {}]
    ELSE StepEmulator(e)

Pop(e) == [e EXCEPT !.current_traces = Front(@)]

ProcessorState(e) ==
    [cpu |-> e.cpu, prev_pc |-> e.prev_pc, current_traces |-> e.current_traces]

----------------------------------------------------------------------------
(* CheckpointingTracer. *)

\* GeneralizedLazyTraceIter::next on the tracer, a cycle is handed out.
NextCycle ==
    /\ ~finished
    /\ Len(h_out) < MaxCycles
    /\ LET s == LazyStep(emu)
       IN  /\ s.emu.current_traces # <<>>
           /\ emu' = Pop(s.emu)
           /\ recorded' = IF saving THEN Record(recorded, emu.mem, s.touched)
                                    ELSE recorded
           /\ h_out' = Append(h_out, Last(s.emu.current_traces))
           /\ h_states' = Append(h_states, Pop(s.emu))
    /\ since' = since + 1
    /\ UNCHANGED <<saving, saved, finished, final_memory, h_from, replayVars, h_chunks>>

\* The tick produced no cycle: the program is over and its memory is taken.
Finish ==
    /\ ~finished
    /\ LET s == LazyStep(emu)
       IN  /\ s.emu.current_traces = <<>>
           /\ emu' = [s.emu EXCEPT !.mem = EmptyMap]
           /\ recorded' = IF saving THEN Record(recorded, emu.mem, s.touched)
                                    ELSE recorded
           /\ final_memory' = s.emu.mem
    /\ finished' = TRUE
    /\ UNCHANGED <<saving, saved, since, historyVars, replayVars, h_chunks>>

\* A mutant: the saved processor state is the one of the end of the chunk.
CheckpointOfChunkEnd ==
    [cpu |-> emu.cpu, prev_pc |-> emu.prev_pc, current_traces |-> emu.current_traces,
     mem |-> recorded, remaining |-> since]

\* The saved processor state, the recorded map and the number of steps.
CheckpointOfChunk ==
    [cpu |-> saved.cpu, prev_pc |-> saved.prev_pc,
     current_traces |-> saved.current_traces, mem |-> recorded, remaining |-> since]

\* save_checkpoint: hand out the current chunk and begin the next one.
SaveCheckpoint ==
    /\ saving
    /\ Len(checkpoints) < MaxCheckpoints
    /\ checkpoints' = Append(checkpoints, CheckpointOfChunk)
    /\ h_chunks' = Append(h_chunks, [from |-> h_from, to |-> Len(h_out)])
    /\ h_replayed' = Append(h_replayed, <<>>)
    /\ saved' = ProcessorState(emu)
    /\ recorded' = EmptyMap
    /\ since' = 0
    /\ h_from' = Len(h_out)
    /\ UNCHANGED <<emu, saving, finished, final_memory, h_out, h_states, h_stopped>>

----------------------------------------------------------------------------
(* Checkpoint: GeneralizedLazyTraceIter::next on checkpoint k, by whatever  *)
(* thread owns it.                                                          *)

Replaying(k) == k \in DOMAIN checkpoints /\ k \notin h_stopped

EmulatorOf(ck) ==
    [cpu |-> ck.cpu, prev_pc |-> ck.prev_pc, current_traces |-> ck.current_traces,
     mem |-> ck.mem]

CheckpointWith(e, n) ==
    [cpu |-> e.cpu, prev_pc |-> e.prev_pc, current_traces |-> e.current_traces,
     mem |-> e.mem, remaining |-> n]

\* The counter goes down with every cycle handed out, buffered or fresh.
Countdown(ck) == ck.remaining - 1

\* A cycle is handed out, or None because the replay's emulator produced none.
ReplayCycle(k) ==
    /\ Replaying(k)
    /\ checkpoints[k].remaining # 0
    /\ LET ck == checkpoints[k]
           s  == LazyStep(EmulatorOf(ck))
       IN  IF s.emu.current_traces # <<>>
           THEN /\ checkpoints' = [checkpoints EXCEPT
                       ![k] = CheckpointWith(Pop(s.emu), Countdown(ck))]
                /\ h_replayed' = [h_replayed EXCEPT
                       ![k] = Append(@, Last(s.emu.current_traces))]
                /\ h_stopped' = h_stopped
           ELSE /\ checkpoints' = [checkpoints EXCEPT
                       ![k] = CheckpointWith(s.emu, ck.remaining)]
                /\ h_replayed' = h_replayed
                /\ h_stopped' = h_stopped \cup {k}
    /\ UNCHANGED <<tracerVars, historyVars, h_chunks>>

\* has_terminated: all the cycles of the chunk have been handed out.
ReplayEnd(k) ==
    /\ Replaying(k)
    /\ checkpoints[k].remaining = 0
    /\ h_stopped' = h_stopped \cup {k}
    /\ UNCHANGED <<tracerVars, historyVars, h_chunks, checkpoints, h_replayed>>

Replay(k) == ReplayCycle(k) \/ ReplayEnd(k)

----------------------------------------------------------------------------

\* CheckpointingTracer::new.
New ==
    /\ \E c \in BootCpu, m \in BootMemory :
          emu = [cpu |-> c, prev_pc |-> ResetPc, current_traces |-> <<>>, mem |-> m]
    /\ recorded = EmptyMap
    /\ saved = ProcessorState(emu)
    /\ since = 0
    /\ finished = FALSE
    /\ final_memory = EmptyMap
    /\ checkpoints = <<>>
    /\ h_out = <<>>
    /\ h_states = <<emu>>
    /\ h_from = 0
    /\ h_chunks = <<>>
    /\ h_replayed = <<>>
    /\ h_stopped = {}

\* A new tracer on which start_saving_checkpoints has been called at once, as
\* trace_checkpoints, its only caller, does.  There the call saves the processor
\* state that New has saved already and turns recording on; it resets neither
\* the step counter nor a recording, so a call later on would count the cycles
\* before it as part of the first chunk.
Init == New /\ saving = TRUE

Next ==
    \/ NextCycle
    \/ Finish
    \/ SaveCheckpoint
    \/ \E k \in DOMAIN checkpoints : Replay(k)

Spec == Init /\ [][Next]_vars

----------------------------------------------------------------------------
(* Properties. *)

Emulator == [cpu : Cpu, prev_pc : Pc, current_traces : Seq(Cycle), mem : Map]
Processor == [cpu : Cpu, prev_pc : Pc, current_traces : Seq(Cycle)]
Checkpoint ==
    [cpu : Cpu, prev_pc : Pc, current_traces : Seq(Cycle), mem : Map, remaining : Nat]

\* The state of the tracer, of the checkpoints and of the history is well formed.
TypeOK ==
    /\ emu \in Emulator
    /\ saving \in BOOLEAN
    /\ recorded \in Map
    /\ saved \in Processor
    /\ since \in Nat
    /\ finished \in BOOLEAN
    /\ final_memory \in Map
    /\ checkpoints \in Seq(Checkpoint)
    /\ h_out \in Seq(Cycle)
    /\ h_states \in Seq(Emulator)
    /\ Len(h_states) = Len(h_out) + 1
    /\ h_from \in 0 .. Len(h_out)
    /\ h_chunks \in Seq([from : Nat, to : Nat])
    /\ Len(h_chunks) = Len(checkpoints)
    /\ h_replayed \in Seq(Seq(Cycle))
    /\ Len(h_replayed) = Len(checkpoints)
    /\ h_stopped \subseteq DOMAIN checkpoints

\* Every cycle a checkpoint's replay hands out is the one the tracer handed
\* out at that place of its chunk, although the replay runs on nothing but the
\* first-access values of the chunk (Checkpoint::lazy_step_cycle).
ReplayMatchesTrace ==
    \A k \in DOMAIN checkpoints : \A j \in 1 .. Len(h_replayed[k]) :
        /\ h_chunks[k].from + j <= Len(h_out)
        /\ h_replayed[k][j] = h_out[h_chunks[k].from + j]

\* A replay whose iterator has returned None has handed out the whole chunk:
\* it is neither cut short by a missing doubleword nor runs past the chunk.
ReplayIsWholeChunk ==
    \A k \in h_stopped : Len(h_replayed[k]) = h_chunks[k].to - h_chunks[k].from

\* The chunks of the checkpoints saved so far and the current chunk lie end to
\* end on the trace: no cycle is in two chunks or in none.
ChunksTileTrace ==
    /\ \A k \in DOMAIN h_chunks :
          /\ h_chunks[k].from = (IF k = 1 THEN 0 ELSE h_chunks[k - 1].to)
          /\ checkpoints[k].remaining + Len(h_replayed[k])
                = h_chunks[k].to - h_chunks[k].from
    /\ h_from = (IF h_chunks = <<>> THEN 0 ELSE h_chunks[Len(h_chunks)].to)
    /\ h_from + since = Len(h_out)

----------------------------------------------------------------------------
(* The inductive invariant behind the three properties above. *)

\* The tracer's emulator when p cycles had been handed out.
At(p) == h_states[p + 1]

\* The history is an execution: each state follows from the one before.
TraceIsExecution ==
    /\ ~finished => emu = At(Len(h_out))
    /\ \A p \in 0 .. Len(h_out) - 1 :
          LET s == LazyStep(At(p))
          IN  /\ s.emu.current_traces # <<>>
              /\ At(p + 1) = Pop(s.emu)
              /\ h_out[p + 1] = Last(s.emu.current_traces)

\* The recorded map and the saved state are those of the start of the current
\* chunk: every doubleword the chunk touched is recorded with its value at
\* that time, and a doubleword that is not recorded still has that value.
ChunkRecorded ==
    LET start == At(h_from)
    IN  /\ (~finished \/ h_from < Len(h_out)) => saved = ProcessorState(start)
        /\ \A i \in DOMAIN recorded : recorded[i] = Get(start.mem, i)
        /\ ~finished => \A i \in Index \ DOMAIN recorded : Get(emu.mem, i) = Get(start.mem, i)
        /\ \A p \in h_from .. Len(h_out) - 1 :
              LazyStep(At(p)).touched \subseteq DOMAIN recorded

\* What a checkpoint needs to go on replaying: it is in the processor state the
\* tracer was in at that place, its memory agrees with the tracer's where it is
\* defined, and it is defined wherever the rest of the chunk will look.
Faithful(ck, pos, to) ==
    /\ ProcessorState(ck) = ProcessorState(At(pos))
    /\ \A i \in DOMAIN ck.mem : ck.mem[i] = Get(At(pos).mem, i)
    /\ \A p \in pos .. to - 1 : LazyStep(At(p)).touched \subseteq DOMAIN ck.mem

CheckpointsFaithful ==
    \A k \in DOMAIN checkpoints :
        /\ h_chunks[k].from <= h_chunks[k].to /\ h_chunks[k].to <= Len(h_out)
        /\ checkpoints[k].remaining # 0 =>
              Faithful(checkpoints[k], h_chunks[k].from + Len(h_replayed[k]), h_chunks[k].to)
        /\ k \in h_stopped => checkpoints[k].remaining = 0

\* Each recording step, each save and each replay step keeps checkpoints and
\* trace in agreement (access_u64, save_checkpoint, lazy_step_cycle).
ReplayInvariant ==
    /\ TypeOK
    /\ saving
    /\ ChunksTileTrace
    /\ TraceIsExecution
    /\ ChunkRecorded
    /\ ReplayMatchesTrace
    /\ CheckpointsFaithful

=============================================================================
