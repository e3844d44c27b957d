--------------------- MODULE CheckpointingTracer_proofs ---------------------
(***************************************************************************)
(* Proofs about CheckpointingTracer and TraceCheckpoints, for every guest  *)
(* machine, every chunk length, every interval of trace_checkpoints and    *)
(* every interleaving of tracing, saving and replaying.                    *)
(***************************************************************************)
EXTENDS TraceCheckpoints, SequenceFacts

----------------------------------------------------------------------------
(* Sequences. *)

\* Reversing the cycles of a tick, and popping them, stays within sequences.
LEMMA ReverseType ==
    ASSUME NEW S, NEW s \in Seq(S)
    PROVE  Reverse(s) \in Seq(S)
<1>1. Len(s) \in Nat /\ \A i \in 1 .. Len(s) : s[i] \in S
  OBVIOUS
<1>2. \A i \in 1 .. Len(s) : (Len(s) - i) + 1 \in 1 .. Len(s)
  BY <1>1
<1>3. Reverse(s) \in [1 .. Len(s) -> S]
  BY <1>1, <1>2 DEF Reverse
<1> QED
  BY <1>1, <1>3

\* Taking the last cycle leaves a sequence of cycles and gives a cycle.
LEMMA PopType ==
    ASSUME NEW S, NEW s \in Seq(S), s # <<>>
    PROVE  Front(s) \in Seq(S) /\ Last(s) \in S
  BY DEF Front, Last

----------------------------------------------------------------------------
(* Memory. *)

\* A memory map is a function from some doublewords to values.
LEMMA MapDef ==
    ASSUME NEW m
    PROVE  m \in Map <=> (DOMAIN m \subseteq Index /\ m \in [DOMAIN m -> Value])
  BY DEF Map

\* The map of a new recording holds nothing.
LEMMA EmptyMapFacts ==
    EmptyMap \in Map /\ DOMAIN EmptyMap = {}
  BY MapDef DEF EmptyMap

\* get_u64 returns a doubleword, whether or not the map has one.
LEMMA GetType ==
    ASSUME NEW m \in Map, NEW i
    PROVE  Get(m, i) \in Value
  BY MapDef, ConstantsAssumption DEF Get

\* Reading a set of doublewords gives a value for each.
LEMMA ReadType ==
    ASSUME NEW m \in Map, NEW S
    PROVE  Read(m, S) \in [S -> Value]
  BY GetType DEF Read

\* Writing to D, a part of the touched set S.
LEMMA WriteFacts ==
    ASSUME NEW m \in Map, NEW S \in SUBSET Index, NEW D \in SUBSET S,
           NEW w \in [D -> Value]
    PROVE  /\ Write(m, S, D, w) \in Map
           /\ DOMAIN Write(m, S, D, w) = DOMAIN m \cup S
           /\ \A i \in D : Get(Write(m, S, D, w), i) = w[i]
           /\ \A i : i \notin D => Get(Write(m, S, D, w), i) = Get(m, i)
<1> DEFINE n == Write(m, S, D, w)
<1>1. DOMAIN m \subseteq Index
  BY MapDef
<1>2. DOMAIN n = DOMAIN m \cup S
  BY DEF Write
<1>3. \A i \in DOMAIN n : n[i] = IF i \in D THEN w[i] ELSE Get(m, i)
  BY DEF Write
<1>4. \A i \in DOMAIN n : n[i] \in Value
  BY <1>3, GetType
<1>5. n = [i \in DOMAIN n |-> n[i]]
  BY DEF Write
<1>6. n \in [DOMAIN n -> Value]
  BY <1>4, <1>5
<1>7. n \in Map
  BY <1>1, <1>2, <1>6, MapDef
<1>8. \A i \in D : Get(n, i) = w[i]
  BY <1>2, <1>3 DEF Get
<1>9. \A i : i \notin D => Get(n, i) = Get(m, i)
  BY <1>2, <1>3 DEF Get
<1> QED
  BY <1>2, <1>7, <1>8, <1>9

\* Recording keeps the entries there are and adds the others as they are in
\* memory at that moment (access_u64).
LEMMA RecordFacts ==
    ASSUME NEW r \in Map, NEW m \in Map, NEW S \in SUBSET Index
    PROVE  /\ Record(r, m, S) \in Map
           /\ DOMAIN Record(r, m, S) = DOMAIN r \cup S
           /\ \A i \in DOMAIN r : Record(r, m, S)[i] = r[i]
           /\ \A i \in S : i \notin DOMAIN r => Record(r, m, S)[i] = Get(m, i)
<1> DEFINE n == Record(r, m, S)
<1>1. DOMAIN r \subseteq Index /\ \A i \in DOMAIN r : r[i] \in Value
  BY MapDef
<1>2. DOMAIN n = DOMAIN r \cup S
  BY DEF Record
<1>3. \A i \in DOMAIN n : n[i] = IF i \in DOMAIN r THEN r[i] ELSE Get(m, i)
  BY DEF Record
<1>4. \A i \in DOMAIN n : n[i] \in Value
  BY <1>1, <1>3, GetType
<1>5. n = [i \in DOMAIN n |-> n[i]]
  BY DEF Record
<1>6. n \in [DOMAIN n -> Value]
  BY <1>4, <1>5
<1>7. n \in Map
  BY <1>1, <1>2, <1>6, MapDef
<1> QED
  BY <1>2, <1>3, <1>7

----------------------------------------------------------------------------
(* One step of the emulator. *)

\* A tick is well typed, touches what its result says, and changes no other
\* doubleword.
LEMMA TickFacts ==
    ASSUME NEW c \in Cpu, NEW m \in Map
    PROVE  /\ Tick(c, m).cpu \in Cpu
           /\ Tick(c, m).mem \in Map
           /\ Tick(c, m).cycles \in Seq(Cycle)
           /\ Tick(c, m).touched \subseteq Index
           /\ DOMAIN Tick(c, m).mem = DOMAIN m \cup Tick(c, m).touched
           /\ \A i : i \notin Tick(c, m).touched => Get(Tick(c, m).mem, i) = Get(m, i)
<1> DEFINE word == Read(m, FetchSet(c))
           data == DataSet(c, word)
           e    == Exec(c, word, Read(m, data))
           touched == FetchSet(c) \cup data
<1>1. word \in [FetchSet(c) -> Value] /\ FetchSet(c) \subseteq Index
  BY ReadType, MachineAssumption
<1>2. data \subseteq Index
  BY <1>1, MachineAssumption
<1>3. Read(m, data) \in [data -> Value]
  BY ReadType
<1>4. e \in Effect(c, word)
  BY <1>1, <1>3, MachineAssumption
<1>5. e.cpu \in Cpu /\ e.writes \in [data -> Value] /\ e.cycles \in Seq(Cycle)
  BY <1>4 DEF Effect
<1>6. Tick(c, m) = [cpu |-> e.cpu, mem |-> Write(m, touched, data, e.writes),
                    cycles |-> e.cycles, touched |-> touched]
  BY DEF Tick
<1>7. touched \in SUBSET Index /\ data \in SUBSET touched
  BY <1>1, <1>2
<1> HIDE DEF e, touched, data, word
<1>8. /\ Write(m, touched, data, e.writes) \in Map
      /\ DOMAIN Write(m, touched, data, e.writes) = DOMAIN m \cup touched
      /\ \A i : i \notin data => Get(Write(m, touched, data, e.writes), i) = Get(m, i)
  BY <1>5, <1>7, WriteFacts, ZenonT(30)
<1> QED
  BY <1>5, <1>6, <1>7, <1>8

\* Two memories that agree wherever a tick looks give the same tick.
LEMMA TickAgrees ==
    ASSUME NEW c \in Cpu, NEW m \in Map, NEW r \in Map,
           Tick(c, m).touched \subseteq DOMAIN r,
           \A i \in DOMAIN r : r[i] = Get(m, i)
    PROVE  /\ Tick(c, r).cpu = Tick(c, m).cpu
           /\ Tick(c, r).cycles = Tick(c, m).cycles
           /\ Tick(c, r).touched = Tick(c, m).touched
           /\ DOMAIN Tick(c, r).mem = DOMAIN r
           /\ \A i \in DOMAIN r : Tick(c, r).mem[i] = Get(Tick(c, m).mem, i)
<1> DEFINE word == Read(m, FetchSet(c))
           D == DataSet(c, word)
           e == Exec(c, word, Read(m, D))
           T == FetchSet(c) \cup D
           w == e.writes
<1>1. Tick(c, m) = [cpu |-> e.cpu, mem |-> Write(m, T, D, w),
                    cycles |-> e.cycles, touched |-> T]
  BY DEF Tick
<1>2. T \subseteq DOMAIN r
  BY <1>1
<1>3. \A i \in DOMAIN r : Get(r, i) = Get(m, i)
  BY DEF Get
<1>4. Read(r, FetchSet(c)) = word /\ Read(r, D) = Read(m, D)
  <2>1. FetchSet(c) \subseteq DOMAIN r /\ D \subseteq DOMAIN r
    BY <1>2
  <2> HIDE DEF D
  <2> QED
    BY <2>1, <1>3 DEF Read
<1>5. Tick(c, r) = [cpu |-> e.cpu, mem |-> Write(r, T, D, w),
                    cycles |-> e.cycles, touched |-> T]
  BY <1>4 DEF Tick
<1>6. T \in SUBSET Index /\ D \in SUBSET T
  BY <1>1, TickFacts
<1>7. w \in [D -> Value]
  <2>1. word \in [FetchSet(c) -> Value] /\ Read(m, D) \in [D -> Value]
    BY ReadType
  <2>2. e \in Effect(c, word)
    BY <2>1, MachineAssumption
  <2> QED
    BY <2>2 DEF Effect
<1> HIDE DEF T, D, w, e, word
<1>8. ASSUME NEW x \in Map
      PROVE  /\ DOMAIN Write(x, T, D, w) = DOMAIN x \cup T
             /\ \A i \in D : Get(Write(x, T, D, w), i) = w[i]
             /\ \A i : i \notin D => Get(Write(x, T, D, w), i) = Get(x, i)
  BY <1>6, <1>7, WriteFacts, ZenonT(60)
<1>9. DOMAIN Write(r, T, D, w) = DOMAIN r
  BY <1>2, <1>8
<1>10. ASSUME NEW i \in DOMAIN r
       PROVE  Write(r, T, D, w)[i] = Get(Write(m, T, D, w), i)
  <2>1. Write(r, T, D, w)[i] = Get(Write(r, T, D, w), i)
    BY <1>9 DEF Get
  <2>2. CASE i \in D
    BY <2>1, <2>2, <1>8
  <2>3. CASE i \notin D
    BY <2>1, <2>3, <1>3, <1>8
  <2> QED
    BY <2>2, <2>3
<1> QED
  BY <1>1, <1>5, <1>9, <1>10

\* A step of the emulator is well typed, touches doublewords of memory only, and
\* changes no other.
LEMMA LazyStepFacts ==
    ASSUME NEW e \in Emulator
    PROVE  /\ LazyStep(e).emu \in Emulator
           /\ LazyStep(e).touched \subseteq Index
           /\ \A i : i \notin LazyStep(e).touched =>
                 Get(LazyStep(e).emu.mem, i) = Get(e.mem, i)
<1> USE DEF Emulator
<1>1. CASE e.current_traces # <<>> \/ e.prev_pc = PcOf(e.cpu)
  BY <1>1 DEF LazyStep, StepEmulator
<1>2. CASE e.current_traces = <<>> /\ e.prev_pc # PcOf(e.cpu)
  <2> DEFINE t == Tick(e.cpu, e.mem)
  <2>1. /\ t.cpu \in Cpu /\ t.mem \in Map /\ t.cycles \in Seq(Cycle)
        /\ t.touched \subseteq Index
        /\ \A i : i \notin t.touched => Get(t.mem, i) = Get(e.mem, i)
    BY TickFacts
  <2>2. LazyStep(e) =
          [emu |-> [cpu |-> t.cpu, prev_pc |-> PcOf(e.cpu), mem |-> t.mem,
                    current_traces |-> Reverse(t.cycles)],
           touched |-> t.touched]
    BY <1>2 DEF LazyStep, StepEmulator
  <2>3. Reverse(t.cycles) \in Seq(Cycle) /\ PcOf(e.cpu) \in Pc
    BY <2>1, ReverseType, MachineAssumption
  <2> HIDE DEF t
  <2> QED
    BY <2>1, <2>2, <2>3
<1> QED
  BY <1>1, <1>2

\* Handing out a cycle changes nothing but the buffer.
LEMMA PopFacts ==
    ASSUME NEW e \in Emulator, e.current_traces # <<>>
    PROVE  /\ Pop(e) \in Emulator
           /\ Pop(e) = [cpu |-> e.cpu, prev_pc |-> e.prev_pc, mem |-> e.mem,
                        current_traces |-> Front(e.current_traces)]
           /\ Last(e.current_traces) \in Cycle
<1>1. e.current_traces \in Seq(Cycle)
  BY DEF Emulator
<1>2. Front(e.current_traces) \in Seq(Cycle) /\ Last(e.current_traces) \in Cycle
  BY <1>1, PopType
<1> QED
  BY <1>2 DEF Pop, Emulator

\* The core of the argument: an emulator in the same processor state, whose
\* memory agrees wherever the step looks, takes the same step.
LEMMA LazyStepAgrees ==
    ASSUME NEW e \in Emulator, NEW d \in Emulator,
           ProcessorState(d) = ProcessorState(e),
           LazyStep(e).touched \subseteq DOMAIN d.mem,
           \A i \in DOMAIN d.mem : d.mem[i] = Get(e.mem, i)
    PROVE  /\ ProcessorState(LazyStep(d).emu) = ProcessorState(LazyStep(e).emu)
           /\ DOMAIN LazyStep(d).emu.mem = DOMAIN d.mem
           /\ \A i \in DOMAIN d.mem :
                 LazyStep(d).emu.mem[i] = Get(LazyStep(e).emu.mem, i)
<1>1. d.cpu = e.cpu /\ d.prev_pc = e.prev_pc /\ d.current_traces = e.current_traces
  BY DEF ProcessorState
<1>2. CASE e.current_traces # <<>> \/ e.prev_pc = PcOf(e.cpu)
  BY <1>1, <1>2 DEF LazyStep, StepEmulator
<1>3. CASE e.current_traces = <<>> /\ e.prev_pc # PcOf(e.cpu)
  <2> DEFINE t == Tick(e.cpu, e.mem)
             u == Tick(e.cpu, d.mem)
  <2>1. /\ LazyStep(e) =
             [emu |-> [cpu |-> t.cpu, prev_pc |-> PcOf(e.cpu), mem |-> t.mem,
                       current_traces |-> Reverse(t.cycles)],
              touched |-> t.touched]
        /\ LazyStep(d) =
             [emu |-> [cpu |-> u.cpu, prev_pc |-> PcOf(e.cpu), mem |-> u.mem,
                       current_traces |-> Reverse(u.cycles)],
              touched |-> u.touched]
    BY <1>1, <1>3 DEF LazyStep, StepEmulator
  <2>2. e.cpu \in Cpu /\ e.mem \in Map /\ d.mem \in Map
    BY DEF Emulator
  <2>3. t.touched \subseteq DOMAIN d.mem
    BY <2>1
  <2>4. /\ u.cpu = t.cpu /\ u.cycles = t.cycles
        /\ DOMAIN u.mem = DOMAIN d.mem
        /\ \A i \in DOMAIN d.mem : u.mem[i] = Get(t.mem, i)
    BY <2>2, <2>3, TickAgrees
  <2> HIDE DEF t, u
  <2> QED
    BY <2>1, <2>4 DEF ProcessorState
<1> QED
  BY <1>2, <1>3

----------------------------------------------------------------------------
(* Type correctness. *)

\* Replacing one element of a sequence.
LEMMA ChangedEntry ==
    ASSUME NEW S, NEW s \in Seq(S), NEW k \in DOMAIN s, NEW x \in S
    PROVE  /\ [s EXCEPT ![k] = x] \in Seq(S)
           /\ Len([s EXCEPT ![k] = x]) = Len(s)
           /\ DOMAIN [s EXCEPT ![k] = x] = DOMAIN s
           /\ [s EXCEPT ![k] = x][k] = x
           /\ \A j \in DOMAIN s : j # k => [s EXCEPT ![k] = x][j] = s[j]
  OBVIOUS

\* A checkpoint is run as an emulator ...
LEMMA EmulatorOfType ==
    ASSUME NEW ck \in Checkpoint
    PROVE  EmulatorOf(ck) \in Emulator
  BY DEF Checkpoint, Emulator, EmulatorOf

\* ... and an emulator with a counter is a checkpoint.
LEMMA CheckpointWithType ==
    ASSUME NEW e \in Emulator, NEW n \in Nat
    PROVE  CheckpointWith(e, n) \in Checkpoint
  BY DEF Checkpoint, Emulator, CheckpointWith

\* A step of a replay keeps the checkpoints and the replayed cycles well typed.
LEMMA ReplayCycleType ==
    ASSUME TypeOK, NEW k \in DOMAIN checkpoints, ReplayCycle(k)
    PROVE  /\ checkpoints' \in Seq(Checkpoint)
           /\ Len(checkpoints') = Len(checkpoints)
           /\ h_replayed' \in Seq(Seq(Cycle))
           /\ Len(h_replayed') = Len(h_replayed)
           /\ h_stopped' \subseteq DOMAIN checkpoints
<1> DEFINE ck == checkpoints[k]
           s  == LazyStep(EmulatorOf(ck))
<1>0. ck \in Checkpoint
  BY DEF TypeOK
<1>1. ck \in Checkpoint /\ ck.remaining \in Nat
  BY <1>0 DEF Checkpoint
<1>2. s.emu \in Emulator
  BY <1>1, EmulatorOfType, LazyStepFacts
<1>3. k \in DOMAIN h_replayed /\ h_replayed[k] \in Seq(Cycle)
  BY DEF TypeOK
<1> HIDE DEF s
<1>4. CASE s.emu.current_traces # <<>>
  <2>1. /\ checkpoints' = [checkpoints EXCEPT ![k] = CheckpointWith(Pop(s.emu), Countdown(ck))]
        /\ h_replayed' = [h_replayed EXCEPT
              ![k] = Append(h_replayed[k], Last(s.emu.current_traces))]
        /\ h_stopped' = h_stopped
    BY <1>4 DEF ReplayCycle, s
  <2>2. Countdown(ck) \in Nat
    BY <1>1 DEF ReplayCycle, Countdown
  <2>3. CheckpointWith(Pop(s.emu), Countdown(ck)) \in Checkpoint
    BY <1>2, <1>4, <2>2, PopFacts, CheckpointWithType
  <2>4. Append(h_replayed[k], Last(s.emu.current_traces)) \in Seq(Cycle)
    BY <1>2, <1>3, <1>4, PopFacts
  <2>5. checkpoints' \in Seq(Checkpoint) /\ Len(checkpoints') = Len(checkpoints)
    BY <2>1, <2>3, ChangedEntry DEF TypeOK
  <2>6. h_replayed' \in Seq(Seq(Cycle)) /\ Len(h_replayed') = Len(h_replayed)
    BY <2>1, <2>4, <1>3, ChangedEntry DEF TypeOK
  <2> QED
    BY <2>1, <2>5, <2>6 DEF TypeOK
<1>5. CASE s.emu.current_traces = <<>>
  <2>1. /\ checkpoints' = [checkpoints EXCEPT ![k] = CheckpointWith(s.emu, ck.remaining)]
        /\ h_replayed' = h_replayed
        /\ h_stopped' = h_stopped \cup {k}
    BY <1>5 DEF ReplayCycle, s
  <2>2. CheckpointWith(s.emu, ck.remaining) \in Checkpoint
    BY <1>1, <1>2, CheckpointWithType
  <2>3. checkpoints' \in Seq(Checkpoint) /\ Len(checkpoints') = Len(checkpoints)
    BY <2>1, <2>2, ChangedEntry DEF TypeOK
  <2> QED
    BY <2>1, <2>3 DEF TypeOK
<1> QED
  BY <1>4, <1>5

\* What a step of the tracer records is a memory map.
LEMMA RecordedType ==
    ASSUME TypeOK
    PROVE  (IF saving THEN Record(recorded, emu.mem, LazyStep(emu).touched)
                      ELSE recorded) \in Map
<1>1. recorded \in Map /\ emu.mem \in Map /\ emu \in Emulator
  BY DEF TypeOK, Emulator
<1>2. LazyStep(emu).touched \in SUBSET Index
  BY <1>1, LazyStepFacts
<1> QED
  BY <1>1, <1>2, RecordFacts

\* A new tracer is well typed.
LEMMA InitType == Init => TypeOK
<1> SUFFICES ASSUME Init PROVE TypeOK
  OBVIOUS
<1>1. emu \in Emulator
  BY ConstantsAssumption DEF Init, New, Emulator
<1>2. saved \in Processor
  BY <1>1 DEF Init, New, Emulator, Processor, ProcessorState
<1>3. h_states \in Seq(Emulator) /\ Len(h_states) = 1
  BY <1>1 DEF Init, New
<1>4. /\ checkpoints \in Seq(Checkpoint) /\ Len(checkpoints) = 0
      /\ h_chunks \in Seq([from : Nat, to : Nat]) /\ Len(h_chunks) = 0
      /\ h_replayed \in Seq(Seq(Cycle)) /\ Len(h_replayed) = 0
      /\ h_out \in Seq(Cycle) /\ Len(h_out) = 0
  BY DEF Init, New
<1>5. /\ recorded \in Map /\ final_memory \in Map
      /\ since \in Nat /\ finished \in BOOLEAN /\ saving \in BOOLEAN
      /\ h_from = 0 /\ h_stopped = {}
  BY EmptyMapFacts DEF Init, New
<1> QED
  BY <1>1, <1>2, <1>3, <1>4, <1>5 DEF TypeOK

\* Every operation of the tracer and of a replay keeps the types.
LEMMA NextType == TypeOK /\ [Next]_vars => TypeOK'
<1> SUFFICES ASSUME TypeOK, [Next]_vars PROVE TypeOK'
  OBVIOUS
<1> USE DEF TypeOK
<1> DEFINE s == LazyStep(emu)
<1>1. emu \in Emulator /\ s.emu \in Emulator
  BY LazyStepFacts
<1>2. CASE NextCycle
  <2>1. /\ s.emu.current_traces # <<>>
        /\ emu' = Pop(s.emu)
        /\ h_out' = Append(h_out, Last(s.emu.current_traces))
        /\ h_states' = Append(h_states, Pop(s.emu))
        /\ recorded' \in Map
    BY <1>2, RecordedType DEF NextCycle
  <2>2. Pop(s.emu) \in Emulator /\ Last(s.emu.current_traces) \in Cycle
    BY <1>1, <2>1, PopFacts
  <2> HIDE DEF s
  <2>3. /\ h_out' \in Seq(Cycle) /\ Len(h_out') = Len(h_out) + 1
        /\ h_states' \in Seq(Emulator) /\ Len(h_states') = Len(h_states) + 1
    BY <2>1, <2>2
  <2> QED
    BY <1>2, <2>1, <2>2, <2>3 DEF NextCycle, replayVars
<1>3. CASE Finish
  <2>1. /\ emu' = [s.emu EXCEPT !.mem = EmptyMap]
        /\ final_memory' = s.emu.mem
        /\ recorded' \in Map
    BY <1>3, RecordedType DEF Finish
  <2> HIDE DEF s
  <2>2. emu' \in Emulator /\ final_memory' \in Map
    BY <1>1, <2>1, EmptyMapFacts DEF Emulator
  <2> QED
    BY <1>3, <2>1, <2>2 DEF Finish, historyVars, replayVars
<1>4. CASE SaveCheckpoint
  <2>1. CheckpointOfChunk \in Checkpoint
    BY DEF CheckpointOfChunk, Checkpoint, Processor
  <2>2. saved' \in Processor
    BY <1>1, <1>4 DEF SaveCheckpoint, ProcessorState, Processor, Emulator
  <2>3. checkpoints' \in Seq(Checkpoint) /\ Len(checkpoints') = Len(checkpoints) + 1
    BY <1>4, <2>1 DEF SaveCheckpoint
  <2>4. h_chunks' \in Seq([from : Nat, to : Nat]) /\ Len(h_chunks') = Len(h_chunks) + 1
    <3>1. [from |-> h_from, to |-> Len(h_out)] \in [from : Nat, to : Nat]
      OBVIOUS
    <3> QED
      BY <1>4, <3>1 DEF SaveCheckpoint
  <2>5. h_replayed' \in Seq(Seq(Cycle)) /\ Len(h_replayed') = Len(h_replayed) + 1
    <3>1. <<>> \in Seq(Cycle)
      OBVIOUS
    <3> QED
      BY <1>4, <3>1 DEF SaveCheckpoint
  <2> QED
    BY <1>4, <2>2, <2>3, <2>4, <2>5, EmptyMapFacts DEF SaveCheckpoint
<1>5. ASSUME NEW k \in DOMAIN checkpoints, ReplayCycle(k)
      PROVE  TypeOK'
  <2>1. UNCHANGED <<tracerVars, historyVars, h_chunks>>
    BY <1>5 DEF ReplayCycle
  <2>2. /\ checkpoints' \in Seq(Checkpoint)
        /\ Len(checkpoints') = Len(checkpoints)
        /\ h_replayed' \in Seq(Seq(Cycle))
        /\ Len(h_replayed') = Len(h_replayed)
        /\ h_stopped' \subseteq DOMAIN checkpoints
    BY <1>5, ReplayCycleType
  <2>3. DOMAIN checkpoints' = DOMAIN checkpoints
    BY <2>2
  <2> QED
    BY <2>1, <2>2, <2>3 DEF tracerVars, historyVars
<1>6. ASSUME NEW k \in DOMAIN checkpoints, ReplayEnd(k)
      PROVE  TypeOK'
  BY <1>6 DEF ReplayEnd, tracerVars, historyVars
<1>7. CASE UNCHANGED vars
  BY <1>7 DEF vars, tracerVars, historyVars, replayVars
<1> QED
  BY <1>2, <1>3, <1>4, <1>5, <1>6, <1>7 DEF Next, Replay

\* In every behaviour the tracer, its checkpoints and the history are well
\* formed; in particular no countdown of a replay goes below zero.
THEOREM TypeCorrect == Spec => []TypeOK
<1>1. Init => TypeOK
  BY InitType
<1>2. TypeOK /\ [Next]_vars => TypeOK'
  BY NextType
<1> QED
  BY <1>1, <1>2, PTL DEF Spec

----------------------------------------------------------------------------
(* Faithful replay. *)

\* Every state of the history is an emulator state.
LEMMA AtType ==
    ASSUME TypeOK, NEW p \in 0 .. Len(h_out)
    PROVE  At(p) \in Emulator
<1>1. p + 1 \in 1 .. Len(h_states)
  BY DEF TypeOK
<1> QED
  BY <1>1 DEF TypeOK, At

\* Appending to a sequence.
LEMMA AppendFacts ==
    ASSUME NEW S, NEW s \in Seq(S), NEW x \in S
    PROVE  /\ Append(s, x) \in Seq(S)
           /\ Len(Append(s, x)) = Len(s) + 1
           /\ DOMAIN Append(s, x) = 1 .. Len(s) + 1
           /\ \A j \in 1 .. Len(s) : Append(s, x)[j] = s[j]
           /\ Append(s, x)[Len(s) + 1] = x
  OBVIOUS

\* An element of a sequence.
LEMMA ElementType ==
    ASSUME NEW S, NEW s \in Seq(S), NEW j \in DOMAIN s
    PROVE  s[j] \in S
  OBVIOUS

\* The types of what belongs to one checkpoint.
LEMMA ChunkFacts ==
    ASSUME TypeOK, NEW k \in DOMAIN checkpoints
    PROVE  /\ k \in DOMAIN h_chunks /\ k \in DOMAIN h_replayed
           /\ h_chunks[k].from \in Nat /\ h_chunks[k].to \in Nat
           /\ checkpoints[k] \in Checkpoint /\ checkpoints[k].remaining \in Nat
           /\ h_replayed[k] \in Seq(Cycle) /\ Len(h_replayed[k]) \in Nat
<1>1. k \in DOMAIN h_chunks /\ k \in DOMAIN h_replayed
  BY DEF TypeOK
<1>2. h_chunks[k] \in [from : Nat, to : Nat]
  <2>1. h_chunks \in Seq([from : Nat, to : Nat])
    BY DEF TypeOK
  <2> QED
    BY <1>1, <2>1, ElementType, Zenon
<1>3. checkpoints[k] \in Checkpoint
  BY DEF TypeOK
<1>4. h_replayed[k] \in Seq(Cycle)
  BY <1>1 DEF TypeOK
<1>5. h_chunks[k].from \in Nat /\ h_chunks[k].to \in Nat
  BY <1>2
<1>6. checkpoints[k].remaining \in Nat
  BY <1>3 DEF Checkpoint
<1>7. Len(h_replayed[k]) \in Nat
  BY <1>4
<1> QED
  BY <1>1, <1>3, <1>4, <1>5, <1>6, <1>7

\* A tracer that has just begun to save satisfies the invariant: its only chunk
\* is empty.
LEMMA InitReplay == Init => ReplayInvariant
<1> SUFFICES ASSUME Init PROVE ReplayInvariant
  OBVIOUS
<1>1. TypeOK
  BY InitType
<1>2. /\ Len(h_out) = 0 /\ h_from = 0 /\ since = 0 /\ finished = FALSE /\ saving
      /\ DOMAIN checkpoints = {} /\ h_chunks = <<>> /\ DOMAIN h_chunks = {}
      /\ h_stopped = {} /\ recorded = EmptyMap
      /\ saved = ProcessorState(emu)
  BY DEF Init, New
<1>3. At(0) = emu
  BY DEF Init, New, At
<1>4. ChunksTileTrace
  BY <1>2 DEF ChunksTileTrace
<1>5. TraceIsExecution
  BY <1>2, <1>3 DEF TraceIsExecution
<1>6. ChunkRecorded
  BY <1>2, <1>3, EmptyMapFacts DEF ChunkRecorded
<1>7. ReplayMatchesTrace /\ CheckpointsFaithful
  BY <1>2 DEF ReplayMatchesTrace, CheckpointsFaithful
<1> QED
  BY <1>1, <1>2, <1>4, <1>5, <1>6, <1>7 DEF ReplayInvariant

\* The first-access values stay those of the start of the chunk when a step of
\* the tracer records what it touches.
LEMMA RecordKeepsChunk ==
    ASSUME ReplayInvariant, ~finished,
           recorded' = Record(recorded, emu.mem, LazyStep(emu).touched)
    PROVE  /\ DOMAIN recorded' = DOMAIN recorded \cup LazyStep(emu).touched
           /\ \A i \in DOMAIN recorded' : recorded'[i] = Get(At(h_from).mem, i)
           /\ \A i \in Index \ DOMAIN recorded' :
                 Get(LazyStep(emu).emu.mem, i) = Get(At(h_from).mem, i)
<1> DEFINE T == LazyStep(emu).touched
           m == At(h_from).mem
           n == LazyStep(emu).emu.mem
<1>1. emu \in Emulator /\ emu.mem \in Map /\ recorded \in Map
  BY DEF ReplayInvariant, TypeOK, Emulator
<1>2. T \in SUBSET Index /\ \A i : i \notin T => Get(n, i) = Get(emu.mem, i)
  BY <1>1, LazyStepFacts
<1>3. /\ \A i \in DOMAIN recorded : recorded[i] = Get(m, i)
      /\ \A i \in Index \ DOMAIN recorded : Get(emu.mem, i) = Get(m, i)
  BY DEF ReplayInvariant, ChunkRecorded
<1>0. recorded' = Record(recorded, emu.mem, T)
  OBVIOUS
<1> HIDE DEF T, m, n
<1>4. /\ DOMAIN recorded' = DOMAIN recorded \cup T
      /\ \A i \in DOMAIN recorded : recorded'[i] = recorded[i]
      /\ \A i \in T : i \notin DOMAIN recorded => recorded'[i] = Get(emu.mem, i)
  <2>1. recorded \in Map /\ emu.mem \in Map /\ T \in SUBSET Index
    BY <1>1, <1>2
  <2>2. /\ DOMAIN Record(recorded, emu.mem, T) = DOMAIN recorded \cup T
        /\ \A i \in DOMAIN recorded : Record(recorded, emu.mem, T)[i] = recorded[i]
        /\ \A i \in T : i \notin DOMAIN recorded =>
              Record(recorded, emu.mem, T)[i] = Get(emu.mem, i)
    BY <2>1, RecordFacts, ZenonT(30)
  <2> QED
    BY <1>0, <2>2
<1>5. \A i \in DOMAIN recorded' : recorded'[i] = Get(m, i)
  BY <1>2, <1>3, <1>4
<1>6. \A i \in Index \ DOMAIN recorded' : Get(n, i) = Get(m, i)
  BY <1>2, <1>3, <1>4
<1> QED
  BY <1>4, <1>5, <1>6 DEF T, m, n

\* Handing out a cycle extends the history and the recording of the current
\* chunk, and disturbs no checkpoint.
LEMMA NextCycleReplay ==
    ASSUME ReplayInvariant, NextCycle, TypeOK'
    PROVE  ReplayInvariant'
<1> DEFINE s == LazyStep(emu)
<1>0. PICK L \in Nat : L = Len(h_out)
  BY DEF ReplayInvariant, TypeOK
<1>1. TypeOK /\ saving /\ ~finished
  BY DEF ReplayInvariant, NextCycle
<1>2. /\ s.emu.current_traces # <<>>
      /\ emu' = Pop(s.emu)
      /\ recorded' = Record(recorded, emu.mem, s.touched)
      /\ h_out' = Append(h_out, Last(s.emu.current_traces))
      /\ h_states' = Append(h_states, Pop(s.emu))
      /\ since' = since + 1
      /\ UNCHANGED <<saving, saved, finished, h_from, checkpoints, h_replayed, h_stopped,
                     h_chunks>>
  BY <1>1 DEF NextCycle, replayVars
<1>3. /\ Len(h_out') = L + 1
      /\ \A p \in 0 .. L : At(p)' = At(p)
      /\ At(L + 1)' = Pop(s.emu)
      /\ \A j \in 1 .. L : h_out'[j] = h_out[j]
      /\ h_out'[L + 1] = Last(s.emu.current_traces)
  <2>1. Pop(s.emu) \in Emulator /\ Last(s.emu.current_traces) \in Cycle
    BY <1>1, <1>2, LazyStepFacts, PopFacts DEF TypeOK
  <2>2. Len(h_states) = L + 1 /\ h_states \in Seq(Emulator) /\ h_out \in Seq(Cycle)
    BY <1>0, <1>1 DEF TypeOK
  <2> HIDE DEF s
  <2>3. \A j \in 1 .. L + 1 : h_states'[j] = h_states[j]
    BY <1>2, <2>1, <2>2, AppendFacts
  <2>4. h_states'[L + 2] = Pop(s.emu)
    BY <1>2, <2>1, <2>2, AppendFacts
  <2>5. /\ Len(h_out') = L + 1
        /\ \A j \in 1 .. L : h_out'[j] = h_out[j]
        /\ h_out'[L + 1] = Last(s.emu.current_traces)
    BY <1>0, <1>2, <2>1, <2>2, AppendFacts
  <2> QED
    BY <1>0, <2>3, <2>4, <2>5 DEF At
<1>4. s.emu \in Emulator /\ emu = At(L)
  BY <1>0, <1>1, LazyStepFacts DEF ReplayInvariant, TypeOK, TraceIsExecution
<1>5. h_from \in 0 .. L
  BY <1>0, <1>1 DEF TypeOK
<1>6. ChunksTileTrace'
  <2>1. /\ since' = since + 1 /\ Len(h_out') = L + 1 /\ h_from + since = L
        /\ since \in Nat /\ UNCHANGED <<h_from, h_chunks, checkpoints, h_replayed>>
    BY <1>0, <1>1, <1>2, <1>3 DEF ReplayInvariant, ChunksTileTrace, TypeOK
  <2>2. h_from' + since' = Len(h_out')
    BY <2>1, <1>5
  <2> QED
    BY <2>1, <2>2 DEF ReplayInvariant, ChunksTileTrace
<1>7. TraceIsExecution'
  <2>1. emu' = At(L + 1)'
    BY <1>2, <1>3
  <2>2. ASSUME NEW p \in 0 .. L
        PROVE  LET t == LazyStep(At(p)')
               IN  /\ t.emu.current_traces # <<>>
                   /\ At(p + 1)' = Pop(t.emu)
                   /\ h_out'[p + 1] = Last(t.emu.current_traces)
    <3>1. CASE p = L
      BY <3>1, <1>0, <1>2, <1>3, <1>4
    <3>2. CASE p # L
      <4>1. p \in 0 .. L - 1 /\ p + 1 \in 0 .. L /\ p + 1 \in 1 .. L
        BY <3>2, <1>0
      <4> QED
        BY <4>1, <1>0, <1>3 DEF ReplayInvariant, TraceIsExecution
    <3> QED
      BY <3>1, <3>2
  <2>3. 0 .. Len(h_out') - 1 = 0 .. L
    BY <1>0, <1>3
  <2> HIDE DEF s
  <2> QED
    BY <2>1, <2>2, <2>3, <1>3 DEF TraceIsExecution
<1>8. ChunkRecorded'
  <2>1. /\ DOMAIN recorded' = DOMAIN recorded \cup s.touched
        /\ \A i \in DOMAIN recorded' : recorded'[i] = Get(At(h_from).mem, i)
        /\ \A i \in Index \ DOMAIN recorded' :
              Get(s.emu.mem, i) = Get(At(h_from).mem, i)
    BY <1>1, <1>2, RecordKeepsChunk
  <2>2. At(h_from)' = At(h_from) /\ emu'.mem = s.emu.mem
    BY <1>2, <1>3, <1>4, <1>5, PopFacts
  <2>3. saved' = ProcessorState(At(h_from))
    BY <1>1, <1>2 DEF ReplayInvariant, ChunkRecorded
  <2>4. ASSUME NEW p \in h_from .. L
        PROVE  LazyStep(At(p)').touched \subseteq DOMAIN recorded'
    <3>1. CASE p = L
      BY <3>1, <1>0, <1>3, <1>4, <2>1
    <3>2. CASE p # L
      <4>1. p \in h_from .. L - 1 /\ p \in 0 .. L
        BY <3>2, <1>0, <1>5
      <4>2. LazyStep(At(p)).touched \subseteq DOMAIN recorded
        BY <1>0, <4>1 DEF ReplayInvariant, ChunkRecorded
      <4> QED
        BY <4>1, <4>2, <1>3, <2>1
    <3> QED
      BY <3>1, <3>2
  <2>5. h_from' .. Len(h_out') - 1 = h_from .. L
    BY <1>0, <1>2, <1>3, <1>5
  <2> HIDE DEF s
  <2> QED
    BY <1>1, <1>2, <2>1, <2>2, <2>3, <2>4, <2>5 DEF ChunkRecorded
<1>9. ReplayMatchesTrace'
  <2>1. ASSUME NEW k \in DOMAIN checkpoints, NEW j \in 1 .. Len(h_replayed[k])
        PROVE  /\ h_chunks[k].from + j <= L + 1
               /\ h_replayed[k][j] = h_out'[h_chunks[k].from + j]
    <3>1. /\ h_chunks[k].from + j <= L
          /\ h_replayed[k][j] = h_out[h_chunks[k].from + j]
      BY <1>0 DEF ReplayInvariant, ReplayMatchesTrace
    <3>2. h_chunks[k].from \in Nat /\ Len(h_replayed[k]) \in Nat
      BY <1>1, ChunkFacts
    <3>3. h_chunks[k].from + j \in 1 .. L
      BY <3>1, <3>2, <1>0
    <3> QED
      BY <3>1, <3>3, <1>0, <1>3
  <2> HIDE DEF s
  <2> QED
    BY <2>1, <1>2, <1>3, ZenonT(30) DEF ReplayMatchesTrace
<1>10. CheckpointsFaithful'
  <2>1. ASSUME NEW k \in DOMAIN checkpoints
        PROVE  /\ h_chunks[k].from <= h_chunks[k].to /\ h_chunks[k].to <= L + 1
               /\ checkpoints[k].remaining # 0 =>
                     Faithful(checkpoints[k], h_chunks[k].from + Len(h_replayed[k]),
                              h_chunks[k].to)'
               /\ k \in h_stopped => checkpoints[k].remaining = 0
    <3>1. PICK pos \in Nat, to \in Nat :
            pos = h_chunks[k].from + Len(h_replayed[k]) /\ to = h_chunks[k].to
      BY <1>1, ChunkFacts
    <3>2. /\ h_chunks[k].from <= to /\ to <= L
          /\ checkpoints[k].remaining # 0 => Faithful(checkpoints[k], pos, to)
          /\ k \in h_stopped => checkpoints[k].remaining = 0
      BY <1>0, <3>1 DEF ReplayInvariant, CheckpointsFaithful
    <3>3. checkpoints[k].remaining + Len(h_replayed[k]) = to - h_chunks[k].from
      BY <1>1, <3>1, ChunkFacts DEF ReplayInvariant, ChunksTileTrace
    <3>4. pos <= to
      BY <1>1, <3>1, <3>3, ChunkFacts
    <3>5. \A p \in pos .. to : At(p)' = At(p)
      BY <3>1, <3>2, <1>0, <1>3
    <3>6. Faithful(checkpoints[k], pos, to) =>
            /\ ProcessorState(checkpoints[k]) = ProcessorState(At(pos)')
            /\ \A i \in DOMAIN checkpoints[k].mem :
                  checkpoints[k].mem[i] = Get(At(pos)'.mem, i)
            /\ \A p \in pos .. to - 1 :
                  LazyStep(At(p)').touched \subseteq DOMAIN checkpoints[k].mem
      <4>1. At(pos)' = At(pos)
        BY <3>1, <3>4, <3>5
      <4>2. \A p \in pos .. to - 1 : At(p)' = At(p)
        BY <3>1, <3>5
      <4> QED
        BY <4>1, <4>2 DEF Faithful
    <3>7. /\ checkpoints' = checkpoints
          /\ (h_chunks[k].from + Len(h_replayed[k]))' = pos /\ (h_chunks[k].to)' = to
      BY <1>2, <3>1
    <3>8. Faithful(checkpoints[k], pos, to) =>
            Faithful(checkpoints[k], h_chunks[k].from + Len(h_replayed[k]),
                     h_chunks[k].to)'
      BY <3>6, <3>7 DEF Faithful
    <3> QED
      BY <3>1, <3>2, <3>8, <1>0
  <2> HIDE DEF s
  <2> QED
    BY <2>1, <1>2, <1>3 DEF CheckpointsFaithful
<1> QED
  BY <1>1, <1>2, <1>6, <1>7, <1>8, <1>9, <1>10 DEF ReplayInvariant

\* The end of the program keeps the recording: only the tracer's memory goes.
LEMMA FinishReplay ==
    ASSUME ReplayInvariant, Finish, TypeOK'
    PROVE  ReplayInvariant'
<1>1. saving /\ ~finished
  BY DEF ReplayInvariant, Finish
<1>2. /\ recorded' = Record(recorded, emu.mem, LazyStep(emu).touched)
      /\ finished'
      /\ UNCHANGED <<saving, saved, since, h_out, h_states, h_from, checkpoints,
                     h_replayed, h_stopped, h_chunks>>
  BY <1>1 DEF Finish, historyVars, replayVars
<1>3. ChunksTileTrace' /\ ReplayMatchesTrace'
  BY <1>2 DEF ReplayInvariant, ChunksTileTrace, ReplayMatchesTrace
<1>4. TraceIsExecution'
  BY <1>2 DEF ReplayInvariant, TraceIsExecution, At
<1>5. CheckpointsFaithful'
  BY <1>2 DEF ReplayInvariant, CheckpointsFaithful, Faithful, At
<1>6. ChunkRecorded'
  <2>1. /\ DOMAIN recorded' = DOMAIN recorded \cup LazyStep(emu).touched
        /\ \A i \in DOMAIN recorded' : recorded'[i] = Get(At(h_from).mem, i)
    BY <1>1, <1>2, RecordKeepsChunk
  <2>2. UNCHANGED <<At(h_from), saved, h_from, Len(h_out)>>
    BY <1>2 DEF At
  <2>3. saved' = ProcessorState(At(h_from))'
    BY <1>1, <2>2 DEF ReplayInvariant, ChunkRecorded
  <2>4. \A p \in h_from .. Len(h_out) - 1 :
          LazyStep(At(p)').touched \subseteq DOMAIN recorded'
    <3>1. \A p \in h_from .. Len(h_out) - 1 :
            LazyStep(At(p)).touched \subseteq DOMAIN recorded
      BY DEF ReplayInvariant, ChunkRecorded
    <3>2. \A p \in h_from .. Len(h_out) - 1 : At(p)' = At(p)
      BY <1>2 DEF At
    <3> QED
      BY <2>1, <3>1, <3>2
  <2> QED
    BY <1>2, <2>1, <2>2, <2>3, <2>4 DEF ChunkRecorded
<1> QED
  BY <1>1, <1>2, <1>3, <1>4, <1>5, <1>6 DEF ReplayInvariant

\* save_checkpoint: the recording of the current chunk becomes a faithful
\* checkpoint, and an empty recording begins the next chunk.
LEMMA SaveReplay ==
    ASSUME ReplayInvariant, SaveCheckpoint, TypeOK'
    PROVE  ReplayInvariant'
<1>0. PICK L \in Nat, n \in Nat :
        L = Len(h_out) /\ n = Len(checkpoints)
  BY DEF ReplayInvariant, TypeOK
<1>1. TypeOK /\ saving
  BY DEF ReplayInvariant
<1>2. /\ saved' = ProcessorState(emu)
      /\ recorded' = EmptyMap /\ since' = 0 /\ h_from' = L
      /\ UNCHANGED <<emu, saving, finished, h_out, h_states, h_stopped>>
  BY <1>0 DEF SaveCheckpoint
<1>3. /\ checkpoints' = Append(checkpoints, CheckpointOfChunk)
      /\ h_chunks' = Append(h_chunks, [from |-> h_from, to |-> L])
      /\ h_replayed' = Append(h_replayed, <<>>)
  BY <1>0 DEF SaveCheckpoint
<1>4. /\ DOMAIN checkpoints = 1 .. n /\ DOMAIN checkpoints' = 1 .. n + 1
      /\ \A k \in 1 .. n : checkpoints'[k] = checkpoints[k]
      /\ checkpoints'[n + 1] = CheckpointOfChunk
  <2>1. CheckpointOfChunk \in Checkpoint
    BY <1>1 DEF TypeOK, CheckpointOfChunk, Checkpoint, Processor
  <2> QED
    BY <1>0, <1>1, <1>3, <2>1, AppendFacts DEF TypeOK
<1>5. /\ DOMAIN h_chunks = 1 .. n /\ DOMAIN h_chunks' = 1 .. n + 1
      /\ Len(h_chunks) = n /\ Len(h_chunks') = n + 1
      /\ \A k \in 1 .. n : h_chunks'[k] = h_chunks[k]
      /\ h_chunks'[n + 1] = [from |-> h_from, to |-> L]
  <2>1. h_chunks \in Seq([from : Nat, to : Nat]) /\ Len(h_chunks) = n
    BY <1>0, <1>1 DEF TypeOK
  <2>2. [from |-> h_from, to |-> L] \in [from : Nat, to : Nat]
    BY <1>0, <1>1 DEF TypeOK
  <2> QED
    BY <1>0, <1>3, <2>1, <2>2, AppendFacts
<1>6. /\ \A k \in 1 .. n : h_replayed'[k] = h_replayed[k]
      /\ h_replayed'[n + 1] = <<>>
  <2>1. <<>> \in Seq(Cycle)
    OBVIOUS
  <2> QED
    BY <1>0, <1>1, <1>3, <2>1, AppendFacts DEF TypeOK
<1>7. /\ h_from \in 0 .. L /\ since \in Nat /\ h_from + since = L
      /\ h_from = IF n = 0 THEN 0 ELSE h_chunks[n].to
  <2>1. h_from \in 0 .. L /\ since \in Nat
    BY <1>0, <1>1 DEF TypeOK
  <2>2. h_from + since = L
    BY <1>0 DEF ReplayInvariant, ChunksTileTrace
  <2>3. h_chunks = <<>> <=> n = 0
    <3>1. h_chunks \in Seq([from : Nat, to : Nat]) /\ Len(h_chunks) = n
      BY <1>1, <1>5 DEF TypeOK
    <3> QED
      BY <3>1
  <2>4. h_from = IF h_chunks = <<>> THEN 0 ELSE h_chunks[Len(h_chunks)].to
    BY DEF ReplayInvariant, ChunksTileTrace
  <2>5. Len(h_chunks) = n
    BY <1>5
  <2> QED
    BY <2>1, <2>2, <2>3, <2>4, <2>5
<1>8. CheckpointOfChunk.remaining = since
  BY DEF CheckpointOfChunk
<1>9. ChunksTileTrace'
  <2>1. ASSUME NEW k \in 1 .. n + 1
        PROVE  /\ h_chunks'[k].from = IF k = 1 THEN 0 ELSE h_chunks'[k - 1].to
               /\ checkpoints'[k].remaining + Len(h_replayed'[k])
                     = h_chunks'[k].to - h_chunks'[k].from
    <3>1. CASE k = n + 1
      <4>1. h_chunks'[k].from = h_from /\ h_chunks'[k].to = L
        BY <3>1, <1>5
      <4>2. checkpoints'[k].remaining = since /\ Len(h_replayed'[k]) = 0
        BY <3>1, <1>4, <1>6, <1>8
      <4>3. n # 0 => n \in 1 .. n
        BY <1>0
      <4>4. n # 0 => h_chunks'[k - 1].to = h_chunks[n].to
        BY <3>1, <4>3, <1>0, <1>5
      <4> QED
        BY <3>1, <4>1, <4>2, <4>4, <1>0, <1>7
    <3>2. CASE k # n + 1
      <4>1. k \in 1 .. n /\ (k # 1 => k - 1 \in 1 .. n)
        BY <3>2, <1>0
      <4>2. /\ h_chunks[k].from = IF k = 1 THEN 0 ELSE h_chunks[k - 1].to
            /\ checkpoints[k].remaining + Len(h_replayed[k])
                  = h_chunks[k].to - h_chunks[k].from
        BY <4>1, <1>5 DEF ReplayInvariant, ChunksTileTrace
      <4> QED
        BY <4>1, <4>2, <1>4, <1>5, <1>6
    <3> QED
      BY <3>1, <3>2
  <2>2. h_chunks' # <<>> /\ h_chunks'[Len(h_chunks')].to = L
    BY <1>0, <1>5
  <2>3. h_from' + since' = Len(h_out')
    BY <1>0, <1>2
  <2> QED
    BY <2>1, <2>2, <2>3, <1>2, <1>5 DEF ChunksTileTrace
<1>10. TraceIsExecution'
  BY <1>2 DEF ReplayInvariant, TraceIsExecution, At
<1>11. ChunkRecorded'
  <2>1. ~finished => emu = At(L)
    BY <1>0 DEF ReplayInvariant, TraceIsExecution
  <2>2. At(h_from)' = At(L) /\ Len(h_out') = L
    BY <1>0, <1>2 DEF At
  <2>3. h_from' .. Len(h_out') - 1 = {}
    BY <1>0, <1>2
  <2>4. DOMAIN recorded' = {}
    BY <1>2, EmptyMapFacts
  <2>5. ~(h_from' < Len(h_out'))
    BY <1>0, <1>2
  <2> QED
    BY <1>2, <2>1, <2>2, <2>3, <2>4, <2>5 DEF ChunkRecorded
<1>12. ReplayMatchesTrace'
  <2>1. ASSUME NEW k \in 1 .. n + 1, NEW j \in 1 .. Len(h_replayed'[k])
        PROVE  /\ h_chunks'[k].from + j <= Len(h_out')
               /\ h_replayed'[k][j] = h_out'[h_chunks'[k].from + j]
    <3>1. k # n + 1
      BY <1>6
    <3>2. k \in 1 .. n
      BY <3>1, <1>0
    <3>3. j \in 1 .. Len(h_replayed[k])
      BY <3>2, <1>6
    <3>4. /\ h_chunks[k].from + j <= Len(h_out)
          /\ h_replayed[k][j] = h_out[h_chunks[k].from + j]
      BY <3>2, <3>3, <1>4 DEF ReplayInvariant, ReplayMatchesTrace
    <3>5. h_chunks'[k] = h_chunks[k] /\ h_replayed'[k] = h_replayed[k] /\ h_out' = h_out
      BY <3>2, <1>2, <1>5, <1>6
    <3> QED
      BY <3>4, <3>5
  <2> QED
    BY <2>1, <1>4 DEF ReplayMatchesTrace
<1>13. CheckpointsFaithful'
  <2>1. ASSUME NEW k \in 1 .. n + 1
        PROVE  /\ h_chunks'[k].from <= h_chunks'[k].to /\ h_chunks'[k].to <= L
               /\ checkpoints'[k].remaining # 0 =>
                    Faithful(checkpoints'[k], h_chunks'[k].from + Len(h_replayed'[k]),
                             h_chunks'[k].to)
               /\ k \in h_stopped => checkpoints'[k].remaining = 0
    <3>1. CASE k = n + 1
      <4>1. h_chunks'[k].from = h_from /\ h_chunks'[k].to = L
        BY <3>1, <1>5
      <4>2. checkpoints'[k] = CheckpointOfChunk /\ Len(h_replayed'[k]) = 0
        BY <3>1, <1>4, <1>6
      <4>3. k \notin h_stopped
        BY <3>1, <1>0, <1>1, <1>4 DEF TypeOK
      <4>4. since # 0 => Faithful(CheckpointOfChunk, h_from, L)
        <5> SUFFICES ASSUME since # 0 PROVE Faithful(CheckpointOfChunk, h_from, L)
          OBVIOUS
        <5>1. h_from < L
          BY <1>7
        <5>2. saved = ProcessorState(At(h_from))
          BY <5>1, <1>0 DEF ReplayInvariant, ChunkRecorded
        <5>3. /\ ProcessorState(CheckpointOfChunk) = ProcessorState(saved)
              /\ CheckpointOfChunk.mem = recorded
          BY DEF ProcessorState, CheckpointOfChunk
        <5>4. ProcessorState(saved) = saved
          BY <5>2 DEF ProcessorState
        <5> QED
          BY <5>2, <5>3, <5>4, <1>0 DEF ReplayInvariant, ChunkRecorded, Faithful
      <4>5. h_from + 0 = h_from
        BY <1>7
      <4> QED
        BY <4>1, <4>2, <4>3, <4>4, <4>5, <1>0, <1>7, <1>8
    <3>2. CASE k # n + 1
      <4>1. k \in 1 .. n
        BY <3>2, <1>0
      <4> QED
        BY <4>1, <1>0, <1>4, <1>5, <1>6 DEF ReplayInvariant, CheckpointsFaithful
    <3> QED
      BY <3>1, <3>2
  <2>2. \A ck, pos, to : Faithful(ck, pos, to) <=> Faithful(ck, pos, to)'
    BY <1>2 DEF Faithful, At
  <2> QED
    BY <2>1, <2>2, <1>0, <1>2, <1>4 DEF CheckpointsFaithful
<1> QED
  BY <1>1, <1>2, <1>9, <1>10, <1>11, <1>12, <1>13 DEF ReplayInvariant

\* One step of a replay: it hands out the cycle the trace has at that place
\* and stays faithful to the tracer's next state.
LEMMA ReplayStepFaithful ==
    ASSUME ReplayInvariant, NEW k \in DOMAIN checkpoints, ReplayCycle(k),
           NEW pos \in Nat, pos = h_chunks[k].from + Len(h_replayed[k]),
           NEW to \in Nat, to = h_chunks[k].to
    PROVE  \E ck \in Checkpoint :
              /\ pos < to
              /\ ck.remaining = checkpoints[k].remaining - 1
              /\ Faithful(ck, pos + 1, to)
              /\ checkpoints' = [checkpoints EXCEPT ![k] = ck]
              /\ h_replayed' = [h_replayed EXCEPT ![k] = Append(h_replayed[k], h_out[pos + 1])]
              /\ h_stopped' = h_stopped
<1> DEFINE old == checkpoints[k]
           d == EmulatorOf(old)
           t == LazyStep(d)
           e == At(pos)
           s == LazyStep(e)
<1>1. /\ TypeOK /\ old \in Checkpoint /\ old.remaining \in Nat /\ old.remaining # 0
      /\ h_chunks[k].from \in Nat /\ Len(h_replayed[k]) \in Nat /\ Len(h_out) \in Nat
      /\ k \in DOMAIN h_chunks
  <2>1. TypeOK /\ old.remaining # 0
    BY DEF ReplayInvariant, ReplayCycle
  <2>2. Len(h_out) \in Nat
    BY <2>1 DEF TypeOK
  <2> QED
    BY <2>1, <2>2, ChunkFacts
<1>2. /\ to <= Len(h_out) /\ Faithful(old, pos, to)
      /\ old.remaining + Len(h_replayed[k]) = to - h_chunks[k].from
  BY <1>1 DEF ReplayInvariant, CheckpointsFaithful, ChunksTileTrace
<1>3. pos < to /\ pos \in 0 .. Len(h_out) - 1 /\ pos \in 0 .. Len(h_out)
  <2>1. PICK r \in Nat, n \in Nat, f \in Nat, l \in Nat :
          /\ r = old.remaining /\ n = Len(h_replayed[k])
          /\ f = h_chunks[k].from /\ l = Len(h_out)
    BY <1>1
  <2>2. r # 0 /\ to <= l /\ r + n = to - f /\ pos = f + n
    BY <1>1, <1>2, <2>1
  <2>3. pos < to /\ pos \in 0 .. l - 1 /\ pos \in 0 .. l
    BY <2>2
  <2> QED
    BY <2>1, <2>3
<1>4. d \in Emulator /\ e \in Emulator
  BY <1>1, <1>3, EmulatorOfType, AtType
<1>5. /\ s.emu.current_traces # <<>>
      /\ At(pos + 1) = Pop(s.emu)
      /\ h_out[pos + 1] = Last(s.emu.current_traces)
  BY <1>3 DEF ReplayInvariant, TraceIsExecution
<1>6. /\ ProcessorState(d) = ProcessorState(e)
      /\ s.touched \subseteq DOMAIN d.mem
      /\ \A i \in DOMAIN d.mem : d.mem[i] = Get(e.mem, i)
  <2>1. ProcessorState(d) = ProcessorState(old) /\ d.mem = old.mem
    BY DEF ProcessorState, EmulatorOf
  <2>2. pos \in pos .. to - 1
    BY <1>3
  <2> QED
    BY <1>2, <2>1, <2>2 DEF Faithful
<1>7. /\ ProcessorState(t.emu) = ProcessorState(s.emu)
      /\ DOMAIN t.emu.mem = DOMAIN d.mem
      /\ \A i \in DOMAIN d.mem : t.emu.mem[i] = Get(s.emu.mem, i)
  BY <1>4, <1>6, LazyStepAgrees
<1>8. t.emu \in Emulator /\ s.emu \in Emulator
  BY <1>4, LazyStepFacts
<1>9. t.emu.current_traces = s.emu.current_traces
  BY <1>7 DEF ProcessorState
<1>10. /\ checkpoints' = [checkpoints EXCEPT ![k] = CheckpointWith(Pop(t.emu), Countdown(old))]
       /\ h_replayed' = [h_replayed EXCEPT
             ![k] = Append(h_replayed[k], Last(t.emu.current_traces))]
       /\ h_stopped' = h_stopped
  BY <1>5, <1>9 DEF ReplayCycle
<1> DEFINE new == CheckpointWith(Pop(t.emu), Countdown(old))
<1>11. Countdown(old) \in Nat /\ Countdown(old) = old.remaining - 1
  BY <1>1 DEF Countdown
<1>12. /\ Pop(t.emu) \in Emulator
       /\ Pop(t.emu) = [cpu |-> t.emu.cpu, prev_pc |-> t.emu.prev_pc, mem |-> t.emu.mem,
                        current_traces |-> Front(t.emu.current_traces)]
       /\ Pop(s.emu) = [cpu |-> s.emu.cpu, prev_pc |-> s.emu.prev_pc, mem |-> s.emu.mem,
                        current_traces |-> Front(s.emu.current_traces)]
  BY <1>5, <1>8, <1>9, PopFacts
<1>13. new \in Checkpoint
  BY <1>11, <1>12, CheckpointWithType
<1>14. new.remaining = old.remaining - 1
  BY <1>11 DEF CheckpointWith
<1>15. new.mem = t.emu.mem /\ ProcessorState(new) = ProcessorState(Pop(t.emu))
  BY <1>12 DEF CheckpointWith, ProcessorState
<1>16. ProcessorState(Pop(t.emu)) = ProcessorState(Pop(s.emu))
  BY <1>7, <1>12 DEF ProcessorState
<1>17. Pop(s.emu).mem = s.emu.mem
  BY <1>12
<1>18. \A p \in pos + 1 .. to - 1 : LazyStep(At(p)).touched \subseteq DOMAIN d.mem
  <2>1. \A p \in pos .. to - 1 : LazyStep(At(p)).touched \subseteq DOMAIN old.mem
    BY <1>2 DEF Faithful
  <2>2. d.mem = old.mem
    BY DEF EmulatorOf
  <2> QED
    BY <2>1, <2>2
<1> HIDE DEF new, old, d, t, e, s
<1>19. Faithful(new, pos + 1, to)
  BY <1>5, <1>7, <1>15, <1>16, <1>17, <1>18 DEF Faithful
<1>20. checkpoints' = [checkpoints EXCEPT ![k] = new]
  BY <1>10 DEF new
<1>21. h_replayed' = [h_replayed EXCEPT ![k] = Append(h_replayed[k], h_out[pos + 1])]
  BY <1>5, <1>9, <1>10
<1>22. new.remaining = checkpoints[k].remaining - 1
  BY <1>14 DEF old
<1> QED
  BY <1>3, <1>10, <1>13, <1>19, <1>20, <1>21, <1>22

\* A replay step keeps the invariant, for the checkpoint that takes it and for
\* all others.
LEMMA ReplayCycleReplay ==
    ASSUME ReplayInvariant, NEW k \in DOMAIN checkpoints, ReplayCycle(k), TypeOK'
    PROVE  ReplayInvariant'
<1>0. TypeOK
  BY DEF ReplayInvariant
<1>1. PICK pos \in Nat, to \in Nat :
        pos = h_chunks[k].from + Len(h_replayed[k]) /\ to = h_chunks[k].to
  BY <1>0, ChunkFacts
<1>2. PICK ck \in Checkpoint :
         /\ pos < to
         /\ ck.remaining = checkpoints[k].remaining - 1
         /\ Faithful(ck, pos + 1, to)
         /\ checkpoints' = [checkpoints EXCEPT ![k] = ck]
         /\ h_replayed' = [h_replayed EXCEPT ![k] = Append(h_replayed[k], h_out[pos + 1])]
         /\ h_stopped' = h_stopped
  BY <1>1, ReplayStepFaithful
<1>3. UNCHANGED <<emu, saving, recorded, saved, since, finished, h_out, h_states, h_from,
                  h_chunks>>
  BY DEF ReplayCycle, tracerVars, historyVars
<1>4. /\ DOMAIN checkpoints' = DOMAIN checkpoints
      /\ checkpoints'[k] = ck
      /\ \A j \in DOMAIN checkpoints : j # k => checkpoints'[j] = checkpoints[j]
  BY <1>0, <1>2, ChangedEntry DEF TypeOK
<1>5. /\ h_chunks[k].from \in Nat /\ Len(h_replayed[k]) \in Nat
      /\ h_replayed[k] \in Seq(Cycle) /\ k \in DOMAIN h_replayed /\ k \in DOMAIN h_chunks
      /\ checkpoints[k].remaining \in Nat /\ Len(h_out) \in Nat
  <2>1. Len(h_out) \in Nat
    BY <1>0 DEF TypeOK
  <2> QED
    BY <1>0, <2>1, ChunkFacts
<1>6. to <= Len(h_out) /\ h_chunks[k].from <= to
  BY <1>1 DEF ReplayInvariant, CheckpointsFaithful
<1>7. h_out[pos + 1] \in Cycle
  <2>1. pos + 1 \in 1 .. Len(h_out)
    BY <1>1, <1>2, <1>5, <1>6
  <2> QED
    BY <2>1, <1>0 DEF TypeOK
<1>8. /\ h_replayed'[k] = Append(h_replayed[k], h_out[pos + 1])
      /\ \A j \in DOMAIN checkpoints : j # k => h_replayed'[j] = h_replayed[j]
  <2>1. DOMAIN h_replayed = DOMAIN checkpoints
    BY <1>0 DEF TypeOK
  <2> QED
    BY <1>2, <1>5, <2>1
<1>9. /\ Len(h_replayed'[k]) = Len(h_replayed[k]) + 1
      /\ \A j \in 1 .. Len(h_replayed[k]) : h_replayed'[k][j] = h_replayed[k][j]
      /\ h_replayed'[k][Len(h_replayed[k]) + 1] = h_out[pos + 1]
  BY <1>5, <1>7, <1>8, AppendFacts
<1>10. ChunksTileTrace'
  <2>1. checkpoints[k].remaining + Len(h_replayed[k]) = to - h_chunks[k].from
    BY <1>1, <1>5 DEF ReplayInvariant, ChunksTileTrace
  <2>2. checkpoints'[k].remaining + Len(h_replayed'[k]) = to - h_chunks[k].from
    <3>1. checkpoints'[k].remaining = checkpoints[k].remaining - 1
      BY <1>2, <1>4, Zenon
    <3>2. Len(h_replayed'[k]) = Len(h_replayed[k]) + 1
      BY <1>9
    <3>3. checkpoints[k].remaining \in Nat /\ Len(h_replayed[k]) \in Nat
      BY <1>5
    <3> QED
      BY <2>1, <3>1, <3>2, <3>3
  <2>3. DOMAIN h_chunks = DOMAIN checkpoints
    BY <1>0 DEF TypeOK
  <2>4. \A j \in DOMAIN h_chunks :
          /\ h_chunks[j].from = (IF j = 1 THEN 0 ELSE h_chunks[j - 1].to)
          /\ checkpoints'[j].remaining + Len(h_replayed'[j])
                = h_chunks[j].to - h_chunks[j].from
    BY <1>1, <2>2, <2>3, <1>4, <1>8 DEF ReplayInvariant, ChunksTileTrace
  <2> QED
    BY <2>4, <1>3 DEF ReplayInvariant, ChunksTileTrace
<1>11. TraceIsExecution' /\ ChunkRecorded'
  BY <1>3 DEF ReplayInvariant, TraceIsExecution, ChunkRecorded, At
<1>12. ReplayMatchesTrace'
  <2>1. ASSUME NEW q \in DOMAIN checkpoints, NEW j \in 1 .. Len(h_replayed'[q])
        PROVE  /\ h_chunks[q].from + j <= Len(h_out)
               /\ h_replayed'[q][j] = h_out[h_chunks[q].from + j]
    <3>1. CASE q # k
      BY <3>1, <1>8 DEF ReplayInvariant, ReplayMatchesTrace
    <3>2. CASE q = k /\ j = Len(h_replayed[k]) + 1
      <4>1. h_chunks[q].from + j = pos + 1
        <5>1. pos = h_chunks[k].from + Len(h_replayed[k])
          BY <1>1
        <5>2. h_chunks[k].from \in Nat /\ Len(h_replayed[k]) \in Nat
          BY <1>5
        <5> QED
          BY <3>2, <5>1, <5>2
      <4>2. pos + 1 <= Len(h_out)
        BY <1>1, <1>2, <1>5, <1>6
      <4> QED
        BY <3>2, <4>1, <4>2, <1>9
    <3>3. CASE q = k /\ j # Len(h_replayed[k]) + 1
      <4>1. j \in 1 .. Len(h_replayed[k])
        BY <3>3, <1>5, <1>9
      <4> QED
        BY <3>3, <4>1, <1>9 DEF ReplayInvariant, ReplayMatchesTrace
    <3> QED
      BY <3>1, <3>2, <3>3
  <2> QED
    BY <2>1, <1>3, <1>4 DEF ReplayMatchesTrace
<1>13. CheckpointsFaithful'
  <2>1. h_chunks[k].from + Len(h_replayed'[k]) = pos + 1
    <3>1. Len(h_replayed'[k]) = Len(h_replayed[k]) + 1
      BY <1>9
    <3>2. PICK n \in Nat, f \in Nat : n = Len(h_replayed[k]) /\ f = h_chunks[k].from
      BY <1>5
    <3>3. pos = f + n /\ Len(h_replayed'[k]) = n + 1
      BY <1>1, <3>1, <3>2
    <3> QED
      BY <3>2, <3>3
  <2>2. k \notin h_stopped
    BY DEF ReplayCycle, Replaying
  <2>3. ASSUME NEW q \in DOMAIN checkpoints
        PROVE  /\ h_chunks[q].from <= h_chunks[q].to /\ h_chunks[q].to <= Len(h_out)
               /\ checkpoints'[q].remaining # 0 =>
                    Faithful(checkpoints'[q], h_chunks[q].from + Len(h_replayed'[q]),
                             h_chunks[q].to)
               /\ q \in h_stopped => checkpoints'[q].remaining = 0
    <3>1. CASE q = k
      BY <3>1, <2>1, <2>2, <1>1, <1>2, <1>4, <1>6
    <3>2. CASE q # k
      BY <3>2, <1>4, <1>8 DEF ReplayInvariant, CheckpointsFaithful
    <3> QED
      BY <3>1, <3>2
  <2>4. \A c, p, q : Faithful(c, p, q) <=> Faithful(c, p, q)'
    BY <1>3 DEF Faithful, At
  <2> QED
    BY <2>3, <2>4, <1>2, <1>3, <1>4 DEF CheckpointsFaithful
<1> QED
  BY <1>3, <1>10, <1>11, <1>12, <1>13 DEF ReplayInvariant

\* Every operation keeps the invariant.
LEMMA NextReplay == ReplayInvariant /\ [Next]_vars => ReplayInvariant'
<1> SUFFICES ASSUME ReplayInvariant, [Next]_vars PROVE ReplayInvariant'
  OBVIOUS
<1>1. TypeOK'
  BY NextType DEF ReplayInvariant
<1>2. CASE NextCycle
  BY <1>1, <1>2, NextCycleReplay
<1>3. CASE Finish
  BY <1>1, <1>3, FinishReplay
<1>4. CASE SaveCheckpoint
  BY <1>1, <1>4, SaveReplay
<1>5. ASSUME NEW k \in DOMAIN checkpoints, ReplayCycle(k)
      PROVE  ReplayInvariant'
  BY <1>1, <1>5, ReplayCycleReplay
<1>6. ASSUME NEW k \in DOMAIN checkpoints, ReplayEnd(k)
      PROVE  ReplayInvariant'
  <2>1. /\ UNCHANGED <<emu, saving, recorded, saved, since, finished, h_out, h_states,
                       h_from, h_chunks, checkpoints, h_replayed>>
        /\ h_stopped' = h_stopped \cup {k}
        /\ checkpoints[k].remaining = 0
    BY <1>6 DEF ReplayEnd, tracerVars, historyVars
  <2>2. ChunksTileTrace' /\ ReplayMatchesTrace'
    BY <2>1 DEF ReplayInvariant, ChunksTileTrace, ReplayMatchesTrace
  <2>3. TraceIsExecution' /\ ChunkRecorded'
    BY <2>1 DEF ReplayInvariant, TraceIsExecution, ChunkRecorded, At
  <2>4. CheckpointsFaithful'
    BY <2>1 DEF ReplayInvariant, CheckpointsFaithful, Faithful, At
  <2> QED
    BY <1>1, <2>1, <2>2, <2>3, <2>4 DEF ReplayInvariant
<1>7. CASE UNCHANGED vars
  <2>1. UNCHANGED <<emu, saving, recorded, saved, since, finished, h_out, h_states,
                    h_from, h_chunks, checkpoints, h_replayed, h_stopped>>
    BY <1>7 DEF vars, tracerVars, historyVars, replayVars
  <2>2. ChunksTileTrace' /\ ReplayMatchesTrace'
    BY <2>1 DEF ReplayInvariant, ChunksTileTrace, ReplayMatchesTrace
  <2>3. TraceIsExecution' /\ ChunkRecorded'
    BY <2>1 DEF ReplayInvariant, TraceIsExecution, ChunkRecorded, At
  <2>4. CheckpointsFaithful'
    BY <2>1 DEF ReplayInvariant, CheckpointsFaithful, Faithful, At
  <2> QED
    BY <1>1, <2>1, <2>2, <2>3, <2>4 DEF ReplayInvariant
<1> QED
  BY <1>2, <1>3, <1>4, <1>5, <1>6, <1>7 DEF Next, Replay

\* The invariant implies what callers of the tracer rely on.
LEMMA ReplayInvariantImplies ==
    ReplayInvariant => ReplayMatchesTrace /\ ReplayIsWholeChunk /\ ChunksTileTrace
<1> SUFFICES ASSUME ReplayInvariant
             PROVE  ReplayIsWholeChunk
  BY DEF ReplayInvariant
<1> SUFFICES ASSUME NEW k \in h_stopped
             PROVE  Len(h_replayed[k]) = h_chunks[k].to - h_chunks[k].from
  BY DEF ReplayIsWholeChunk
<1>1. TypeOK /\ k \in DOMAIN checkpoints
  BY DEF ReplayInvariant, TypeOK
<1>2. k \in DOMAIN h_chunks /\ Len(h_replayed[k]) \in Nat
  BY <1>1, ChunkFacts
<1>3. checkpoints[k].remaining = 0
  BY <1>1 DEF ReplayInvariant, CheckpointsFaithful
<1>4. checkpoints[k].remaining + Len(h_replayed[k]) = h_chunks[k].to - h_chunks[k].from
  BY <1>2 DEF ReplayInvariant, ChunksTileTrace
<1> QED
  BY <1>2, <1>3, <1>4

\* Whatever the guest program and wherever the checkpoints are taken, the
\* inductive invariant of recording and replaying holds.
THEOREM ReplayInvariantHolds == Spec => []ReplayInvariant
<1>1. Init => ReplayInvariant
  BY InitReplay
<1>2. ReplayInvariant /\ [Next]_vars => ReplayInvariant'
  BY NextReplay
<1> QED
  BY <1>1, <1>2, PTL DEF Spec

\* Every replay of every checkpoint hands out exactly the cycles the tracer
\* handed out in that chunk, in that order, then stops; the chunks tile the
\* trace.
THEOREM ReplayCorrect ==
    Spec => [](ReplayMatchesTrace /\ ReplayIsWholeChunk /\ ChunksTileTrace)
<1>1. Spec => []ReplayInvariant
  BY ReplayInvariantHolds
<1>2. ReplayInvariant => ReplayMatchesTrace /\ ReplayIsWholeChunk /\ ChunksTileTrace
  BY ReplayInvariantImplies
<1> QED
  BY <1>1, <1>2, PTL

----------------------------------------------------------------------------
(* trace_checkpoints. *)

\* The chunks saved begin Interval cycles apart, and all but the last chunk of
\* a returned vector are that long.
ChunksAt ==
    \A k \in DOMAIN h_chunks :
        /\ h_chunks[k].from = Interval * (k - 1)
        /\ k < Len(h_chunks) \/ ~returned => h_chunks[k].to = Interval * k

\* What the loop knows: the current chunk and the cycles left to drop make one
\* interval until the program ends, which is before the last interval is full.
Loop ==
    /\ ChunksAt
    /\ ~returned => h_from = Interval * Len(h_chunks)
    /\ (~returned /\ ~finished) => since + left = Interval
    /\ (~returned /\ finished) => left = 0 /\ since < Interval
    /\ returned =>
        /\ finished /\ left = 0 /\ since = 0
        /\ Len(h_chunks) # 0
        /\ Interval * (Len(h_chunks) - 1) <= Len(h_out)
        /\ Len(h_out) < Interval * (Len(h_chunks) - 1) + Interval

\* The loop of trace_checkpoints on a tracer in good order; another client does
\* not run it.
DriverInv ==
    /\ ReplayInvariant
    /\ caller \in callers /\ left \in Nat /\ returned \in BOOLEAN
    /\ returned => caller = "trace_checkpoints"
    /\ caller = "trace_checkpoints" => Loop

\* The numbers the loop counts with.
LEMMA LoopTypes ==
    ASSUME TypeOK
    PROVE  /\ Len(h_chunks) \in Nat /\ DOMAIN h_chunks = 1 .. Len(h_chunks)
           /\ Len(h_out) \in Nat /\ since \in Nat /\ h_from \in Nat /\ finished \in BOOLEAN
           /\ Interval \in Nat \ {0}
           /\ \A k \in DOMAIN h_chunks : h_chunks[k].from \in Nat /\ h_chunks[k].to \in Nat
<1>1. h_chunks \in Seq([from : Nat, to : Nat]) /\ h_out \in Seq(Cycle)
  BY DEF TypeOK
<1>2. \A k \in DOMAIN h_chunks : h_chunks[k] \in [from : Nat, to : Nat]
  BY <1>1, ElementType, Zenon
<1>3. h_from \in 0 .. Len(h_out) /\ Len(h_out) \in Nat
  BY <1>1 DEF TypeOK
<1> QED
  BY <1>1, <1>2, <1>3, IntervalAssumption DEF TypeOK

\* Before the first call the loop is at the start of an empty trace.
LEMMA InitDriver == DriverInit => DriverInv
<1> SUFFICES ASSUME DriverInit PROVE DriverInv
  OBVIOUS
<1>1. ReplayInvariant
  BY InitReplay DEF DriverInit
<1>2. /\ Len(h_chunks) = 0 /\ DOMAIN h_chunks = {} /\ h_from = 0 /\ since = 0 /\ finished = FALSE
  BY DEF DriverInit, Init, New
<1>3. caller \in callers /\ left = Interval /\ returned = FALSE /\ Interval \in Nat
  BY IntervalAssumption DEF DriverInit
<1>4. Loop
  BY <1>2, <1>3 DEF Loop, ChunksAt
<1> QED
  BY <1>1, <1>3, <1>4 DEF DriverInv

\* A step of the driver is a step of the tracer or of nothing it can see.
LEMMA DriverStep == [DriverNext]_allVars => [Next]_vars
<1> SUFFICES ASSUME [DriverNext]_allVars PROVE [Next]_vars
  OBVIOUS
<1>1. CASE Drive
  BY <1>1 DEF Drive, DropCycle, DropFinish, SaveChunk, Next
<1>2. CASE OtherCaller
  BY <1>2 DEF OtherCaller
<1>3. ASSUME NEW k \in DOMAIN checkpoints, ReplayReturned(k) PROVE Next
  BY <1>3 DEF ReplayReturned, Next
<1>4. CASE UNCHANGED allVars
  BY <1>4 DEF allVars
<1> QED
  BY <1>1, <1>2, <1>3, <1>4 DEF DriverNext

\* One call of next() inside dropping: one cycle more, one call less.
LEMMA DropCycleLoop ==
    ASSUME TypeOK, Loop, left \in Nat, returned \in BOOLEAN, DropCycle
    PROVE  Loop' /\ left' \in Nat /\ returned' = returned
<1>1. left > 0 /\ ~finished /\ left' = left - 1 /\ returned' = returned
  BY DEF DropCycle, NextCycle
<1>2. ~returned
  BY <1>1 DEF Loop
<1>3. /\ since' = since + 1 /\ finished' = finished /\ h_from' = h_from
      /\ h_chunks' = h_chunks
  BY DEF DropCycle, NextCycle
<1>4. ChunksAt'
  BY <1>1, <1>3 DEF Loop, ChunksAt
<1>5. h_from' = Interval * Len(h_chunks')
  BY <1>2, <1>3 DEF Loop
<1>6. since' + left' = Interval
  BY <1>1, <1>2, <1>3, LoopTypes DEF Loop
<1> QED
  BY <1>1, <1>2, <1>3, <1>4, <1>5, <1>6 DEF Loop

\* The program ends inside dropping, so before the interval is full.
LEMMA DropFinishLoop ==
    ASSUME TypeOK, Loop, left \in Nat, returned \in BOOLEAN, DropFinish
    PROVE  Loop' /\ left' \in Nat /\ returned' = returned
<1>1. left > 0 /\ ~finished /\ left' = 0 /\ returned' = returned /\ finished'
  BY DEF DropFinish, Finish
<1>2. ~returned
  BY <1>1 DEF Loop
<1>3. since' = since /\ h_from' = h_from /\ h_chunks' = h_chunks
  BY DEF DropFinish, Finish, historyVars
<1>4. ChunksAt'
  BY <1>1, <1>3 DEF Loop, ChunksAt
<1>5. h_from' = Interval * Len(h_chunks')
  BY <1>2, <1>3 DEF Loop
<1>6. since' < Interval
  BY <1>1, <1>2, <1>3, LoopTypes DEF Loop
<1> QED
  BY <1>1, <1>2, <1>3, <1>4, <1>5, <1>6 DEF Loop

\* The chunk is saved: a whole interval, or what the end of the program left.
LEMMA SaveChunkLoop ==
    ASSUME TypeOK, ChunksTileTrace, Loop, left \in Nat, returned \in BOOLEAN, SaveChunk
    PROVE  Loop' /\ left' \in Nat /\ returned' = finished
<1> DEFINE n == Len(h_chunks)
           c == [from |-> h_from, to |-> Len(h_out)]
<1>1. /\ left = 0 /\ ~returned /\ returned' = finished
      /\ left' = IF finished THEN 0 ELSE Interval
  BY DEF SaveChunk
<1>2. /\ since' = 0 /\ finished' = finished /\ h_from' = Len(h_out) /\ h_out' = h_out
      /\ h_chunks' = Append(h_chunks, c)
  BY DEF SaveChunk, SaveCheckpoint
<1>3. /\ n \in Nat /\ DOMAIN h_chunks = 1 .. n /\ Len(h_out) \in Nat /\ since \in Nat
      /\ h_from \in Nat /\ finished \in BOOLEAN /\ Interval \in Nat \ {0}
  BY LoopTypes
<1>4. h_from = Interval * n /\ h_from + since = Len(h_out)
  BY <1>1 DEF Loop, ChunksTileTrace
<1>5. /\ Len(h_chunks') = n + 1 /\ DOMAIN h_chunks' = 1 .. n + 1 /\ h_chunks'[n + 1] = c
      /\ \A k \in 1 .. n : h_chunks'[k] = h_chunks[k]
  <2>1. h_chunks \in Seq([from : Nat, to : Nat]) /\ c \in [from : Nat, to : Nat]
    BY <1>3 DEF TypeOK
  <2> QED
    BY <1>2, <2>1
<1>6. Interval * (n + 1) = Interval * n + Interval /\ (n + 1) - 1 = n /\ Interval * n \in Nat
  BY <1>3
<1>7. \A k \in 1 .. n : h_chunks[k].from = Interval * (k - 1) /\ h_chunks[k].to = Interval * k
  BY <1>1, <1>3 DEF Loop, ChunksAt
<1>8. ~finished => Len(h_out) = Interval * (n + 1)
  BY <1>1, <1>3, <1>4, <1>6 DEF Loop
<1>9. finished => Interval * n <= Len(h_out) /\ Len(h_out) < Interval * n + Interval
  BY <1>1, <1>3, <1>4, <1>6 DEF Loop
<1> HIDE DEF n
<1>10. ASSUME NEW k \in 1 .. n + 1
       PROVE  /\ h_chunks'[k].from = Interval * (k - 1)
              /\ k < n + 1 \/ ~finished => h_chunks'[k].to = Interval * k
  <2>1. CASE k \in 1 .. n
    BY <1>5, <1>7, <2>1
  <2>2. CASE k = n + 1
    BY <1>4, <1>5, <1>6, <1>8, <2>2
  <2> QED
    BY <1>3, <2>1, <2>2
<1>11. ChunksAt'
  BY <1>1, <1>5, <1>10 DEF ChunksAt
<1>12. left' \in Nat
  BY <1>1, <1>3
<1>13. ~returned' => h_from' = Interval * Len(h_chunks')
  BY <1>1, <1>2, <1>5, <1>8
<1>14. (~returned' /\ ~finished') => since' + left' = Interval
  BY <1>1, <1>2, <1>3
<1>15. returned' =>
         /\ finished' /\ left' = 0 /\ since' = 0 /\ Len(h_chunks') # 0
         /\ Interval * (Len(h_chunks') - 1) <= Len(h_out')
         /\ Len(h_out') < Interval * (Len(h_chunks') - 1) + Interval
  <2>1. Len(h_chunks') - 1 = n /\ Len(h_chunks') # 0
    BY <1>3, <1>5
  <2>2. Interval * (Len(h_chunks') - 1) = Interval * n
    BY <2>1
  <2>3. ASSUME returned' PROVE finished
    BY <1>1, <2>3
  <2> QED
    BY <1>1, <1>2, <1>9, <2>1, <2>2, <2>3
<1>16. (~returned' /\ finished') => left' = 0 /\ since' < Interval
  BY <1>1, <1>2
<1> QED
  BY <1>1, <1>11, <1>12, <1>13, <1>14, <1>15, <1>16 DEF Loop

\* The driver keeps its invariant.
LEMMA NextDriver == DriverInv /\ [DriverNext]_allVars => DriverInv'
<1> SUFFICES ASSUME DriverInv, [DriverNext]_allVars PROVE DriverInv'
  OBVIOUS
<1>0. /\ TypeOK /\ ChunksTileTrace /\ caller \in callers /\ left \in Nat /\ returned \in BOOLEAN
      /\ finished \in BOOLEAN
  BY DEF DriverInv, ReplayInvariant, TypeOK
<1>1. ReplayInvariant'
  BY DriverStep, NextReplay DEF DriverInv
<1>2. ASSUME caller = "trace_checkpoints", caller' = caller,
             DropCycle \/ DropFinish \/ SaveChunk
      PROVE  DriverInv'
  <2>1. Loop
    BY <1>2 DEF DriverInv
  <2>2. Loop' /\ left' \in Nat /\ returned' \in BOOLEAN
    BY <1>0, <1>2, <2>1, DropCycleLoop, DropFinishLoop, SaveChunkLoop
  <2> QED
    BY <1>0, <1>1, <1>2, <2>2 DEF DriverInv
<1>3. CASE Drive
  BY <1>2, <1>3 DEF Drive, DriverInv, Loop
<1>4. CASE OtherCaller
  BY <1>1, <1>4 DEF OtherCaller, DriverInv, driverVars
<1>5. ASSUME UNCHANGED <<tracerVars, historyVars, h_chunks, driverVars>>
      PROVE  DriverInv'
  BY <1>1, <1>5 DEF DriverInv, driverVars, tracerVars, historyVars, Loop, ChunksAt
<1>6. ASSUME NEW k \in DOMAIN checkpoints, ReplayReturned(k) PROVE DriverInv'
  BY <1>5, <1>6 DEF ReplayReturned, Replay, ReplayCycle, ReplayEnd
<1>7. CASE UNCHANGED allVars
  BY <1>5, <1>7 DEF allVars, vars
<1> QED
  BY <1>3, <1>4, <1>6, <1>7 DEF DriverNext

\* The vector has one checkpoint more than the intervals the trace fills.
LEMMA ChunksCounted == DriverInv => ChunksAreIntervals
<1> SUFFICES ASSUME DriverInv, caller = "trace_checkpoints"
             PROVE  /\ \A k \in DOMAIN h_chunks :
                          /\ h_chunks[k].from = (k - 1) * Interval
                          /\ k < Len(h_chunks) => h_chunks[k].to = k * Interval
                    /\ returned => Len(checkpoints) = Len(h_out) \div Interval + 1
  BY DEF ChunksAreIntervals
<1>0. TypeOK /\ Loop
  BY DEF DriverInv, ReplayInvariant
<1>1. /\ Len(h_chunks) \in Nat /\ DOMAIN h_chunks = 1 .. Len(h_chunks)
      /\ Len(h_out) \in Nat /\ Interval \in Nat \ {0}
  BY <1>0, LoopTypes
<1>2. ASSUME NEW k \in DOMAIN h_chunks
      PROVE  /\ h_chunks[k].from = (k - 1) * Interval
             /\ k < Len(h_chunks) => h_chunks[k].to = k * Interval
  <2>1. k \in Nat /\ (k - 1) * Interval = Interval * (k - 1) /\ k * Interval = Interval * k
    BY <1>1
  <2> QED
    BY <1>0, <2>1 DEF Loop, ChunksAt
<1>3. ASSUME returned PROVE Len(checkpoints) = Len(h_out) \div Interval + 1
  <2> DEFINE m == Len(h_chunks) - 1
  <2>1. m \in Nat /\ Interval * m <= Len(h_out) /\ Len(h_out) < Interval * m + Interval
    BY <1>0, <1>1, <1>3 DEF Loop
  <2>2. Len(h_chunks) = Len(checkpoints) /\ Len(checkpoints) = m + 1
    BY <1>0, <1>1 DEF TypeOK
  <2> HIDE DEF m
  <2>3. Len(h_out) \div Interval = m
    BY <1>1, <2>1
  <2> QED
    BY <2>2, <2>3
<1> QED
  BY <1>2, <1>3

\* The replays of chunks that lie end to end, laid end to end.
LEMMA ReplaysTile == DriverInv => ReplaysRebuildTrace
<1> SUFFICES ASSUME DriverInv, returned, h_stopped = DOMAIN checkpoints
             PROVE  FlattenSeq(h_replayed) = h_out
  BY DEF ReplaysRebuildTrace
<1> DEFINE n == Len(h_replayed)
           to(k) == IF k = 0 THEN 0 ELSE h_chunks[k].to
<1>0. TypeOK /\ Loop /\ ReplayInvariant
  BY DEF DriverInv, ReplayInvariant
<1>1. ReplayMatchesTrace /\ ReplayIsWholeChunk /\ ChunksTileTrace
  BY <1>0, ReplayInvariantImplies
<1>2. /\ n \in Nat /\ n = Len(h_chunks) /\ DOMAIN checkpoints = 1 .. n /\ DOMAIN h_chunks = 1 .. n
      /\ h_replayed \in Seq(Seq(Cycle)) /\ h_out \in Seq(Cycle) /\ Len(h_out) \in Nat
      /\ checkpoints \in Seq(Checkpoint)
  BY <1>0 DEF TypeOK
<1>3. \A k \in 1 .. n : h_chunks[k].from \in Nat /\ h_chunks[k].to \in Nat
  BY <1>0, <1>2, LoopTypes
<1>4. ASSUME NEW k \in 1 .. n PROVE h_chunks[k].from = to(k - 1)
  <2>1. h_chunks[k].from = (IF k = 1 THEN 0 ELSE h_chunks[k - 1].to)
    BY <1>1, <1>2 DEF ChunksTileTrace
  <2>2. k - 1 = 0 <=> k = 1
    OBVIOUS
  <2> QED
    BY <2>1, <2>2
<1>5. to(n) = Len(h_out)
  <2>1. n # 0 /\ since = 0 /\ h_from \in Nat
    BY <1>0, <1>2, LoopTypes DEF Loop
  <2>2. h_chunks # <<>>
    BY <1>2, <2>1
  <2>3. h_from = h_chunks[n].to /\ h_from + since = Len(h_out)
    BY <1>1, <1>2, <2>2 DEF ChunksTileTrace
  <2> QED
    BY <2>1, <2>3
<1>6. ASSUME NEW k \in 1 .. n
      PROVE  /\ h_replayed[k] \in Seq(Cycle)
             /\ Len(h_replayed[k]) = h_chunks[k].to - h_chunks[k].from
             /\ h_chunks[k].from <= h_chunks[k].to /\ h_chunks[k].to <= Len(h_out)
             /\ \A j \in 1 .. Len(h_replayed[k]) :
                   h_replayed[k][j] = h_out[h_chunks[k].from + j]
  <2>1. h_replayed[k] \in Seq(Cycle)
    BY <1>2
  <2>2. Len(h_replayed[k]) = h_chunks[k].to - h_chunks[k].from
    BY <1>1, <1>2 DEF ReplayIsWholeChunk
  <2>3. h_chunks[k].from <= h_chunks[k].to /\ h_chunks[k].to <= Len(h_out)
    BY <1>0, <1>2 DEF ReplayInvariant, CheckpointsFaithful
  <2>4. \A j \in 1 .. Len(h_replayed[k]) : h_replayed[k][j] = h_out[h_chunks[k].from + j]
    BY <1>1, <1>2 DEF ReplayMatchesTrace
  <2> QED
    BY <2>1, <2>2, <2>3, <2>4
<1> DEFINE P == {k \in Nat : k <= n => FlattenTo(h_replayed, k) = SubSeq(h_out, 1, to(k))}
<1>7. 0 \in P
  <2>1. FlattenTo(h_replayed, 0) = <<>> /\ SubSeq(h_out, 1, 0) = <<>>
    BY <1>2, FlattenToFacts, SubSeqEmpty
  <2> QED
    BY <2>1
<1>8. ASSUME NEW k \in Nat, k \in P PROVE k + 1 \in P
  <2>1. CASE k < n
    <3> DEFINE r == h_replayed[k + 1]
               p == to(k)
               q == to(k + 1)
    <3>1. k + 1 \in 1 .. n /\ (k + 1) - 1 = k /\ k + 1 # 0
      BY <1>2, <2>1
    <3>2. r \in Seq(Cycle) /\ FlattenTo(h_replayed, k + 1) = FlattenTo(h_replayed, k) \o r
      BY <1>2, <2>1, FlattenToFacts
    <3>3. FlattenTo(h_replayed, k) = SubSeq(h_out, 1, p)
      BY <1>2, <1>8, <2>1
    <3>4. /\ p \in Nat /\ q \in Nat /\ p <= q /\ q <= Len(h_out) /\ Len(r) = q - p
          /\ \A j \in 1 .. Len(r) : r[j] = h_out[p + j]
      <4>1. h_chunks[k + 1].from = p /\ h_chunks[k + 1].to = q
        BY <1>4, <3>1
      <4>2. p \in Nat /\ q \in Nat
        BY <1>3, <3>1, <4>1
      <4>3. /\ Len(r) = h_chunks[k + 1].to - h_chunks[k + 1].from
            /\ h_chunks[k + 1].from <= h_chunks[k + 1].to /\ h_chunks[k + 1].to <= Len(h_out)
            /\ \A j \in 1 .. Len(r) : r[j] = h_out[h_chunks[k + 1].from + j]
        BY <1>6, <3>1
      <4> HIDE DEF p, q, r
      <4> QED
        BY <4>1, <4>2, <4>3
    <3> HIDE DEF p, q, r
    <3>5. SubSeq(h_out, 1, p) \o r = SubSeq(h_out, 1, q)
      <4> DEFINE a == SubSeq(h_out, 1, p)
                 b == SubSeq(h_out, 1, q)
      <4>1. /\ a \in Seq(Cycle) /\ Len(a) = p /\ b \in Seq(Cycle) /\ Len(b) = q
            /\ \A i \in 1 .. p : a[i] = h_out[i]
            /\ \A i \in 1 .. q : b[i] = h_out[i]
        BY <1>2, <3>4
      <4> HIDE DEF a, b
      <4>2. a \o r \in Seq(Cycle) /\ Len(a \o r) = q
        BY <3>2, <3>4, <4>1, SMTT(30)
      <4>3. ASSUME NEW i \in 1 .. q PROVE (a \o r)[i] = b[i]
        <5>1. CASE i <= p
          <6>1. i \in 1 .. p /\ i \in 1 .. Len(a)
            BY <3>4, <4>1, <5>1
          <6>2. (a \o r)[i] = a[i]
            BY <3>2, <4>1, <6>1
          <6>3. a[i] = h_out[i] /\ b[i] = h_out[i]
            BY <4>1, <6>1
          <6> QED
            BY <6>2, <6>3
        <5>2. CASE i > p
          <6>1. (i - p) \in 1 .. Len(r) /\ Len(a) + (i - p) = i /\ p + (i - p) = i
            BY <3>4, <4>1, <5>2
          <6>2. (a \o r)[i] = r[i - p]
            BY <3>2, <3>4, <4>1, <6>1
          <6> QED
            BY <3>4, <4>1, <6>1, <6>2
        <5>3. i <= p \/ i > p
          BY <3>4
        <5> QED
          BY <5>1, <5>2, <5>3
      <4> QED
        BY <4>1, <4>2, <4>3, SeqEqual
    <3>6. FlattenTo(h_replayed, k + 1) = SubSeq(h_out, 1, q)
      BY <3>2, <3>3, <3>5, Zenon
    <3> QED
      BY <3>6 DEF q
  <2> QED
    BY <1>2, <2>1
<1> HIDE DEF P
<1>9. n \in P
  BY <1>2, <1>7, <1>8, NatSetInduction
<1>10. FlattenTo(h_replayed, n) = SubSeq(h_out, 1, Len(h_out))
  BY <1>2, <1>5, <1>9 DEF P
<1>11. FlattenTo(h_replayed, n) = FlattenSeq(h_replayed) /\ SubSeq(h_out, 1, Len(h_out)) = h_out
  BY <1>2, FlattenToFacts, SubSeqFull
<1> QED
  BY <1>10, <1>11

\* The loop of trace_checkpoints, any other client of the tracer and the
\* owners of the returned checkpoints, in any interleaving, keep the tracer,
\* the checkpoints and the replays in agreement.
THEOREM DriverInvariant == DriverSpec => []DriverInv
<1>1. DriverInit => DriverInv
  BY InitDriver
<1>2. DriverInv /\ [DriverNext]_allVars => DriverInv'
  BY NextDriver
<1> QED
  BY <1>1, <1>2, PTL DEF DriverSpec

\* trace_checkpoints hands out Interval cycles to a checkpoint, the last one
\* excepted, which is empty when the interval divides the trace
\* (ChunksAreIntervals, for every program, interval and number of checkpoints).
THEOREM ChunksAreCounted == DriverSpec => []ChunksAreIntervals
<1>1. DriverInv => ChunksAreIntervals
  BY ChunksCounted
<1> QED
  BY <1>1, DriverInvariant, PTL

\* The replays of the returned vector, run concurrently and laid end to end,
\* are the trace that was executed once (ReplaysRebuildTrace).
THEOREM ReplaysAreTheTrace == DriverSpec => []ReplaysRebuildTrace
<1>1. DriverInv => ReplaysRebuildTrace
  BY ReplaysTile
<1> QED
  BY <1>1, DriverInvariant, PTL

=============================================================================
