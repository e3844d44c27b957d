-------------------------- MODULE VirtualRegisters --------------------------
(***************************************************************************)
(* The VirtualRegisterAllocator of tracer/src/utils/virtual_registers.rs   *)
(* and the expansions that use it.  An instruction is expanded into its    *)
(* virtual sequence by code that allocates virtual registers and drops     *)
(* their guards as it goes, in whatever order; an inline also asks for the *)
(* registers to zero (finalize_inline).  A program's bytecode is expanded  *)
(* once, by decode, with an allocator of its own; the tracer expands every *)
(* instruction again as it executes it, after it has run the advice        *)
(* builder if an inline has one.  The two must name the same registers.    *)
(*                                                                         *)
(* An allocator is two mutexes behind Arcs, so a clone of an emulator (a   *)
(* Checkpoint, a LazyTraceIterator) shares it.                             *)
(***************************************************************************)
EXTENDS Naturals, Sequences, SequencesExt, FiniteSetsExt

CONSTANTS
    Emulator,       \* clones of one emulator, each on a thread of its own
    InstrRegs,      \* the pool of allocate() (registers 40-47)
    InlineRegs,     \* the pool of allocate_for_inline() (registers 48-)
    Instruction,    \* instructions, with the steps their expansion takes
    MaxExpansions   \* bound: instructions an emulator expands

\* The operations of an expansion on the allocator; the guard of a drop is counted
\* from the youngest.
Step(ops) == [op : ops, guard : Nat]
SequenceStep == Step({"allocate", "allocate_for_inline", "drop", "reset"})

\* The builder of an inline's advice emits nothing: its registers are not named.
AdviceStep == Step({"allocate_for_advice", "drop"})

Steps == SequenceStep \cup AdviceStep

ASSUME PoolAssumption ==
    /\ InstrRegs \subseteq Nat
    /\ InlineRegs \subseteq Nat
    /\ InstrRegs \cap InlineRegs = {}
    /\ MaxExpansions \in Nat
    /\ \A s \in Instruction :
          s \in [remapped : BOOLEAN, advice : Seq(AdviceStep), sequence : Seq(SequenceStep)]

----------------------------------------------------------------------------
(* An expansion by itself. *)

\* rd = x0 is remapped to a register held around the whole expansion.
RemapFirst(s) == IF s.remapped THEN <<[op |-> "allocate", guard |-> 0]>> ELSE <<>>
RemapLast(s) == IF s.remapped THEN <<[op |-> "drop", guard |-> 1]>> ELSE <<>>

\* The sequence, once the register for rd is allocated.
Sequence(s) == s.sequence \o RemapLast(s)

\* What decode does for an instruction, and what the tracer does.
Decoded(s) == RemapFirst(s) \o Sequence(s)
Traced(s) == RemapFirst(s) \o (s.advice \o Sequence(s))

\* The register as an operand of the sequence.
Named(op, r) == IF op = "allocate_for_advice" THEN <<>> ELSE <<r>>

Pool(op) == IF op = "allocate" THEN InstrRegs ELSE InlineRegs

\* The guard a drop means.
Position(guards, step) == Len(guards) + 1 - step.guard

\* One step of it: the guards held, the registers named, the inline registers to zero.
AloneStep(st, step) ==
    LET r == Min(Pool(step.op) \ Range(st.held))
        listed == IF r \in Range(st.used) THEN st.used ELSE Append(st.used, r)
    IN  CASE step.op \in {"allocate", "allocate_for_inline", "allocate_for_advice"} ->
               [held |-> Append(st.held, r),
                named |-> st.named \o Named(step.op, r),
                used |-> IF step.op = "allocate" THEN st.used ELSE listed]
          [] step.op = "drop" ->
               [held |-> RemoveAt(st.held, Position(st.held, step)),
                named |-> st.named, used |-> st.used]
          [] step.op = "reset" ->
               [held |-> st.held, named |-> st.named \o st.used, used |-> <<>>]

\* After each of its steps.
AloneFrom(s) ==
    LET after[i \in 0 .. Len(s)] ==
            IF i = 0 THEN [held |-> <<>>, named |-> <<>>, used |-> <<>>]
            ELSE AloneStep(after[i - 1], s[i])
    IN  after

\* What the bytecode names: the expansion by itself, with no other state than
\* the guards it holds and the inline registers it has used.
Alone(s) == AloneFrom(Decoded(s))[Len(Decoded(s))].named

\* A guard is dropped where it is held (it is a local of inline_sequence or of an
\* inline's builder), a register is free where one is asked for, and the inline's
\* registers are dropped when it asks for those to zero.
Fits(st, step) ==
    /\ step.op = "allocate" => ~(InstrRegs \subseteq Range(st.held))
    /\ step.op \in {"allocate_for_inline", "allocate_for_advice"} =>
          ~(InlineRegs \subseteq Range(st.held))
    /\ step.op = "drop" => step.guard \in 1 .. Len(st.held)
    /\ step.op = "reset" => InlineRegs \cap Range(st.held) = {}

\* By itself an expansion fits the pools and has dropped its guards by the end; an
\* inline ends with finalize_inline, after which nothing is listed.
ASSUME ExpansionAssumption ==
    \A s \in Instruction :
        LET after == AloneFrom(Traced(s))
            n == Len(Traced(s))
        IN  /\ after[n].held = <<>> /\ after[n].used = <<>>
            /\ \A i \in 1 .. n : Fits(after[i - 1], Traced(s)[i])

\* The advice and the sequence start from one builder (build_advice, build_sequence):
\* by the time the sequence resets, it has taken the registers the advice took, in
\* the same order and before any other.
ASSUME AdviceAssumption ==
    \A s \in Instruction :
        LET first == Len(RemapFirst(s))
            start == AloneFrom(Traced(s))[first]
            advised == AloneFrom(Traced(s))[first + Len(s.advice)]
        IN  /\ advised.held = start.held
            /\ \A i \in first .. Len(Decoded(s)) :
                 LET used == AloneFrom(Decoded(s))[i].used
                 IN  IsPrefix(used, advised.used) \/ IsPrefix(advised.used, used)
            /\ \A i \in first + 1 .. Len(Decoded(s)) :
                 Decoded(s)[i].op = "reset" =>
                     IsPrefix(advised.used, AloneFrom(Decoded(s))[i - 1].used)

----------------------------------------------------------------------------

VARIABLES
    allocated,      \* the registers whose flag is set
    pending,        \* pending_clearing_inline
    todo,           \* by emulator: the rest of the expansion under way
    held,           \* by emulator: the guards it holds, oldest first
    named,          \* by emulator: the registers its expansion has named so far
    asserted,       \* by emulator: get_registers_for_reset is past its assertion
    panicked,       \* the emulators that have panicked
    h_instr,        \* history, by emulator: the instruction being expanded, or the last one
    h_done,         \* history, by emulator: instructions expanded, with the outcome
    h_overlap       \* history: two emulators have been expanding at once

vars == <<allocated, pending, todo, held, named, asserted, panicked, h_instr, h_done, h_overlap>>

\* The emulator is about to take a step of this kind.
Running(e, op) ==
    /\ e \notin panicked
    /\ todo[e] # <<>>
    /\ Head(todo[e]).op = op

\* The registers an expansion names are its result; the last step completes it.
Proceed(e, reg) ==
    /\ todo' = [todo EXCEPT ![e] = Tail(@)]
    /\ named' = [named EXCEPT ![e] = @ \o reg]
    /\ h_done' = IF Len(todo[e]) > 1 THEN h_done
                 ELSE [h_done EXCEPT ![e] = Append(@, <<h_instr[e], named[e] \o reg>>)]

\* Unwinding drops every guard the emulator holds.
Panic(e) ==
    /\ panicked' = panicked \cup {e}
    /\ allocated' = allocated \ Range(held[e])
    /\ held' = [held EXCEPT ![e] = <<>>]
    /\ UNCHANGED <<pending, todo, named, asserted, h_instr, h_done, h_overlap>>

----------------------------------------------------------------------------

\* trace is called for the next instruction: it builds the advice and the sequence.
Expand(e, s) ==
    /\ e \notin panicked
    /\ todo[e] = <<>>
    /\ Len(h_done[e]) < MaxExpansions
    /\ todo' = [todo EXCEPT ![e] = Traced(s)]
    /\ named' = [named EXCEPT ![e] = <<>>]
    /\ h_instr' = [h_instr EXCEPT ![e] = s]
    /\ h_overlap' = (h_overlap \/ \E f \in Emulator \ {e} : todo[f] # <<>>)
    /\ UNCHANGED <<allocated, pending, held, asserted, panicked, h_done>>

\* The first free register of the pool, under the lock.
Take(e, op) ==
    LET r == Min(Pool(op) \ allocated)
    IN  /\ Pool(op) \ allocated # {}
        /\ allocated' = allocated \cup {r}
        /\ held' = [held EXCEPT ![e] = Append(@, r)]
        /\ Proceed(e, Named(op, r))

Allocate(e) ==
    /\ Running(e, "allocate")
    /\ \/ /\ Take(e, "allocate")
          /\ UNCHANGED <<pending, asserted, panicked, h_instr, h_overlap>>
       \/ InstrRegs \subseteq allocated /\ Panic(e)

\* A register goes on the list of those to zero once.
ListForReset(r) == IF r \in Range(pending) THEN pending ELSE Append(pending, r)

\* By the builder of the sequence, or by that of the advice.
AllocateForInline(e) ==
    \E op \in {"allocate_for_inline", "allocate_for_advice"} :
        /\ Running(e, op)
        /\ \/ /\ Take(e, op)
              /\ pending' = ListForReset(Min(InlineRegs \ allocated))
              /\ UNCHANGED <<asserted, panicked, h_instr, h_overlap>>
           \/ InlineRegs \subseteq allocated /\ Panic(e)

\* A mutant: only the flags of the instruction pool are cleared.
DeallocateInstr(r) == IF r \in InstrRegs THEN allocated \ {r} ELSE allocated

Deallocate(r) == allocated \ {r}

\* A guard goes out of scope, or is dropped before.
Drop(e) ==
    LET i == Position(held[e], Head(todo[e]))
    IN  /\ Running(e, "drop")
        /\ allocated' = Deallocate(held[e][i])
        /\ held' = [held EXCEPT ![e] = RemoveAt(@, i)]
        /\ Proceed(e, <<>>)
        /\ UNCHANGED <<pending, asserted, panicked, h_instr, h_overlap>>

\* get_registers_for_reset asserts that no inline register is allocated and
\* releases the lock ...
AssertDropped(e) ==
    /\ Running(e, "reset")
    /\ ~asserted[e]
    /\ \/ /\ InlineRegs \cap allocated = {}
          /\ asserted' = [asserted EXCEPT ![e] = TRUE]
          /\ UNCHANGED <<allocated, pending, todo, held, named, panicked, h_instr, h_done, h_overlap>>
       \/ InlineRegs \cap allocated # {} /\ Panic(e)

\* A mutant: the list is read and not taken.
ReadForReset == pending

LeftAfterReset == <<>>

\* ... and then takes the list, under the other lock.
TakeForReset(e) ==
    /\ Running(e, "reset")
    /\ asserted[e]
    /\ asserted' = [asserted EXCEPT ![e] = FALSE]
    /\ pending' = LeftAfterReset
    /\ Proceed(e, pending)
    /\ UNCHANGED <<allocated, held, panicked, h_instr, h_overlap>>

NoInstruction == [remapped |-> FALSE, advice |-> <<>>, sequence |-> <<>>]

Init ==
    /\ allocated = {}
    /\ pending = <<>>
    /\ todo = [e \in Emulator |-> <<>>]
    /\ held = [e \in Emulator |-> <<>>]
    /\ named = [e \in Emulator |-> <<>>]
    /\ asserted = [e \in Emulator |-> FALSE]
    /\ panicked = {}
    /\ h_instr = [e \in Emulator |-> NoInstruction]
    /\ h_done = [e \in Emulator |-> <<>>]
    /\ h_overlap = FALSE

Next ==
    \E e \in Emulator :
        \/ \E s \in Instruction : Expand(e, s)
        \/ Allocate(e)
        \/ AllocateForInline(e)
        \/ Drop(e)
        \/ AssertDropped(e)
        \/ TakeForReset(e)

Spec == Init /\ [][Next]_vars

----------------------------------------------------------------------------

\* Guards and lists hold virtual registers, and only the allocatable ones: the
\* reserved registers 32-39 are never handed out.
TypeOK ==
    /\ allocated \subseteq InstrRegs \cup InlineRegs
    /\ pending \in Seq(InlineRegs)
    /\ todo \in [Emulator -> Seq(Steps)]
    /\ held \in [Emulator -> Seq(InstrRegs \cup InlineRegs)]
    /\ named \in [Emulator -> Seq(InstrRegs \cup InlineRegs)]
    /\ asserted \in [Emulator -> BOOLEAN]
    /\ panicked \subseteq Emulator

\* However the emulators interleave, and whichever of them panics, a register
\* has one live guard, and the flags are exactly the live guards: none leaks.
OneGuardPerRegister ==
    /\ \A e \in Emulator : IsInjective(held[e])
    /\ \A e, f \in Emulator : e # f => Range(held[e]) \cap Range(held[f]) = {}
    /\ allocated = UNION {Range(held[e]) : e \in Emulator}

\* The tracer's expansion of an instruction names the registers its bytecode
\* names, whatever was expanded before it.
ExpansionMatchesBytecode ==
    \A e \in Emulator : \A i \in DOMAIN h_done[e] :
        h_done[e][i][2] = Alone(h_done[e][i][1])

\* So it does as long as the clones that share an allocator take turns: each
\* leaves it as it found it.
TurnsMatchBytecode == ~h_overlap => ExpansionMatchesBytecode

\* Nor does an emulator run out of registers, or find an inline register allocated
\* at the end of an inline, when every instruction by itself fits the pools.
NoPanic == ~h_overlap => panicked = {}

=============================================================================
