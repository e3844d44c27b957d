------------------------- MODULE MCVirtualRegisters -------------------------
(* The shapes of the expansions in tracer/src/instruction and jolt-inlines,  *)
(* scaled down to pools of two and three registers.                          *)
EXTENDS VirtualRegisters

Do(op) == [op |-> op, guard |-> 0]

\* The k-th youngest guard.
DropNth(k) == [op |-> "drop", guard |-> k]

Instr(remapped, advice, sequence) ==
    [remapped |-> remapped, advice |-> advice, sequence |-> sequence]

\* Two temporaries: the older one is dropped while the younger is held, and its
\* register used again (v_mem and v_diff of SC.W).
Reuse ==
    Instr(FALSE, <<>>,
          <<Do("allocate"), Do("allocate"), DropNth(2), Do("allocate"), DropNth(2), DropNth(1)>>)

\* rd = x0 remapped to a register held around the whole expansion.
Remapped == Instr(TRUE, <<>>, <<Do("allocate"), DropNth(1)>>)

\* An inline: the advice builder's register, then the sequence's, with an emitted
\* instruction that expands in turn, then the registers to zero; the builder drops
\* its fields from the oldest on.
Inline ==
    Instr(FALSE,
          <<Do("allocate_for_advice"), DropNth(1)>>,
          <<Do("allocate_for_inline"), Do("allocate_for_inline"), Do("allocate"), DropNth(1),
            DropNth(2), DropNth(1), Do("reset")>>)

\* An inline that needs fewer registers than the other, with rd = x0.
SmallInline ==
    Instr(TRUE, <<>>, <<Do("allocate_for_inline"), DropNth(1), Do("reset")>>)

MCInstruction == {Reuse, Remapped, Inline, SmallInline}

MCSymmetry == Permutations(Emulator)

=============================================================================
