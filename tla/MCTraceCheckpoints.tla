------------------------- MODULE MCTraceCheckpoints -------------------------
(***************************************************************************)
(* The tracer with a toy guest.                                            *)
(***************************************************************************)
EXTENDS TraceCheckpoints

(***************************************************************************)
(* A guest machine for the tracer.  Doublewords 0..2 hold one instruction  *)
(* each and doubleword 3 is data; the processor is a program counter and   *)
(* one register.  The set is small enough to run every program:            *)
(*   0  an instruction that cannot be fetched: no cycle (as a wait for     *)
(*      interrupts or a failing fetch)                                     *)
(*   1  LOAD   x := data, a virtual sequence of two cycles                 *)
(*   2  STORE  doubleword 2 + x is incremented (x = 0: self-modifying)     *)
(*   3  LOOP   jump to 0 if x = 1, otherwise fall through                  *)
(*   4  HALT   jump to itself                                              *)
(***************************************************************************)

Opcodes == 0 .. 4

MCCpu == [pc : 0 .. 2, x : 0 .. 1]
MCBootCpu == {[pc |-> 0, x |-> 0]}
MCPc == 0 .. 3
MCPcOf(c) == c.pc + 1
MCIndex == 0 .. 3
MCFetchSet(c) == {c.pc}

MCDataSet(c, w) ==
    CASE w[c.pc] = 1 -> {3}
      [] w[c.pc] = 2 -> {2 + c.x}
      [] OTHER -> {}

MCCycle == [pc : 0 .. 2, op : Opcodes, step : 1 .. 2, val : Opcodes]

Goto(c, p) == [c EXCEPT !.pc = p]
FallThrough(c) == Goto(c, (c.pc + 1) % 3)

MCExec(c, w, r) ==
    LET op == w[c.pc]
        entry(n, v) == [pc |-> c.pc, op |-> op, step |-> n, val |-> v]
    IN  CASE op = 0 -> [cpu |-> c, writes |-> r, cycles |-> <<>>]
          [] op = 1 -> [cpu |-> [FallThrough(c) EXCEPT !.x = r[3] % 2], writes |-> r,
                        cycles |-> <<entry(1, r[3]), entry(2, r[3])>>]
          [] op = 2 -> [cpu |-> FallThrough(c),
                        writes |-> [i \in DOMAIN r |-> (r[i] + 1) % 5],
                        cycles |-> <<entry(1, r[2 + c.x])>>]
          [] op = 3 -> [cpu |-> IF c.x = 1 THEN Goto(c, 0) ELSE FallThrough(c),
                        writes |-> r, cycles |-> <<entry(1, c.x)>>]
          [] op = 4 -> [cpu |-> c, writes |-> r, cycles |-> <<entry(1, 0)>>]

\* Every program of three instructions, over two initial data values; the
\* data doubleword is absent (zero) in half of them.
MCBootMemory ==
    {[i \in 0 .. 2 |-> code[i]] : code \in [0 .. 2 -> Opcodes]} \cup
    {[i \in 0 .. 3 |-> IF i = 3 THEN 1 ELSE code[i]] : code \in [0 .. 2 -> Opcodes]}

-----------------------------------------------------------------------------
(* The tracer on every program of the toy guest; trace_checkpoints on those *)
(* that end within MaxCycles.                                               *)

RECURSIVE EndsWithin(_, _)
EndsWithin(e, n) ==
    LET s == LazyStep(e)
    IN  \/ s.emu.current_traces = <<>>
        \/ n > 0 /\ EndsWithin(Pop(s.emu), n - 1)

Ends(m) ==
    \A c \in BootCpu :
        EndsWithin([cpu |-> c, prev_pc |-> ResetPc, current_traces |-> <<>>, mem |-> m],
                   MaxCycles)

MCInit == DriverInit /\ (caller = "trace_checkpoints" => Ends(emu.mem))

MCSpec == MCInit /\ [][DriverNext]_allVars /\ Fairness

=============================================================================
