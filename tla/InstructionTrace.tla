-------------------------- MODULE InstructionTrace --------------------------
(***************************************************************************)
(* The trace of one instruction.  The emulator fetches it, replaces it by  *)
(* its inline sequence and traces that sequence cycle by cycle; each cycle *)
(* is one row of the proof system's witness.  What the sequence leaves in  *)
(* registers, memory and pc is compared with what the instruction's own    *)
(* `exec` does, and each cycle with its lookup and the constraints.        *)
(*                                                                         *)
(* The prover is honest or not.  An honest one fills in the advice that    *)
(* the `trace` functions of the division instructions compute; the proof   *)
(* system accepts any advice, so a dishonest one chooses it.  A cycle      *)
(* whose assertion fails panics in the tracer and has no proof.            *)
(***************************************************************************)
EXTENDS VirtualSequences, InstructionLookups, FiniteSets

CONSTANTS
    Values,        \* register and immediate values of the boundary cases
    CornerValues,  \* the values for the operand patterns with aliases
    Patterns,      \* triples <<rd, rs1, rs2>> with aliases or with x0
    Offsets,       \* byte offsets of loads and stores
    Deltas         \* how far a forged quotient is from the honest one

VARIABLES
    instr,     \* the instruction fetched
    machine,   \* registers, pc, memory
    start,     \* the machine at the fetch
    sequence,  \* the inline sequence
    next,      \* index in sequence of the next cycle
    honest,    \* whether the advice is the tracer's
    cycle,     \* the last cycle traced
    status     \* "idle", "tracing", "done" or "rejected"

vars == <<instr, machine, start, sequence, next, honest, cycle, status>>

ArchRegisters == 0..3

\* The eight registers reserved for the sequences of single instructions.
InstructionRegisters == 4..11

FirstVirtual == 4

\* What earlier sequences left in the virtual registers.
Junk == 2^(XLEN - 1) + 5

RamStart == 16

CodeAddress == 32

Bases == {RamStart, RamStart + 2, RamStart + 4}

Memories ==
    {[a \in {RamStart, RamStart + 8} |-> v] : v \in {Ones - 2^(WordLen - 1), 2^(XLEN - 1) + 6}}

AnyMemory == CHOOSE m \in Memories : TRUE

NoCycle == [i |-> "none"]

-----------------------------------------------------------------------------
\* The instructions, by the form of their operands.

DivisionOps == {"DIV", "DIVU", "DIVW", "DIVUW", "REM", "REMU", "REMW", "REMUW"}

RegRegOps ==
    {"ADD", "ADDW", "SUB", "SUBW", "AND", "ANDN", "OR", "XOR", "SLT", "SLTU", "SLL", "SLLW", "SRL",
     "SRLW", "SRA", "SRAW", "MUL", "MULW", "MULH", "MULHSU", "MULHU"} \union DivisionOps

RegImmOps == {"ADDI", "ADDIW", "ANDI", "ORI", "XORI", "SLTI", "SLTIU"}

ImmOps == {"LUI", "AUIPC"}

ShiftImmOps == {"SLLI", "SLLIW", "SRLI", "SRLIW", "SRAI", "SRAIW"}

BranchOps == {"BEQ", "BNE", "BLT", "BGE", "BLTU", "BGEU"}

LoadOps == {"LB", "LBU", "LH", "LHU", "LW", "LWU", "LD"}

StoreOps == {"SB", "SH", "SW", "SD"}

AmoOps ==
    {"AMO" \o kind \o width : width \in {"D", "W"},
        kind \in {"SWAP", "ADD", "AND", "OR", "XOR", "MAX", "MIN", "MAXU", "MINU"}}

AdviceOps ==
    {"AdviceLB", "AdviceLH", "AdviceLW", "AdviceLD", "VirtualAdviceLen", "VirtualAdviceLoad"}

\* Native instructions that only custom inlines emit.
InlineRegOps == {"VirtualRev8W", "VirtualXORROT", "VirtualXORROTW"}

InlineImmOps == {"VirtualPow2I", "VirtualPow2IW", "VirtualShiftRightBitmaskI"}

RotateOps == {"VirtualROTRI", "VirtualROTRIW"}

-----------------------------------------------------------------------------
Fetched(op, rd, rs1, rs2, imm, advice, compressed) ==
    [op |-> op, rd |-> rd, rs1 |-> rs1, rs2 |-> rs2, imm |-> imm, address |-> CodeAddress,
     advice |-> advice, inSequence |-> FALSE, first |-> FALSE, remaining |-> 0,
     compressed |-> compressed]

\* The machine when exec runs: pc is past the instruction.
Start(i, a, b, memory) ==
    [x   |-> [r \in ArchRegisters \union InstructionRegisters |->
                CASE r = 0 -> 0 [] r = 1 -> a [] r = 2 -> b [] OTHER -> Junk],
     pc  |-> i.address + (IF i.compressed THEN 2 ELSE 4),
     mem |-> memory,
     ok  |-> TRUE]

Fetch(i, a, b, memory, truthful) ==
    /\ instr' = i
    /\ machine' = Start(i, a, b, memory)
    /\ start' = Start(i, a, b, memory)
    /\ sequence' = Inline(i, FirstVirtual)
    /\ next' = 1
    /\ honest' = truthful
    /\ cycle' = NoCycle
    /\ status' = "tracing"

\* The rotations that are part of the names of the XORROT instructions: 16, 24,
\* 32 and 63 for registers of 64 bits, 16, 12, 8 and 7 for words of 32.
Rotations(op) ==
    CASE op = "VirtualXORROT" -> {XLEN \div 4, (3 * XLEN) \div 8, XLEN \div 2, XLEN - 1}
      [] op = "VirtualXORROTW" ->
           {WordLen \div 2, (3 * WordLen) \div 8, WordLen \div 4, (WordLen \div 4) - 1}
      [] OTHER -> {0}

\* Two register operands: all boundary values, then aliases and x0.  A prover
\* that forges its advice gets the values of the second kind.
FetchRegReg ==
    \E op \in RegRegOps \union InlineRegOps : \E rotation \in Rotations(op) :
        \/ \E a, b \in Values :
             Fetch(Fetched(op, 3, 1, 2, rotation, 0, FALSE), a, b, AnyMemory, TRUE)
        \/ \E p \in Patterns, a, b \in CornerValues, truthful \in BOOLEAN :
             /\ truthful \/ op \in DivisionOps
             /\ Fetch(Fetched(op, p[1], p[2], p[3], rotation, 0, TRUE), a, b, AnyMemory, truthful)

FetchRegImm ==
    \E a \in Values, rd \in {0, 1, 3} :
        \/ \E op \in RegImmOps, imm \in Values :
             Fetch(Fetched(op, rd, 1, 0, imm, 0, FALSE), a, 0, AnyMemory, TRUE)
        \/ \E op \in ImmOps \union InlineImmOps :
             Fetch(Fetched(op, rd, 0, 0, a, 0, FALSE), 0, 0, AnyMemory, TRUE)
        \/ \E op \in ShiftImmOps, imm \in {0, 1, WordLen - 1, XLEN - 1} :
             Fetch(Fetched(op, rd, 1, 0, imm, 0, FALSE), a, 0, AnyMemory, TRUE)
        \/ \E op \in RotateOps, n \in {0, 1, WordLen - 1, XLEN - 1} :
             /\ op = "VirtualROTRIW" => n < WordLen
             /\ Fetch(Fetched(op, rd, 1, 0, ShiftBitmask(n), 0, FALSE), a, 0, AnyMemory, TRUE)

FetchControl ==
    \E a, b \in CornerValues, short \in BOOLEAN :
        \/ \E op \in BranchOps, imm \in {-16, 8} :
             Fetch(Fetched(op, 0, 1, 2, imm, 0, short), a, b, AnyMemory, TRUE)
        \/ \E op \in {"JAL", "JALR"}, rd \in {0, 1, 3}, imm \in {3, 8, Unsigned(-6)} :
             Fetch(Fetched(op, rd, IF op = "JAL" THEN 0 ELSE 1, 0, imm, 0, short), a, b,
                   AnyMemory, TRUE)
        \/ Fetch(Fetched("FENCE", 0, 0, 0, 0, 0, short), a, b, AnyMemory, TRUE)

FetchMemory ==
    \E base \in Bases, memory \in Memories, offset \in Offsets, b \in CornerValues :
        \/ \E op \in LoadOps, rd \in {0, 1, 3} :
             Fetch(Fetched(op, rd, 1, 0, offset, 0, FALSE), base, b, memory, TRUE)
        \/ \E op \in StoreOps, rs2 \in {1, 2} :
             Fetch(Fetched(op, 0, 1, rs2, offset, 0, FALSE), base, b, memory, TRUE)

FetchAmo ==
    \E op \in AmoOps, base \in Bases, memory \in Memories, b \in CornerValues :
        \E p \in {<<3, 1, 2>>, <<2, 1, 2>>, <<1, 1, 2>>, <<1, 1, 1>>, <<0, 1, 2>>} :
            Fetch(Fetched(op, p[1], p[2], p[3], 0, 0, FALSE), base, b, memory, TRUE)

FetchAdvice ==
    \E op \in AdviceOps, rd \in {0, 3}, tape \in Values :
        Fetch(Fetched(op, rd, 0, 0, 8, tape, FALSE), 0, 0, AnyMemory, TRUE)

-----------------------------------------------------------------------------
\* The advice of the division instructions: the quotient, then the absolute
\* remainder, as the `trace` functions compute them.

Operand(v) ==
    CASE instr.op \in {"DIV", "REM"} -> Signed(v)
      [] instr.op \in {"DIVW", "REMW"} -> SignedBits(v, WordLen)
      [] instr.op \in {"DIVU", "REMU"} -> v
      [] instr.op \in {"DIVUW", "REMUW"} -> ZeroExtend(v, WordLen)

Dividend == Operand(machine.x[instr.rs1])

Divisor == Operand(machine.x[instr.rs2])

AdvisedQuotient ==
    LET q == Quotient(Dividend, Divisor)
    IN CASE instr.op \in {"DIVW", "REMW"} -> SignExtend(q, WordLen)
         [] instr.op \in {"DIVUW", "REMUW"} -> ZeroExtend(q, WordLen)
         [] OTHER -> Unsigned(q)

AdvisedRemainder == Abs(Remainder(Dividend, Divisor))

\* Of the values a dishonest prover may put in place of the quotient and then of
\* the remainder: the one that the division identity forces, of either sign, is
\* among the latter.
ForgedQuotients == {Unsigned(AdvisedQuotient + d) : d \in Deltas} \union CornerValues

ForgedRemainders ==
    LET product == LowProduct(machine.x[sequence[1].rd], Unsigned(Divisor))
    IN {AdvisedRemainder, 0, Unsigned(Dividend - product), Unsigned(product - Dividend)}

AdviceChoices ==
    LET first == ~\E n \in 1..(next - 1) : sequence[n].op = "VirtualAdvice"
    IN CASE honest -> {IF first THEN AdvisedQuotient ELSE AdvisedRemainder}
         [] ~honest /\ first -> ForgedQuotients
         [] ~honest /\ ~first -> ForgedRemainders

-----------------------------------------------------------------------------
\* One cycle: Instruction::trace of the next instruction of the sequence.

RamAccess(i, before, after) ==
    LET a == MemoryAddress(before, i)
    IN IF i.op \in {"LD", "SD"} /\ Aligned(a, 8)
       THEN [address |-> a, read |-> before.mem[a], write |-> after.mem[a]]
       ELSE [address |-> 0, read |-> 0, write |-> 0]

\* What follows: the rest of the sequence, then the instruction at pc, taken to
\* be the first of a sequence; the one after a sequence comes next in the bytecode.
Following(after) ==
    IF next < Len(sequence)
    THEN [address |-> instr.address, pc |-> next + 1, inSequence |-> TRUE, first |-> FALSE,
          noop |-> FALSE]
    ELSE [address |-> after.pc, inSequence |-> TRUE, first |-> TRUE, noop |-> FALSE,
          pc |-> IF after.pc = instr.address + (IF instr.compressed THEN 2 ELSE 4)
                 THEN next + 1 ELSE 0]

TraceCycle(i) ==
    LET after == Exec(machine, i)
    IN /\ machine' = after
       /\ cycle' = [i |-> i, rs1 |-> machine.x[i.rs1], rs2 |-> machine.x[i.rs2],
                    rd |-> after.x[i.rd], ram |-> RamAccess(i, machine, after), pc |-> next,
                    next |-> Following(after)]
       /\ next' = next + 1
       /\ status' = CASE ~after.ok -> "rejected"
                      [] after.ok /\ next = Len(sequence) -> "done"
                      [] OTHER -> "tracing"
       /\ UNCHANGED <<instr, start, sequence, honest>>

TakeAdvice ==
    /\ status = "tracing"
    /\ sequence[next].op = "VirtualAdvice"
    /\ \E v \in AdviceChoices : TraceCycle([sequence[next] EXCEPT !.advice = v])

\* The instructions that read the advice tape all read the value of the fetch.
Trace ==
    /\ status = "tracing"
    /\ sequence[next].op # "VirtualAdvice"
    /\ TraceCycle([sequence[next] EXCEPT !.advice = instr.advice])

Init ==
    /\ status = "idle"
    /\ honest = TRUE
    /\ next = 1
    /\ sequence = <<>>
    /\ instr = "none"
    /\ machine = "none"
    /\ start = "none"
    /\ cycle = NoCycle

Next ==
    \/ /\ status = "idle"
       /\ \/ FetchRegReg \/ FetchRegImm \/ FetchControl
          \/ FetchMemory \/ FetchAmo \/ FetchAdvice
    \/ TakeAdvice
    \/ Trace

Spec == Init /\ [][Next]_vars

-----------------------------------------------------------------------------
\* What the instruction's own exec makes of the machine.
Expected == Exec(start, instr)

\* A load into x0 is dropped before it could find its address misaligned.
DroppedLoad == instr.op \in LoadOps /\ instr.rd = 0

\* The most negative word divided by zero, whose absolute remainder the
\* sequence takes for a negative word.
MostNegativeWordByZero ==
    /\ instr.op \in {"DIVW", "REMW"}
    /\ instr.rd # 0
    /\ SignedBits(start.x[instr.rs1], WordLen) = -(2^(WordLen - 1))
    /\ SignedBits(start.x[instr.rs2], WordLen) = 0

\* Whatever the advice, a sequence that is traced to its end leaves the program
\* with the registers, the memory and the pc of the instruction it replaces:
\* no forged quotient or remainder, no operand that is also the target and no
\* leftover of another sequence in a virtual register gets past the assertions
\* of the sequences.
SequenceImplementsExec ==
    status = "done" =>
        /\ \A r \in ArchRegisters : machine.x[r] = Expected.x[r]
        /\ machine.mem = Expected.mem
        /\ machine.pc = Expected.pc
        /\ Expected.ok \/ DroppedLoad

\* With the tracer's own advice a sequence fails exactly when the instruction
\* does (a misaligned access), with one exception: DIVW and REMW of the most
\* negative word by zero, for which no advice passes.
HonestNeverRejected ==
    /\ status = "rejected" /\ honest => ~Expected.ok \/ MostNegativeWordByZero
    /\ status = "done" => ~MostNegativeWordByZero

\* Every cycle of the tracer satisfies the constraint system with the entry of
\* its lookup table as the lookup output: the three definitions of what an
\* instruction computes (exec, to_lookup_output and the table) agree on all
\* the operands a sequence feeds it, and the carry, borrow and product operands
\* fit the index.  A cycle the emulator rejects has no satisfying witness,
\* unless the MMU is what rejects it.
ConstraintsHold ==
    cycle # NoCycle =>
        LET l      == LookupOf(cycle)
            output == LookupOutput(cycle, l)
        IN /\ l.output = output
           /\ OperandConstraints(cycle, l)
           /\ cycle.i.op # "VirtualChangeDivisorW" => VirtualizedInputs(cycle, l)
           /\ status # "rejected" =>
                /\ RamConstraints(cycle, l)
                /\ OutputConstraints(cycle, l, output)
                /\ PcConstraints(cycle, l, output)
           /\ status = "rejected" =>
                ~OutputConstraints(cycle, l, output) \/ cycle.i.op \in {"LD", "SD"}

\* The inputs a cycle gives to its lookup are the columns that the flags of its
\* instruction select.
InputsVirtualized == cycle # NoCycle => VirtualizedInputs(cycle, LookupOf(cycle))
=============================================================================
