------------------------- MODULE InstructionLookups -------------------------
(***************************************************************************)
(* What the proof system claims about one cycle of the trace: the lookup   *)
(* table of each native instruction, its circuit and instruction flags,    *)
(* its inputs and lookup operands (jolt-core/src/zkvm/instruction), the    *)
(* entries of the tables (jolt-core/src/zkvm/lookup_table, the functions   *)
(* materialize_entry), and the R1CS constraints over them.                 *)
(*                                                                         *)
(* A cycle cy is a record: the instruction i, the values rs1 and rs2 that  *)
(* it read (0 when it has no such operand), the value rd left in its       *)
(* target, its memory access, its bytecode index pc and what follows it.   *)
(* A lookup index has 2 * XLEN bits and is a pair of words here: the two   *)
(* operands if the table interleaves them, else the high and the low word  *)
(* of the one operand.                                                     *)
(***************************************************************************)
EXTENDS Words

-----------------------------------------------------------------------------
\* The tables.  x and y are the operands of an interleaved table; high and low
\* are the words of the operand of another.

AndTable(x, y) == x & y

AndnTable(x, y) == x & Complement(y)

OrTable(x, y) == x | y

XorTable(x, y) == x ^^ y

EqualTable(x, y) == Bool(x = y)

NotEqualTable(x, y) == Bool(x # y)

SignedLessThanTable(x, y) == Bool(Signed(x) < Signed(y))

SignedGreaterThanEqualTable(x, y) == Bool(Signed(x) >= Signed(y))

UnsignedLessThanTable(x, y) == Bool(x < y)

UnsignedLessThanEqualTable(x, y) == Bool(x <= y)

UnsignedGreaterThanEqualTable(x, y) == Bool(x >= y)

MovsignTable(x, y) == IF Bit(x, XLEN - 1) = 1 THEN Ones ELSE 0

ValidDiv0Table(divisor, quotient) == IF divisor = 0 THEN Bool(quotient = Ones) ELSE 1

ValidUnsignedRemainderTable(remainder, divisor) == Bool(divisor = 0 \/ remainder < divisor)

VirtualChangeDivisorTable(dividend, divisor) ==
    IF Signed(dividend) = -MostNegative /\ Signed(divisor) = -1 THEN 1 ELSE divisor

VirtualChangeDivisorWTable(dividend, divisor) ==
    IF SignedBits(dividend, WordLen) = -(2^(WordLen - 1)) /\ SignedBits(divisor, WordLen) = -1
    THEN 1
    ELSE SignExtend(divisor, WordLen)

RangeCheckTable(high, low) == low

RangeCheckAlignedTable(high, low) == low - (low % 2)

UpperWordTable(high, low) == high

MulUNoOverflowTable(high, low) == Bool(high = 0)

HalfwordAlignmentTable(high, low) == Bool(low % 2 = 0)

WordAlignmentTable(high, low) == Bool(low % 4 = 0)

LowerHalfWordTable(high, low) == low % 2^WordLen

SignExtendHalfWordTable(high, low) ==
    LET lower == low % 2^WordLen
    IN lower + Bit(lower, WordLen - 1) * (2^WordLen - 1) * 2^WordLen

Pow2Table(high, low) == 2^(low % XLEN)

Pow2WTable(high, low) == 2^(low % WordLen)

ShiftRightBitmaskTable(high, low) ==
    LET shift == low % XLEN IN (2^(XLEN - shift) - 1) * 2^shift

\* The bytes of each word in reverse order.
VirtualRev8WTable(high, low) ==
    LET byte(k) == (low \div 2^(ByteLen * k)) % 2^ByteLen
        word(k) == byte(k + 3) + byte(k + 2) * 2^ByteLen + byte(k + 1) * 2^(2 * ByteLen)
                   + byte(k) * 2^(3 * ByteLen)
    IN word(0) + word(4) * 2^WordLen

\* Shifts and rotations walk down from the most significant bit, and y selects
\* the bits of x that are kept: a shift only if y is a bitmask.
Kept(x, y, n) ==
    LET kept[k \in 0..n] ==
            IF k = n THEN 0
            ELSE kept[k + 1] * (1 + Bit(y, k)) + Bit(x, k) * Bit(y, k)
    IN kept[0]

\* The bits of x that y drops, above those it keeps.
Wrapped(x, y, n) ==
    LET scale[k \in 0..n] == IF k = n THEN 1 ELSE scale[k + 1] * (1 + Bit(y, k))
        sum[k \in 0..n] ==
            IF k = n THEN 0
            ELSE sum[k + 1] + Bit(x, k) * (1 - Bit(y, k)) * scale[k + 1] * 2^k
    IN sum[0]

VirtualSRLTable(x, y) == Kept(x, y, XLEN)

\* Step n of the walk adds 2^n for a dropped bit, the first step none.
VirtualSRATable(x, y) ==
    LET extension[n \in 0..(XLEN - 1)] ==
            IF n = 0 THEN 0
            ELSE extension[n - 1] + 2^n * (1 - Bit(y, XLEN - 1 - n))
    IN Kept(x, y, XLEN) + Bit(x, XLEN - 1) * extension[XLEN - 1]

VirtualRotrTable(x, y) == Kept(x, y, XLEN) + Wrapped(x, y, XLEN)

VirtualRotrWTable(x, y) == Kept(x, y, WordLen) + Wrapped(x, y, WordLen)

VirtualXORROTTable(x, y, rotation) == RotateRight(x ^^ y, rotation, XLEN)

VirtualXORROTWTable(x, y, rotation) == RotateRight(x ^^ y, rotation, WordLen)

-----------------------------------------------------------------------------
\* LookupTables::materialize_entry: the entry at an index of two words.  The
\* rotation of the XORROT tables is part of their name in the code.
TableEntry(table, a, b, rotation) ==
    CASE table = "None" -> 0
      [] table = "And" -> AndTable(a, b) [] table = "Andn" -> AndnTable(a, b)
      [] table = "Equal" -> EqualTable(a, b)
      [] table = "HalfwordAlignment" -> HalfwordAlignmentTable(a, b)
      [] table = "LowerHalfWord" -> LowerHalfWordTable(a, b)
      [] table = "Movsign" -> MovsignTable(a, b)
      [] table = "MulUNoOverflow" -> MulUNoOverflowTable(a, b)
      [] table = "NotEqual" -> NotEqualTable(a, b) [] table = "Or" -> OrTable(a, b)
      [] table = "Pow2" -> Pow2Table(a, b) [] table = "Pow2W" -> Pow2WTable(a, b)
      [] table = "RangeCheck" -> RangeCheckTable(a, b)
      [] table = "RangeCheckAligned" -> RangeCheckAlignedTable(a, b)
      [] table = "ShiftRightBitmask" -> ShiftRightBitmaskTable(a, b)
      [] table = "SignExtendHalfWord" -> SignExtendHalfWordTable(a, b)
      [] table = "SignedGreaterThanEqual" -> SignedGreaterThanEqualTable(a, b)
      [] table = "SignedLessThan" -> SignedLessThanTable(a, b)
      [] table = "UnsignedGreaterThanEqual" -> UnsignedGreaterThanEqualTable(a, b)
      [] table = "UnsignedLessThan" -> UnsignedLessThanTable(a, b)
      [] table = "UnsignedLessThanEqual" -> UnsignedLessThanEqualTable(a, b)
      [] table = "UpperWord" -> UpperWordTable(a, b)
      [] table = "ValidDiv0" -> ValidDiv0Table(a, b)
      [] table = "ValidUnsignedRemainder" -> ValidUnsignedRemainderTable(a, b)
      [] table = "VirtualChangeDivisor" -> VirtualChangeDivisorTable(a, b)
      [] table = "VirtualChangeDivisorW" -> VirtualChangeDivisorWTable(a, b)
      [] table = "VirtualRev8W" -> VirtualRev8WTable(a, b)
      [] table = "VirtualRotr" -> VirtualRotrTable(a, b)
      [] table = "VirtualRotrW" -> VirtualRotrWTable(a, b)
      [] table = "VirtualSRA" -> VirtualSRATable(a, b)
      [] table = "VirtualSRL" -> VirtualSRLTable(a, b)
      [] table = "VirtualXORROT" -> VirtualXORROTTable(a, b, rotation)
      [] table = "VirtualXORROTW" -> VirtualXORROTWTable(a, b, rotation)
      [] table = "WordAlignment" -> WordAlignmentTable(a, b) [] table = "Xor" -> XorTable(a, b)

-----------------------------------------------------------------------------
\* The inputs of an instruction (to_instruction_inputs) and the instruction
\* flags that say where they come from.

Inputs(flags, left, right) == [operands |-> flags, left |-> left, right |-> right]

RegReg(cy) == Inputs({"LeftOperandIsRs1Value", "RightOperandIsRs2Value"}, cy.rs1, cy.rs2)

RegImm(cy) == Inputs({"LeftOperandIsRs1Value", "RightOperandIsImm"}, cy.rs1, cy.i.imm)

PcImm(cy) == Inputs({"LeftOperandIsPC", "RightOperandIsImm"}, cy.i.address, cy.i.imm)

ZeroImm(cy) == Inputs({"RightOperandIsImm"}, 0, cy.i.imm)

RegOnly(cy) == Inputs({"LeftOperandIsRs1Value"}, cy.rs1, 0)

RegZero(cy) == Inputs({"LeftOperandIsRs1Value", "RightOperandIsImm"}, cy.rs1, 0)

Branch(cy) == Inputs({"LeftOperandIsRs1Value", "RightOperandIsRs2Value", "Branch"}, cy.rs1, cy.rs2)

NoInputs(cy) == Inputs({}, 0, 0)

\* The dividend of VirtualChangeDivisorW is cut to a word.
TruncatedRegReg(cy) == [RegReg(cy) EXCEPT !.left = ZeroExtend(cy.rs1, WordLen)]

\* The circuit flags every instruction sets in the same way; JALR adds another.
CommonFlags(cy) ==
    {flag \in {"VirtualInstruction", "DoNotUpdateUnexpandedPC", "IsFirstInSequence", "IsCompressed"} :
        CASE flag = "VirtualInstruction" -> cy.i.inSequence
          [] flag = "DoNotUpdateUnexpandedPC" -> cy.i.inSequence /\ cy.i.remaining # 0
          [] flag = "IsFirstInSequence" -> cy.i.first
          [] flag = "IsCompressed" -> cy.i.compressed}

LastOfSequence(cy) == IF cy.i.inSequence /\ cy.i.remaining = 0 THEN {"IsLastInSequence"} ELSE {}

\* The lookup of a cycle: flags, inputs, table and the output the instruction
\* itself computes (to_lookup_output).
Lookup(cy, inputs, circuit, table, output) ==
    [circuit |-> circuit \union CommonFlags(cy), operands |-> inputs.operands,
     left |-> inputs.left, right |-> inputs.right, table |-> table, output |-> output]

LookupADD(cy) ==
    Lookup(cy, RegReg(cy), {"AddOperands", "WriteLookupOutputToRD"}, "RangeCheck",
           Unsigned(cy.rs1 + cy.rs2))

LookupADDI(cy) ==
    Lookup(cy, RegImm(cy), {"AddOperands", "WriteLookupOutputToRD"}, "RangeCheck",
           Unsigned(cy.rs1 + cy.i.imm))

LookupSUB(cy) ==
    Lookup(cy, RegReg(cy), {"SubtractOperands", "WriteLookupOutputToRD"}, "RangeCheck",
           Unsigned(cy.rs1 - cy.rs2))

LookupLUI(cy) ==
    Lookup(cy, ZeroImm(cy), {"AddOperands", "WriteLookupOutputToRD"}, "RangeCheck", cy.i.imm)

LookupAUIPC(cy) ==
    Lookup(cy, PcImm(cy), {"AddOperands", "WriteLookupOutputToRD"}, "RangeCheck",
           Unsigned(cy.i.address + cy.i.imm))

LookupMUL(cy) ==
    Lookup(cy, RegReg(cy), {"MultiplyOperands", "WriteLookupOutputToRD"}, "RangeCheck",
           LowProduct(cy.rs1, cy.rs2))

LookupMULHU(cy) ==
    Lookup(cy, RegReg(cy), {"MultiplyOperands", "WriteLookupOutputToRD"}, "UpperWord",
           HighProduct(cy.rs1, cy.rs2))

LookupAND(cy) == Lookup(cy, RegReg(cy), {"WriteLookupOutputToRD"}, "And", cy.rs1 & cy.rs2)

LookupANDI(cy) == Lookup(cy, RegImm(cy), {"WriteLookupOutputToRD"}, "And", cy.rs1 & cy.i.imm)

LookupANDN(cy) ==
    Lookup(cy, RegReg(cy), {"WriteLookupOutputToRD"}, "Andn", cy.rs1 & Complement(cy.rs2))

LookupOR(cy) == Lookup(cy, RegReg(cy), {"WriteLookupOutputToRD"}, "Or", cy.rs1 | cy.rs2)

LookupORI(cy) == Lookup(cy, RegImm(cy), {"WriteLookupOutputToRD"}, "Or", cy.rs1 | cy.i.imm)

LookupXOR(cy) == Lookup(cy, RegReg(cy), {"WriteLookupOutputToRD"}, "Xor", cy.rs1 ^^ cy.rs2)

LookupXORI(cy) == Lookup(cy, RegImm(cy), {"WriteLookupOutputToRD"}, "Xor", cy.rs1 ^^ cy.i.imm)

LookupSLT(cy) ==
    Lookup(cy, RegReg(cy), {"WriteLookupOutputToRD"}, "SignedLessThan",
           Bool(Signed(cy.rs1) < Signed(cy.rs2)))

LookupSLTI(cy) ==
    Lookup(cy, RegImm(cy), {"WriteLookupOutputToRD"}, "SignedLessThan",
           Bool(Signed(cy.rs1) < Signed(cy.i.imm)))

LookupSLTU(cy) ==
    Lookup(cy, RegReg(cy), {"WriteLookupOutputToRD"}, "UnsignedLessThan", Bool(cy.rs1 < cy.rs2))

LookupSLTIU(cy) ==
    Lookup(cy, RegImm(cy), {"WriteLookupOutputToRD"}, "UnsignedLessThan", Bool(cy.rs1 < cy.i.imm))

\* Branches, jumps and memory accesses.

LookupBEQ(cy) == Lookup(cy, Branch(cy), {}, "Equal", Bool(cy.rs1 = cy.rs2))

LookupBNE(cy) == Lookup(cy, Branch(cy), {}, "NotEqual", Bool(cy.rs1 # cy.rs2))

LookupBLT(cy) ==
    Lookup(cy, Branch(cy), {}, "SignedLessThan", Bool(Signed(cy.rs1) < Signed(cy.rs2)))

LookupBGE(cy) ==
    Lookup(cy, Branch(cy), {}, "SignedGreaterThanEqual", Bool(Signed(cy.rs1) >= Signed(cy.rs2)))

LookupBLTU(cy) == Lookup(cy, Branch(cy), {}, "UnsignedLessThan", Bool(cy.rs1 < cy.rs2))

LookupBGEU(cy) == Lookup(cy, Branch(cy), {}, "UnsignedGreaterThanEqual", Bool(cy.rs1 >= cy.rs2))

LookupJAL(cy) ==
    Lookup(cy, PcImm(cy), {"AddOperands", "Jump"}, "RangeCheck",
           Unsigned(cy.i.address + cy.i.imm))

LookupJALR(cy) ==
    Lookup(cy, RegImm(cy), LastOfSequence(cy) \union {"AddOperands", "Jump"}, "RangeCheckAligned",
           2 * (Unsigned(cy.rs1 + cy.i.imm) \div 2))

LookupLD(cy) == Lookup(cy, NoInputs(cy), {"Load"}, "None", 0)

LookupSD(cy) == Lookup(cy, NoInputs(cy), {"Store"}, "None", 0)

LookupFENCE(cy) == Lookup(cy, NoInputs(cy), {}, "None", 0)

\* Virtual instructions.

LookupVirtualAdvice(cy) ==
    Lookup(cy, NoInputs(cy), {"Advice", "WriteLookupOutputToRD"}, "RangeCheck", cy.i.advice)

LookupVirtualAdviceLen(cy) ==
    Lookup(cy, NoInputs(cy), {"Advice", "WriteLookupOutputToRD"}, "RangeCheck", cy.rd)

LookupVirtualAdviceLoad(cy) ==
    Lookup(cy, NoInputs(cy), {"Advice", "WriteLookupOutputToRD"}, "RangeCheck", cy.rd)

LookupVirtualAssertEQ(cy) == Lookup(cy, RegReg(cy), {"Assert"}, "Equal", Bool(cy.rs1 = cy.rs2))

LookupVirtualAssertLTE(cy) ==
    Lookup(cy, RegReg(cy), {"Assert"}, "UnsignedLessThanEqual", Bool(cy.rs1 <= cy.rs2))

LookupVirtualAssertValidDiv0(cy) ==
    Lookup(cy, RegReg(cy), {"Assert"}, "ValidDiv0", Bool(cy.rs1 = 0 => cy.rs2 = Ones))

LookupVirtualAssertValidUnsignedRemainder(cy) ==
    Lookup(cy, RegReg(cy), {"Assert"}, "ValidUnsignedRemainder",
           Bool(cy.rs2 = 0 \/ cy.rs1 < cy.rs2))

LookupVirtualAssertMulUNoOverflow(cy) ==
    Lookup(cy, RegReg(cy), {"MultiplyOperands", "Assert"}, "MulUNoOverflow",
           Bool(HighProduct(cy.rs1, cy.rs2) = 0))

LookupVirtualAssertHalfwordAlignment(cy) ==
    Lookup(cy, RegImm(cy), {"AddOperands", "Assert"}, "HalfwordAlignment",
           Bool((cy.rs1 + cy.i.imm) % 2 = 0))

LookupVirtualAssertWordAlignment(cy) ==
    Lookup(cy, RegImm(cy), {"AddOperands", "Assert"}, "WordAlignment",
           Bool((cy.rs1 + cy.i.imm) % 4 = 0))

LookupVirtualChangeDivisor(cy) ==
    Lookup(cy, RegReg(cy), {"WriteLookupOutputToRD"}, "VirtualChangeDivisor",
           IF Signed(cy.rs1) = -MostNegative /\ Signed(cy.rs2) = -1 THEN 1 ELSE cy.rs2)

LookupVirtualChangeDivisorW(cy) ==
    Lookup(cy, TruncatedRegReg(cy), {"WriteLookupOutputToRD"}, "VirtualChangeDivisorW",
           IF SignedBits(cy.rs1, WordLen) = -(2^(WordLen - 1)) /\ SignedBits(cy.rs2, WordLen) = -1 THEN 1 ELSE SignExtend(cy.rs2, WordLen))

LookupVirtualSignExtendWord(cy) ==
    Lookup(cy, RegOnly(cy), {"AddOperands", "WriteLookupOutputToRD"}, "SignExtendHalfWord",
           SignExtend(cy.rs1, WordLen))

LookupVirtualZeroExtendWord(cy) ==
    Lookup(cy, RegOnly(cy), {"AddOperands", "WriteLookupOutputToRD"}, "LowerHalfWord",
           ZeroExtend(cy.rs1, WordLen))

LookupVirtualRev8W(cy) ==
    Lookup(cy, RegOnly(cy), {"AddOperands", "WriteLookupOutputToRD"}, "VirtualRev8W",
           VirtualRev8WTable(0, cy.rs1))

LookupVirtualPow2W(cy) ==
    Lookup(cy, RegOnly(cy), {"AddOperands", "WriteLookupOutputToRD"}, "Pow2W",
           2^(cy.rs1 % WordLen))

LookupVirtualPow2(cy) ==
    Lookup(cy, RegZero(cy), {"AddOperands", "WriteLookupOutputToRD"}, "Pow2", 2^(cy.rs1 % XLEN))

LookupVirtualShiftRightBitmask(cy) ==
    Lookup(cy, RegZero(cy), {"AddOperands", "WriteLookupOutputToRD"}, "ShiftRightBitmask",
           ShiftBitmask(cy.rs1 % XLEN))

LookupVirtualPow2I(cy) ==
    Lookup(cy, ZeroImm(cy), {"AddOperands", "WriteLookupOutputToRD"}, "Pow2", 2^(cy.i.imm % XLEN))

LookupVirtualPow2IW(cy) ==
    Lookup(cy, ZeroImm(cy), {"AddOperands", "WriteLookupOutputToRD"}, "Pow2W",
           2^(cy.i.imm % WordLen))

LookupVirtualShiftRightBitmaskI(cy) ==
    Lookup(cy, ZeroImm(cy), {"AddOperands", "WriteLookupOutputToRD"}, "ShiftRightBitmask",
           ShiftBitmask(cy.i.imm % XLEN))

LookupVirtualMovsign(cy) ==
    Lookup(cy, RegImm(cy), {"WriteLookupOutputToRD"}, "Movsign",
           IF cy.rs1 >= MostNegative THEN Ones ELSE 0)

LookupVirtualMULI(cy) ==
    Lookup(cy, RegImm(cy), {"MultiplyOperands", "WriteLookupOutputToRD"}, "RangeCheck",
           LowProduct(cy.rs1, cy.i.imm))

LookupVirtualSRL(cy) ==
    Lookup(cy, RegReg(cy), {"WriteLookupOutputToRD"}, "VirtualSRL",
           VirtualSRLTable(cy.rs1, cy.rs2))

LookupVirtualSRLI(cy) ==
    Lookup(cy, RegImm(cy), {"WriteLookupOutputToRD"}, "VirtualSRL",
           VirtualSRLTable(cy.rs1, cy.i.imm))

LookupVirtualSRA(cy) ==
    Lookup(cy, RegReg(cy), {"WriteLookupOutputToRD"}, "VirtualSRA",
           VirtualSRATable(cy.rs1, cy.rs2))

LookupVirtualSRAI(cy) ==
    Lookup(cy, RegImm(cy), {"WriteLookupOutputToRD"}, "VirtualSRA",
           VirtualSRATable(cy.rs1, cy.i.imm))

LookupVirtualROTRI(cy) ==
    Lookup(cy, RegImm(cy), {"WriteLookupOutputToRD"}, "VirtualRotr",
           RotateRight(cy.rs1, TrailingZeros(cy.i.imm), XLEN))

LookupVirtualROTRIW(cy) ==
    Lookup(cy, RegImm(cy), {"WriteLookupOutputToRD"}, "VirtualRotrW",
           RotateRight(cy.rs1, TrailingZeros(cy.i.imm), WordLen))

LookupVirtualXORROT(cy) ==
    Lookup(cy, RegReg(cy), {"WriteLookupOutputToRD"}, "VirtualXORROT",
           RotateRight(cy.rs1 ^^ cy.rs2, cy.i.imm, XLEN))

LookupVirtualXORROTW(cy) ==
    Lookup(cy, RegReg(cy), {"WriteLookupOutputToRD"}, "VirtualXORROTW",
           RotateRight(cy.rs1 ^^ cy.rs2, cy.i.imm, WordLen))

\* The dispatch on the instruction of a cycle.
LookupOf(cy) ==
    CASE cy.i.op = "ADD" -> LookupADD(cy) [] cy.i.op = "ADDI" -> LookupADDI(cy)
      [] cy.i.op = "SUB" -> LookupSUB(cy) [] cy.i.op = "LUI" -> LookupLUI(cy)
      [] cy.i.op = "AUIPC" -> LookupAUIPC(cy) [] cy.i.op = "MUL" -> LookupMUL(cy)
      [] cy.i.op = "MULHU" -> LookupMULHU(cy) [] cy.i.op = "AND" -> LookupAND(cy)
      [] cy.i.op = "ANDI" -> LookupANDI(cy) [] cy.i.op = "ANDN" -> LookupANDN(cy)
      [] cy.i.op = "OR" -> LookupOR(cy) [] cy.i.op = "ORI" -> LookupORI(cy)
      [] cy.i.op = "XOR" -> LookupXOR(cy) [] cy.i.op = "XORI" -> LookupXORI(cy)
      [] cy.i.op = "SLT" -> LookupSLT(cy) [] cy.i.op = "SLTI" -> LookupSLTI(cy)
      [] cy.i.op = "SLTU" -> LookupSLTU(cy) [] cy.i.op = "SLTIU" -> LookupSLTIU(cy)
      [] cy.i.op = "BEQ" -> LookupBEQ(cy) [] cy.i.op = "BNE" -> LookupBNE(cy)
      [] cy.i.op = "BLT" -> LookupBLT(cy) [] cy.i.op = "BGE" -> LookupBGE(cy)
      [] cy.i.op = "BLTU" -> LookupBLTU(cy) [] cy.i.op = "BGEU" -> LookupBGEU(cy)
      [] cy.i.op = "JAL" -> LookupJAL(cy) [] cy.i.op = "JALR" -> LookupJALR(cy)
      [] cy.i.op = "LD" -> LookupLD(cy) [] cy.i.op = "SD" -> LookupSD(cy)
      [] cy.i.op = "FENCE" -> LookupFENCE(cy)
      [] cy.i.op = "VirtualAdvice" -> LookupVirtualAdvice(cy)
      [] cy.i.op = "VirtualAdviceLen" -> LookupVirtualAdviceLen(cy)
      [] cy.i.op = "VirtualAdviceLoad" -> LookupVirtualAdviceLoad(cy)
      [] cy.i.op = "VirtualAssertEQ" -> LookupVirtualAssertEQ(cy)
      [] cy.i.op = "VirtualAssertLTE" -> LookupVirtualAssertLTE(cy)
      [] cy.i.op = "VirtualAssertValidDiv0" -> LookupVirtualAssertValidDiv0(cy)
      [] cy.i.op = "VirtualAssertValidUnsignedRemainder" -> LookupVirtualAssertValidUnsignedRemainder(cy)
      [] cy.i.op = "VirtualAssertMulUNoOverflow" -> LookupVirtualAssertMulUNoOverflow(cy)
      [] cy.i.op = "VirtualAssertHalfwordAlignment" -> LookupVirtualAssertHalfwordAlignment(cy)
      [] cy.i.op = "VirtualAssertWordAlignment" -> LookupVirtualAssertWordAlignment(cy)
      [] cy.i.op = "VirtualChangeDivisor" -> LookupVirtualChangeDivisor(cy)
      [] cy.i.op = "VirtualChangeDivisorW" -> LookupVirtualChangeDivisorW(cy)
      [] cy.i.op = "VirtualSignExtendWord" -> LookupVirtualSignExtendWord(cy)
      [] cy.i.op = "VirtualZeroExtendWord" -> LookupVirtualZeroExtendWord(cy)
      [] cy.i.op = "VirtualRev8W" -> LookupVirtualRev8W(cy)
      [] cy.i.op = "VirtualPow2W" -> LookupVirtualPow2W(cy)
      [] cy.i.op = "VirtualPow2" -> LookupVirtualPow2(cy)
      [] cy.i.op = "VirtualShiftRightBitmask" -> LookupVirtualShiftRightBitmask(cy)
      [] cy.i.op = "VirtualPow2I" -> LookupVirtualPow2I(cy)
      [] cy.i.op = "VirtualPow2IW" -> LookupVirtualPow2IW(cy)
      [] cy.i.op = "VirtualShiftRightBitmaskI" -> LookupVirtualShiftRightBitmaskI(cy)
      [] cy.i.op = "VirtualMovsign" -> LookupVirtualMovsign(cy)
      [] cy.i.op = "VirtualMULI" -> LookupVirtualMULI(cy)
      [] cy.i.op = "VirtualSRL" -> LookupVirtualSRL(cy)
      [] cy.i.op = "VirtualSRLI" -> LookupVirtualSRLI(cy)
      [] cy.i.op = "VirtualSRA" -> LookupVirtualSRA(cy)
      [] cy.i.op = "VirtualSRAI" -> LookupVirtualSRAI(cy)
      [] cy.i.op = "VirtualROTRI" -> LookupVirtualROTRI(cy)
      [] cy.i.op = "VirtualROTRIW" -> LookupVirtualROTRIW(cy)
      [] cy.i.op = "VirtualXORROT" -> LookupVirtualXORROT(cy)
      [] cy.i.op = "VirtualXORROTW" -> LookupVirtualXORROTW(cy)

-----------------------------------------------------------------------------
\* The lookup operands (to_lookup_operands) and the index (to_lookup_index).

Split(v) == <<v \div Modulus, v % Modulus>>

\* is_interleaved_operands.
Interleaved(l) ==
    {"AddOperands", "SubtractOperands", "MultiplyOperands", "Advice"} \intersect l.circuit = {}

LeftLookupOperand(l) == IF Interleaved(l) THEN l.left ELSE 0

\* A sum may have a carry; a negative sum becomes a 128-bit unsigned number.
RightLookupOperand(l) ==
    CASE "AddOperands" \in l.circuit ->
            LET sum == Split(l.left + l.right) IN <<Unsigned(sum[1]), sum[2]>>
      [] "SubtractOperands" \in l.circuit -> Split(l.left + (Modulus - l.right))
      [] "MultiplyOperands" \in l.circuit ->
            <<HighProduct(l.left, Unsigned(l.right)), LowProduct(l.left, Unsigned(l.right))>>
      [] "Advice" \in l.circuit -> <<0, l.output>>
      [] OTHER -> <<0, Unsigned(l.right)>>

LookupOutput(cy, l) ==
    LET operand == RightLookupOperand(l)
        index   == IF Interleaved(l) THEN <<l.left, operand[2]>> ELSE operand
    IN TableEntry(l.table, index[1], index[2], cy.i.imm)

-----------------------------------------------------------------------------
\* R1CS_CONSTRAINTS on the witness of R1CSCycleInputs::from_trace: l is the
\* lookup of the cycle and output its lookup output.  A flag is 0 or 1.

Flag(l, name) == name \in l.circuit

RamConstraints(cy, l) ==
    /\ cy.ram.address = (IF Flag(l, "Load") \/ Flag(l, "Store") THEN cy.rs1 + cy.i.imm ELSE 0)
    /\ Flag(l, "Load") => cy.ram.read = cy.ram.write /\ cy.ram.read = cy.rd
    /\ Flag(l, "Store") => cy.rs2 = cy.ram.write

\* In the field a right input that is negative stays so; a product is taken in
\* two words.
OperandConstraints(cy, l) ==
    LET operand == RightLookupOperand(l)
    IN /\ LeftLookupOperand(l) =
            (IF Flag(l, "AddOperands") \/ Flag(l, "SubtractOperands") \/ Flag(l, "MultiplyOperands")
             THEN 0 ELSE l.left)
       /\ Flag(l, "AddOperands") => operand = Split(l.left + l.right)
       /\ Flag(l, "SubtractOperands") => operand = Split(l.left - l.right + Modulus)
       /\ Flag(l, "MultiplyOperands") =>
            operand = <<HighProduct(l.left, l.right), LowProduct(l.left, l.right)>>
       /\ Interleaved(l) => operand = Split(l.right)

OutputConstraints(cy, l, output) ==
    /\ Flag(l, "Assert") => output = 1
    /\ Flag(l, "WriteLookupOutputToRD") => cy.rd = output
    /\ Flag(l, "Jump") => cy.rd = cy.i.address + 4 - 2 * Bool(Flag(l, "IsCompressed"))

ShouldBranch(l, output) == "Branch" \in l.operands /\ output = 1

PcConstraints(cy, l, output) ==
    /\ Flag(l, "Jump") /\ ~cy.next.noop => cy.next.address = output
    /\ ShouldBranch(l, output) => cy.next.address = cy.i.address + cy.i.imm
    /\ ~ShouldBranch(l, output) /\ ~Flag(l, "Jump") =>
         cy.next.address = cy.i.address + 4 - 4 * Bool(Flag(l, "DoNotUpdateUnexpandedPC"))
                           - 2 * Bool(Flag(l, "IsCompressed"))
    /\ Flag(l, "VirtualInstruction") /\ ~Flag(l, "IsLastInSequence") => cy.next.pc = cy.pc + 1
    /\ cy.next.inSequence /\ ~cy.next.first => Flag(l, "DoNotUpdateUnexpandedPC")

\* The inputs as the instruction-input sumcheck expresses them by other columns.
VirtualizedInputs(cy, l) ==
    /\ l.left = (IF "LeftOperandIsRs1Value" \in l.operands THEN cy.rs1 ELSE 0)
                + (IF "LeftOperandIsPC" \in l.operands THEN cy.i.address ELSE 0)
    /\ l.right = (IF "RightOperandIsRs2Value" \in l.operands THEN cy.rs2 ELSE 0)
                 + (IF "RightOperandIsImm" \in l.operands THEN cy.i.imm ELSE 0)
=============================================================================
