---------------------------- MODULE Instructions ----------------------------
(***************************************************************************)
(* What each instruction does to the emulator: the `exec` function of its  *)
(* file under tracer/src/instruction, on the 64-bit path.                  *)
(*                                                                         *)
(* The machine c is a record: the registers x (the architectural ones,     *)
(* then the virtual ones), the program counter pc (already past the        *)
(* instruction when exec runs), the memory mem (one register-wide value    *)
(* per doubleword), and ok, FALSE once an assertion of the emulator has    *)
(* panicked.  An instruction i is a record with its name, its registers,   *)
(* its immediate (the register-wide bits, or the signed value in the       *)
(* formats that keep a signed one), its address and its compressed flag.   *)
(* An instruction that has no such operand names register x0.              *)
(*                                                                         *)
(* The instructions whose effect goes beyond registers and memory (CSRs,   *)
(* traps, reservations, host I/O) are not here.                            *)
(***************************************************************************)
EXTENDS Words, Sequences

Rs1(c, i) == c.x[i.rs1]

Rs2(c, i) == c.x[i.rs2]

\* x0 stays zero.
WriteRd(c, i, v) == IF i.rd = 0 THEN c ELSE [c EXCEPT !.x[i.rd] = Unsigned(v)]

PanicUnless(c, holds) == [c EXCEPT !.ok = @ /\ holds]

Jump(c, target) == [c EXCEPT !.pc = Unsigned(target)]

BranchIf(c, i, taken) == IF taken THEN Jump(c, i.address + i.imm) ELSE c

-----------------------------------------------------------------------------
\* Memory: n bytes at a byte address, little-endian.  The accesses assert that
\* the address is a multiple of their width.

MemoryAddress(c, i) == Unsigned(Rs1(c, i) + i.imm)

Aligned(a, n) == a % n = 0

Doubleword(a) == a - (a % 8)

Load(c, a, n) == ZeroExtend(Shr(c.mem[Doubleword(a)], ByteLen * (a % 8)), ByteLen * n)

Store(c, a, n, v) ==
    LET shift == 2^(ByteLen * (a % 8))
        kept  == c.mem[Doubleword(a)] - Load(c, a, n) * shift
    IN IF Aligned(a, n)
       THEN [c EXCEPT !.mem[Doubleword(a)] = kept + ZeroExtend(v, ByteLen * n) * shift]
       ELSE PanicUnless(c, FALSE)

LoadInto(c, i, n, v) ==
    IF Aligned(MemoryAddress(c, i), n) THEN WriteRd(c, i, v) ELSE PanicUnless(c, FALSE)

Loaded(c, i, n) == Load(c, MemoryAddress(c, i), n)

LB(c, i) == LoadInto(c, i, 1, SignExtend(Loaded(c, i, 1), ByteLen))

LBU(c, i) == LoadInto(c, i, 1, Loaded(c, i, 1))

LH(c, i) == LoadInto(c, i, 2, SignExtend(Loaded(c, i, 2), 2 * ByteLen))

LHU(c, i) == LoadInto(c, i, 2, Loaded(c, i, 2))

LW(c, i) == LoadInto(c, i, 4, SignExtend(Loaded(c, i, 4), WordLen))

LWU(c, i) == LoadInto(c, i, 4, Loaded(c, i, 4))

LD(c, i) == LoadInto(c, i, 8, Loaded(c, i, 8))

SB(c, i) == Store(c, MemoryAddress(c, i), 1, Rs2(c, i))

SH(c, i) == Store(c, MemoryAddress(c, i), 2, Rs2(c, i))

SW(c, i) == Store(c, MemoryAddress(c, i), 4, Rs2(c, i))

SD(c, i) == Store(c, MemoryAddress(c, i), 8, Rs2(c, i))

-----------------------------------------------------------------------------
\* Integer arithmetic.

ADD(c, i) == WriteRd(c, i, Rs1(c, i) + Rs2(c, i))

ADDI(c, i) == WriteRd(c, i, Rs1(c, i) + i.imm)

ADDW(c, i) == WriteRd(c, i, SignExtend(Rs1(c, i) + Rs2(c, i), WordLen))

ADDIW(c, i) == WriteRd(c, i, SignExtend(Rs1(c, i) + i.imm, WordLen))

SUB(c, i) == WriteRd(c, i, Rs1(c, i) - Rs2(c, i))

SUBW(c, i) == WriteRd(c, i, SignExtend(Rs1(c, i) - Rs2(c, i), WordLen))

AND(c, i) == WriteRd(c, i, Rs1(c, i) & Rs2(c, i))

ANDI(c, i) == WriteRd(c, i, Rs1(c, i) & i.imm)

ANDN(c, i) == WriteRd(c, i, Rs1(c, i) & Complement(Rs2(c, i)))

OR(c, i) == WriteRd(c, i, Rs1(c, i) | Rs2(c, i))

ORI(c, i) == WriteRd(c, i, Rs1(c, i) | i.imm)

XOR(c, i) == WriteRd(c, i, Rs1(c, i) ^^ Rs2(c, i))

XORI(c, i) == WriteRd(c, i, Rs1(c, i) ^^ i.imm)

SLT(c, i) == WriteRd(c, i, Bool(Signed(Rs1(c, i)) < Signed(Rs2(c, i))))

SLTI(c, i) == WriteRd(c, i, Bool(Signed(Rs1(c, i)) < Signed(i.imm)))

SLTU(c, i) == WriteRd(c, i, Bool(Rs1(c, i) < Rs2(c, i)))

SLTIU(c, i) == WriteRd(c, i, Bool(Rs1(c, i) < i.imm))

LUI(c, i) == WriteRd(c, i, i.imm)

AUIPC(c, i) == WriteRd(c, i, i.address + i.imm)

-----------------------------------------------------------------------------
\* Shifts: a register shifts by its low bits only.

SLL(c, i) == WriteRd(c, i, Shl(Rs1(c, i), Rs2(c, i) % XLEN))

SLLI(c, i) == WriteRd(c, i, Shl(Rs1(c, i), i.imm % XLEN))

SLLW(c, i) ==
    WriteRd(c, i, SignExtend(Shl(ZeroExtend(Rs1(c, i), WordLen), Rs2(c, i) % WordLen), WordLen))

SLLIW(c, i) ==
    WriteRd(c, i, SignExtend(Shl(ZeroExtend(Rs1(c, i), WordLen), i.imm % WordLen), WordLen))

SRL(c, i) == WriteRd(c, i, Shr(Rs1(c, i), Rs2(c, i) % XLEN))

SRLI(c, i) == WriteRd(c, i, Shr(Rs1(c, i), i.imm % XLEN))

SRLW(c, i) ==
    WriteRd(c, i, SignExtend(Shr(ZeroExtend(Rs1(c, i), WordLen), Rs2(c, i) % WordLen), WordLen))

SRLIW(c, i) ==
    WriteRd(c, i, SignExtend(Shr(ZeroExtend(Rs1(c, i), WordLen), i.imm % WordLen), WordLen))

SRA(c, i) == WriteRd(c, i, Sar(Rs1(c, i), Rs2(c, i) % XLEN))

SRAI(c, i) == WriteRd(c, i, Sar(Rs1(c, i), i.imm % XLEN))

SRAW(c, i) == WriteRd(c, i, SignedBits(Rs1(c, i), WordLen) \div 2^(Rs2(c, i) % WordLen))

SRAIW(c, i) == WriteRd(c, i, SignedBits(Rs1(c, i), WordLen) \div 2^(i.imm % WordLen))
-----------------------------------------------------------------------------
\* Multiplication and division.  Division by zero and the overflow of the most
\* negative number by -1 have the results the RISC-V specification fixes.

MUL(c, i) == WriteRd(c, i, LowProduct(Rs1(c, i), Rs2(c, i)))

MULW(c, i) ==
    WriteRd(c, i, SignExtend(SignedBits(Rs1(c, i), WordLen) * SignedBits(Rs2(c, i), WordLen), WordLen))

MULH(c, i) == WriteRd(c, i, (Signed(Rs1(c, i)) * Signed(Rs2(c, i))) \div Modulus)

MULHSU(c, i) == WriteRd(c, i, (Signed(Rs1(c, i)) * Rs2(c, i)) \div Modulus)

MULHU(c, i) == WriteRd(c, i, HighProduct(Rs1(c, i), Rs2(c, i)))

Quotient(x, y) == IF y = 0 THEN -1 ELSE TruncDiv(x, y)

Remainder(x, y) == IF y = 0 THEN x ELSE TruncRem(x, y)

DIV(c, i) == WriteRd(c, i, Quotient(Signed(Rs1(c, i)), Signed(Rs2(c, i))))

DIVU(c, i) == WriteRd(c, i, Quotient(Rs1(c, i), Rs2(c, i)))

DIVW(c, i) ==
    WriteRd(c, i, SignExtend(Quotient(SignedBits(Rs1(c, i), WordLen),
                                      SignedBits(Rs2(c, i), WordLen)), WordLen))

DIVUW(c, i) ==
    WriteRd(c, i, SignExtend(Quotient(ZeroExtend(Rs1(c, i), WordLen),
                                      ZeroExtend(Rs2(c, i), WordLen)), WordLen))

REM(c, i) == WriteRd(c, i, Remainder(Signed(Rs1(c, i)), Signed(Rs2(c, i))))

REMU(c, i) == WriteRd(c, i, Remainder(Rs1(c, i), Rs2(c, i)))

REMW(c, i) ==
    WriteRd(c, i, Remainder(SignedBits(Rs1(c, i), WordLen), SignedBits(Rs2(c, i), WordLen)))

REMUW(c, i) ==
    WriteRd(c, i, SignExtend(Remainder(ZeroExtend(Rs1(c, i), WordLen),
                                       ZeroExtend(Rs2(c, i), WordLen)), WordLen))

-----------------------------------------------------------------------------
\* Control flow.  A jump returns to pc, which is past the instruction by now.

BEQ(c, i) == BranchIf(c, i, Rs1(c, i) = Rs2(c, i))

BNE(c, i) == BranchIf(c, i, Rs1(c, i) # Rs2(c, i))

BLT(c, i) == BranchIf(c, i, Signed(Rs1(c, i)) < Signed(Rs2(c, i)))

BGE(c, i) == BranchIf(c, i, Signed(Rs1(c, i)) >= Signed(Rs2(c, i)))

BLTU(c, i) == BranchIf(c, i, Rs1(c, i) < Rs2(c, i))

BGEU(c, i) == BranchIf(c, i, Rs1(c, i) >= Rs2(c, i))

JAL(c, i) == Jump(WriteRd(c, i, c.pc), i.address + i.imm)

JALR(c, i) ==
    LET target == Unsigned(Rs1(c, i) + i.imm)
    IN Jump(WriteRd(c, i, c.pc), target - (target % 2))

FENCE(c, i) == c

-----------------------------------------------------------------------------
\* Atomic memory operations: the old value goes to rd, the new one to memory.

OldD(c, i) == Load(c, Rs1(c, i), 8)

OldW(c, i) == Load(c, Rs1(c, i), 4)

AmoD(c, i, new) == WriteRd(Store(c, Rs1(c, i), 8, new), i, OldD(c, i))

AmoW(c, i, new) ==
    IF Aligned(Rs1(c, i), 4)
    THEN WriteRd(Store(c, Rs1(c, i), 4, new), i, SignExtend(OldW(c, i), WordLen))
    ELSE PanicUnless(c, FALSE)

Rs2W(c, i) == ZeroExtend(Rs2(c, i), WordLen)

SignedW(v) == SignedBits(v, WordLen)

Select(first, a, b) == IF first THEN a ELSE b

AMOSWAPD(c, i) == AmoD(c, i, Rs2(c, i))

AMOADDD(c, i) == AmoD(c, i, Unsigned(OldD(c, i) + Rs2(c, i)))

AMOANDD(c, i) == AmoD(c, i, OldD(c, i) & Rs2(c, i))

AMOORD(c, i) == AmoD(c, i, OldD(c, i) | Rs2(c, i))

AMOXORD(c, i) == AmoD(c, i, OldD(c, i) ^^ Rs2(c, i))

AMOMAXD(c, i) ==
    AmoD(c, i, Select(Signed(OldD(c, i)) >= Signed(Rs2(c, i)), OldD(c, i), Rs2(c, i)))

AMOMIND(c, i) ==
    AmoD(c, i, Select(Signed(OldD(c, i)) <= Signed(Rs2(c, i)), OldD(c, i), Rs2(c, i)))

AMOMAXUD(c, i) == AmoD(c, i, Select(OldD(c, i) >= Rs2(c, i), OldD(c, i), Rs2(c, i)))

AMOMINUD(c, i) == AmoD(c, i, Select(OldD(c, i) <= Rs2(c, i), OldD(c, i), Rs2(c, i)))

AMOSWAPW(c, i) == AmoW(c, i, Rs2W(c, i))

AMOADDW(c, i) == AmoW(c, i, ZeroExtend(OldW(c, i) + Rs2W(c, i), WordLen))

AMOANDW(c, i) == AmoW(c, i, OldW(c, i) & Rs2W(c, i))

AMOORW(c, i) == AmoW(c, i, OldW(c, i) | Rs2W(c, i))

AMOXORW(c, i) == AmoW(c, i, OldW(c, i) ^^ Rs2W(c, i))

AMOMAXW(c, i) ==
    AmoW(c, i, Select(SignedW(OldW(c, i)) >= SignedW(Rs2W(c, i)), OldW(c, i), Rs2W(c, i)))

AMOMINW(c, i) ==
    AmoW(c, i, Select(SignedW(OldW(c, i)) <= SignedW(Rs2W(c, i)), OldW(c, i), Rs2W(c, i)))

AMOMAXUW(c, i) == AmoW(c, i, Select(OldW(c, i) >= Rs2W(c, i), OldW(c, i), Rs2W(c, i)))

AMOMINUW(c, i) == AmoW(c, i, Select(OldW(c, i) <= Rs2W(c, i), OldW(c, i), Rs2W(c, i)))
-----------------------------------------------------------------------------
\* The virtual instructions, which exist only inside inline sequences.  The
\* assertions panic.  VirtualAdvice writes the advice its cycle carries, and
\* VirtualAdviceLoad the next bytes of the advice tape.

VirtualAdvice(c, i) == WriteRd(c, i, i.advice)

VirtualAdviceLoad(c, i) == WriteRd(c, i, i.advice)

VirtualAdviceLen(c, i) == WriteRd(c, i, i.advice)

AdviceLB(c, i) == WriteRd(c, i, SignExtend(i.advice, ByteLen))

AdviceLH(c, i) == WriteRd(c, i, SignExtend(i.advice, 2 * ByteLen))

AdviceLW(c, i) == WriteRd(c, i, SignExtend(i.advice, WordLen))

AdviceLD(c, i) == WriteRd(c, i, i.advice)

\* A nonzero immediate marks an assertion that only spoils the proof.
VirtualAssertEQ(c, i) == PanicUnless(c, i.imm = 0 => Rs1(c, i) = Rs2(c, i))

VirtualAssertLTE(c, i) == PanicUnless(c, Rs1(c, i) <= Rs2(c, i))

VirtualAssertHalfwordAlignment(c, i) == PanicUnless(c, (Rs1(c, i) + i.imm) % 2 = 0)

VirtualAssertWordAlignment(c, i) == PanicUnless(c, (Rs1(c, i) + i.imm) % 4 = 0)

VirtualAssertMulUNoOverflow(c, i) == PanicUnless(c, HighProduct(Rs1(c, i), Rs2(c, i)) = 0)

VirtualAssertValidDiv0(c, i) == PanicUnless(c, Rs1(c, i) = 0 => Rs2(c, i) = Ones)

VirtualAssertValidUnsignedRemainder(c, i) ==
    PanicUnless(c, Rs2(c, i) = 0 \/ Rs1(c, i) < Rs2(c, i))

\* A mutant: the divisor is not changed.
KeepDivisor(c, i) == WriteRd(c, i, Rs2(c, i))

\* The divisor 1 stands for -1 where the quotient would overflow.
VirtualChangeDivisor(c, i) ==
    WriteRd(c, i, Select(Rs1(c, i) = MostNegative /\ Rs2(c, i) = Ones, 1, Rs2(c, i)))

VirtualChangeDivisorW(c, i) ==
    LET divisor == SignedW(Rs2(c, i))
    IN WriteRd(c, i, Select(SignedW(Rs1(c, i)) = -(2^(WordLen - 1)) /\ divisor = -1, 1, divisor))

VirtualSignExtendWord(c, i) == WriteRd(c, i, SignExtend(Rs1(c, i), WordLen))

VirtualZeroExtendWord(c, i) == WriteRd(c, i, ZeroExtend(Rs1(c, i), WordLen))

VirtualMovsign(c, i) == WriteRd(c, i, Select(Rs1(c, i) >= MostNegative, Ones, 0))

VirtualMULI(c, i) == WriteRd(c, i, LowProduct(Rs1(c, i), i.imm))

VirtualPow2(c, i) == WriteRd(c, i, 2^(Rs1(c, i) % XLEN))

VirtualPow2I(c, i) == WriteRd(c, i, 2^(i.imm % XLEN))

VirtualPow2W(c, i) == WriteRd(c, i, 2^(Rs1(c, i) % WordLen))

VirtualPow2IW(c, i) == WriteRd(c, i, 2^(i.imm % WordLen))

VirtualShiftRightBitmask(c, i) == WriteRd(c, i, ShiftBitmask(Rs1(c, i) % XLEN))

VirtualShiftRightBitmaskI(c, i) == WriteRd(c, i, ShiftBitmask(i.imm % XLEN))

\* A shift by the trailing zeros of its bitmask; wrapping_shr takes them modulo
\* the width.
VirtualSRL(c, i) == WriteRd(c, i, Shr(Rs1(c, i), TrailingZeros(Rs2(c, i)) % XLEN))

VirtualSRLI(c, i) == WriteRd(c, i, Shr(Rs1(c, i), TrailingZeros(i.imm) % XLEN))

VirtualSRA(c, i) == WriteRd(c, i, Sar(Rs1(c, i), TrailingZeros(Rs2(c, i)) % XLEN))

VirtualSRAI(c, i) == WriteRd(c, i, Sar(Rs1(c, i), TrailingZeros(i.imm) % XLEN))

VirtualROTRI(c, i) == WriteRd(c, i, RotateRight(Rs1(c, i), TrailingZeros(i.imm), XLEN))

VirtualROTRIW(c, i) == WriteRd(c, i, RotateRight(Rs1(c, i), TrailingZeros(i.imm), WordLen))

\* The rotation is part of the instruction's name in the code, imm here.
VirtualXORROT(c, i) == WriteRd(c, i, RotateRight(Rs1(c, i) ^^ Rs2(c, i), i.imm, XLEN))

VirtualXORROTW(c, i) == WriteRd(c, i, RotateRight(Rs1(c, i) ^^ Rs2(c, i), i.imm, WordLen))

\* The bytes of one word, from byte k on, in reverse order.
SwapBytes(v, k) ==
    LET byte(n) == ZeroExtend(Shr(v, ByteLen * (k + n)), ByteLen)
    IN byte(3) + byte(2) * 2^ByteLen + byte(1) * 2^(2 * ByteLen) + byte(0) * 2^(3 * ByteLen)

Rev8w(v) == SwapBytes(v, 0) + SwapBytes(v, 4) * 2^WordLen

VirtualRev8W(c, i) == WriteRd(c, i, Rev8w(Rs1(c, i)))
-----------------------------------------------------------------------------
\* Instruction::execute.
Exec(c, i) ==
    CASE i.op = "LB" -> LB(c, i) [] i.op = "LBU" -> LBU(c, i) [] i.op = "LH" -> LH(c, i)
      [] i.op = "LHU" -> LHU(c, i) [] i.op = "LW" -> LW(c, i) [] i.op = "LWU" -> LWU(c, i)
      [] i.op = "LD" -> LD(c, i) [] i.op = "SB" -> SB(c, i) [] i.op = "SH" -> SH(c, i)
      [] i.op = "SW" -> SW(c, i) [] i.op = "SD" -> SD(c, i) [] i.op = "ADD" -> ADD(c, i)
      [] i.op = "ADDI" -> ADDI(c, i) [] i.op = "ADDW" -> ADDW(c, i)
      [] i.op = "ADDIW" -> ADDIW(c, i) [] i.op = "SUB" -> SUB(c, i) [] i.op = "SUBW" -> SUBW(c, i)
      [] i.op = "AND" -> AND(c, i) [] i.op = "ANDI" -> ANDI(c, i) [] i.op = "ANDN" -> ANDN(c, i)
      [] i.op = "OR" -> OR(c, i) [] i.op = "ORI" -> ORI(c, i) [] i.op = "XOR" -> XOR(c, i)
      [] i.op = "XORI" -> XORI(c, i) [] i.op = "SLT" -> SLT(c, i) [] i.op = "SLTI" -> SLTI(c, i)
      [] i.op = "SLTU" -> SLTU(c, i) [] i.op = "SLTIU" -> SLTIU(c, i) [] i.op = "LUI" -> LUI(c, i)
      [] i.op = "AUIPC" -> AUIPC(c, i) [] i.op = "SLL" -> SLL(c, i) [] i.op = "SLLI" -> SLLI(c, i)
      [] i.op = "SLLW" -> SLLW(c, i) [] i.op = "SLLIW" -> SLLIW(c, i) [] i.op = "SRL" -> SRL(c, i)
      [] i.op = "SRLI" -> SRLI(c, i) [] i.op = "SRLW" -> SRLW(c, i)
      [] i.op = "SRLIW" -> SRLIW(c, i) [] i.op = "SRA" -> SRA(c, i) [] i.op = "SRAI" -> SRAI(c, i)
      [] i.op = "SRAW" -> SRAW(c, i) [] i.op = "SRAIW" -> SRAIW(c, i) [] i.op = "MUL" -> MUL(c, i)
      [] i.op = "MULW" -> MULW(c, i) [] i.op = "MULH" -> MULH(c, i)
      [] i.op = "MULHSU" -> MULHSU(c, i) [] i.op = "MULHU" -> MULHU(c, i)
      [] i.op = "DIV" -> DIV(c, i) [] i.op = "DIVU" -> DIVU(c, i) [] i.op = "DIVW" -> DIVW(c, i)
      [] i.op = "DIVUW" -> DIVUW(c, i) [] i.op = "REM" -> REM(c, i) [] i.op = "REMU" -> REMU(c, i)
      [] i.op = "REMW" -> REMW(c, i) [] i.op = "REMUW" -> REMUW(c, i) [] i.op = "BEQ" -> BEQ(c, i)
      [] i.op = "BNE" -> BNE(c, i) [] i.op = "BLT" -> BLT(c, i) [] i.op = "BGE" -> BGE(c, i)
      [] i.op = "BLTU" -> BLTU(c, i) [] i.op = "BGEU" -> BGEU(c, i) [] i.op = "JAL" -> JAL(c, i)
      [] i.op = "JALR" -> JALR(c, i) [] i.op = "FENCE" -> FENCE(c, i)
      [] i.op = "AMOSWAPD" -> AMOSWAPD(c, i) [] i.op = "AMOADDD" -> AMOADDD(c, i)
      [] i.op = "AMOANDD" -> AMOANDD(c, i) [] i.op = "AMOORD" -> AMOORD(c, i)
      [] i.op = "AMOXORD" -> AMOXORD(c, i) [] i.op = "AMOMAXD" -> AMOMAXD(c, i)
      [] i.op = "AMOMIND" -> AMOMIND(c, i) [] i.op = "AMOMAXUD" -> AMOMAXUD(c, i)
      [] i.op = "AMOMINUD" -> AMOMINUD(c, i) [] i.op = "AMOSWAPW" -> AMOSWAPW(c, i)
      [] i.op = "AMOADDW" -> AMOADDW(c, i) [] i.op = "AMOANDW" -> AMOANDW(c, i)
      [] i.op = "AMOORW" -> AMOORW(c, i) [] i.op = "AMOXORW" -> AMOXORW(c, i)
      [] i.op = "AMOMAXW" -> AMOMAXW(c, i) [] i.op = "AMOMINW" -> AMOMINW(c, i)
      [] i.op = "AMOMAXUW" -> AMOMAXUW(c, i) [] i.op = "AMOMINUW" -> AMOMINUW(c, i)
      [] i.op = "VirtualAdvice" -> VirtualAdvice(c, i)
      [] i.op = "VirtualAdviceLoad" -> VirtualAdviceLoad(c, i)
      [] i.op = "VirtualAdviceLen" -> VirtualAdviceLen(c, i) [] i.op = "AdviceLB" -> AdviceLB(c, i)
      [] i.op = "AdviceLH" -> AdviceLH(c, i) [] i.op = "AdviceLW" -> AdviceLW(c, i)
      [] i.op = "AdviceLD" -> AdviceLD(c, i) [] i.op = "VirtualAssertEQ" -> VirtualAssertEQ(c, i)
      [] i.op = "VirtualAssertLTE" -> VirtualAssertLTE(c, i)
      [] i.op = "VirtualAssertHalfwordAlignment" -> VirtualAssertHalfwordAlignment(c, i)
      [] i.op = "VirtualAssertWordAlignment" -> VirtualAssertWordAlignment(c, i)
      [] i.op = "VirtualAssertMulUNoOverflow" -> VirtualAssertMulUNoOverflow(c, i)
      [] i.op = "VirtualAssertValidDiv0" -> VirtualAssertValidDiv0(c, i)
      [] i.op = "VirtualAssertValidUnsignedRemainder" -> VirtualAssertValidUnsignedRemainder(c, i)
      [] i.op = "VirtualChangeDivisor" -> VirtualChangeDivisor(c, i)
      [] i.op = "VirtualChangeDivisorW" -> VirtualChangeDivisorW(c, i)
      [] i.op = "VirtualSignExtendWord" -> VirtualSignExtendWord(c, i)
      [] i.op = "VirtualZeroExtendWord" -> VirtualZeroExtendWord(c, i)
      [] i.op = "VirtualMovsign" -> VirtualMovsign(c, i)
      [] i.op = "VirtualMULI" -> VirtualMULI(c, i) [] i.op = "VirtualPow2" -> VirtualPow2(c, i)
      [] i.op = "VirtualPow2I" -> VirtualPow2I(c, i) [] i.op = "VirtualPow2W" -> VirtualPow2W(c, i)
      [] i.op = "VirtualPow2IW" -> VirtualPow2IW(c, i)
      [] i.op = "VirtualShiftRightBitmask" -> VirtualShiftRightBitmask(c, i)
      [] i.op = "VirtualShiftRightBitmaskI" -> VirtualShiftRightBitmaskI(c, i)
      [] i.op = "VirtualSRL" -> VirtualSRL(c, i) [] i.op = "VirtualSRLI" -> VirtualSRLI(c, i)
      [] i.op = "VirtualSRA" -> VirtualSRA(c, i) [] i.op = "VirtualSRAI" -> VirtualSRAI(c, i)
      [] i.op = "VirtualROTRI" -> VirtualROTRI(c, i)
      [] i.op = "VirtualROTRIW" -> VirtualROTRIW(c, i)
      [] i.op = "VirtualXORROT" -> VirtualXORROT(c, i)
      [] i.op = "VirtualXORROTW" -> VirtualXORROTW(c, i)
      [] i.op = "VirtualRev8W" -> VirtualRev8W(c, i)
=============================================================================
