-------------------------- MODULE VirtualSequences --------------------------
(***************************************************************************)
(* The inline sequences: what an instruction that the proof system has no  *)
(* lookup table for is replaced by, both in the bytecode and in the trace  *)
(* (`inline_sequence` of its file under tracer/src/instruction, 64-bit     *)
(* path).  A sequence is built by an InstrAssembler, which expands what it *)
(* is given in turn, so that only native instructions remain.              *)
(*                                                                         *)
(* SeqX(i, b) is the sequence of instruction i of kind X when b is the     *)
(* first free virtual register: the allocator hands out b, b + 1, ... and  *)
(* an instruction expanded inside the sequence gets the registers after    *)
(* those held at that point.  The widths 64, 56, 48, 32, 31 and 63 and the *)
(* masks of the code are XLEN, XLEN - 8 bits of a byte, and so on.         *)
(***************************************************************************)
EXTENDS Instructions

SE == INSTANCE SequencesExt

\* Emitters: emit_r, emit_i (also emit_ld and emit_vshift), emit_b, emit_s,
\* emit_align and emit_j.
R(op, rd, rs1, rs2) ==
    [op |-> op, rd |-> rd, rs1 |-> rs1, rs2 |-> rs2, imm |-> 0, address |-> 0, advice |-> 0,
     inSequence |-> TRUE, first |-> FALSE, remaining |-> 0, compressed |-> FALSE]

I(op, rd, rs1, imm) == [R(op, rd, rs1, 0) EXCEPT !.imm = imm]

B(op, rs1, rs2) == R(op, 0, rs1, rs2)

RECURSIVE Dispatch(_, _)

\* add_to_sequence for a list of instructions, with the registers below b held.
Asm(b, instrs) == SE!FlattenSeq([n \in DOMAIN instrs |-> Dispatch(instrs[n], b)])

SEW(rd, rs1) == I("VirtualSignExtendWord", rd, rs1, 0)

ZEW(rd, rs1) == I("VirtualZeroExtendWord", rd, rs1, 0)

-----------------------------------------------------------------------------
\* Word arithmetic: the full-width operation, then a sign extension.

SeqADDIW(i, b) == Asm(b, <<I("ADDI", i.rd, i.rs1, i.imm), SEW(i.rd, i.rd)>>)

SeqADDW(i, b) == Asm(b, <<R("ADD", i.rd, i.rs1, i.rs2), SEW(i.rd, i.rd)>>)

SeqSUBW(i, b) == Asm(b, <<R("SUB", i.rd, i.rs1, i.rs2), SEW(i.rd, i.rd)>>)

SeqMULW(i, b) == Asm(b, <<R("MUL", i.rd, i.rs1, i.rs2), SEW(i.rd, i.rd)>>)

-----------------------------------------------------------------------------
\* Shifts: to the left by a multiplication, to the right by a bitmask.

SeqSLL(i, b) == Asm(b + 1, <<I("VirtualPow2", b, i.rs2, 0), R("MUL", i.rd, i.rs1, b)>>)

SeqSLLI(i, b) == Asm(b, <<I("VirtualMULI", i.rd, i.rs1, 2^(i.imm % XLEN))>>)

SeqSLLIW(i, b) ==
    Asm(b, <<I("VirtualMULI", i.rd, i.rs1, 2^(i.imm % WordLen)), SEW(i.rd, i.rd)>>)

SeqSLLW(i, b) ==
    Asm(b + 1, <<I("VirtualPow2W", b, i.rs2, 0), R("MUL", i.rd, i.rs1, b), SEW(i.rd, i.rd)>>)

SeqSRL(i, b) ==
    Asm(b + 1, <<I("VirtualShiftRightBitmask", b, i.rs2, 0), R("VirtualSRL", i.rd, i.rs1, b)>>)

SeqSRA(i, b) ==
    Asm(b + 1, <<I("VirtualShiftRightBitmask", b, i.rs2, 0), R("VirtualSRA", i.rd, i.rs1, b)>>)

SeqSRLI(i, b) == Asm(b, <<I("VirtualSRLI", i.rd, i.rs1, ShiftBitmask(i.imm % XLEN))>>)

SeqSRAI(i, b) == Asm(b, <<I("VirtualSRAI", i.rd, i.rs1, ShiftBitmask(i.imm % XLEN))>>)

SeqSRLIW(i, b) ==
    Asm(b + 1, <<I("SLLI", b, i.rs1, WordLen),
                 I("VirtualSRLI", i.rd, b, ShiftBitmask((i.imm % WordLen) + WordLen)),
                 SEW(i.rd, i.rd)>>)

SeqSRAIW(i, b) ==
    Asm(b + 1, <<SEW(b, i.rs1),
                 I("VirtualSRAI", i.rd, b, ShiftBitmask(i.imm % WordLen)),
                 SEW(i.rd, i.rd)>>)

SeqSRLW(i, b) ==
    LET bitmask == b  v == b + 1
    IN Asm(b + 2, <<I("SLLI", v, i.rs1, WordLen), I("ORI", bitmask, i.rs2, WordLen),
                    I("VirtualShiftRightBitmask", bitmask, bitmask, 0),
                    R("VirtualSRL", i.rd, v, bitmask), SEW(i.rd, i.rd)>>)

SeqSRAW(i, b) ==
    LET v == b  bitmask == b + 1
    IN Asm(b + 2, <<SEW(v, i.rs1), I("ANDI", bitmask, i.rs2, WordLen - 1),
                    I("VirtualShiftRightBitmask", bitmask, bitmask, 0),
                    R("VirtualSRA", i.rd, v, bitmask), SEW(i.rd, i.rd)>>)

-----------------------------------------------------------------------------
\* High halves of signed products, from unsigned ones.

SeqMULH(i, b) ==
    LET sx == b  sy == b + 1  t == b + 2
    IN Asm(b + 3, <<I("VirtualMovsign", sx, i.rs1, 0), I("VirtualMovsign", sy, i.rs2, 0),
                    R("MUL", sx, sx, i.rs2), R("MUL", sy, sy, i.rs1),
                    R("MULHU", t, i.rs1, i.rs2), R("ADD", t, t, sx), R("ADD", i.rd, t, sy)>>)

SeqMULHSU(i, b) ==
    LET v0 == b  v1 == b + 1  v2 == b + 2  v3 == b + 3
    IN Asm(b + 4, <<I("VirtualMovsign", v0, i.rs1, 0), I("ANDI", v1, v0, 1),
                    R("XOR", v2, i.rs1, v0), R("ADD", v2, v2, v1),
                    R("MULHU", v3, v2, i.rs2), R("MUL", v2, v2, i.rs2),
                    R("XOR", v3, v3, v0), R("XOR", v2, v2, v0),
                    R("ADD", v0, v2, v1), R("SLTU", v0, v0, v2), R("ADD", i.rd, v3, v0)>>)

-----------------------------------------------------------------------------
\* Division: the prover advises the quotient (and the absolute remainder), the
\* sequence asserts what makes them the right ones.

Require(name, rs1, rs2) == B("VirtualAssert" \o name, rs1, rs2)

Advice(rd) == R("VirtualAdvice", rd, 0, 0)

Move(rd, rs1) == I("ADDI", rd, rs1, 0)

\* t = v if the sign mask s is 0 and -v if it is all ones.
Negate(t, v, s) == <<R("XOR", t, v, s), R("SUB", t, t, s)>>

\* DIV and REM up to the check that dividend = quotient * divisor + remainder;
\* t2 and t3 are allocated after MULH has been expanded.
DivisionIdentity(i, b) ==
    LET a2 == b  a3 == b + 1  t0 == b + 2  t1 == b + 3  t2 == b + 4  t3 == b + 5
    IN Asm(b + 4, <<Advice(a2), Advice(a3), Require("ValidDiv0", i.rs2, a2),
                    R("VirtualChangeDivisor", t0, i.rs1, i.rs2), R("MULH", t1, a2, t0)>>)
       \o Asm(b + 6, <<R("MUL", t2, a2, t0), I("SRAI", t3, t2, XLEN - 1), Require("EQ", t1, t3),
                       I("SRAI", t1, i.rs1, XLEN - 1)>> \o Negate(t3, a3, t1)
                     \o <<R("ADD", t2, t2, t3), Require("EQ", t2, i.rs1),
                          I("SRAI", t1, t0, XLEN - 1)>>)

SeqDIV(i, b) ==
    LET a2 == b  a3 == b + 1  t0 == b + 2  t1 == b + 3  t3 == b + 5
    IN DivisionIdentity(i, b)
       \o Asm(b + 6, Negate(t3, t0, t1)
                     \o <<Require("ValidUnsignedRemainder", a3, t3), Move(i.rd, a2)>>)

SeqREM(i, b) ==
    LET a3 == b + 1  t0 == b + 2  t1 == b + 3  t2 == b + 4  t3 == b + 5
    IN DivisionIdentity(i, b)
       \o Asm(b + 6, Negate(t2, t0, t1)
                     \o <<Require("ValidUnsignedRemainder", a3, t2), Move(i.rd, t3)>>)

\* A mutant: the product of quotient and divisor may wrap around.
UnsignedRemainderWrapping(q, x, y, t) ==
    <<R("MUL", t, q, y), Require("LTE", t, x), R("SUB", t, x, t),
      Require("ValidUnsignedRemainder", t, y)>>

\* The remainder of x by y in t, of the quotient q, without wrapping around.
UnsignedRemainder(q, x, y, t) ==
    <<Require("MulUNoOverflow", q, y), R("MUL", t, q, y), Require("LTE", t, x), R("SUB", t, x, t),
      Require("ValidUnsignedRemainder", t, y)>>

SeqDIVU(i, b) ==
    Asm(b + 2, <<Advice(b), Require("ValidDiv0", i.rs2, b)>>
               \o UnsignedRemainder(b, i.rs1, i.rs2, b + 1) \o <<Move(i.rd, b)>>)

SeqREMU(i, b) ==
    Asm(b + 1, <<Advice(b)>> \o UnsignedRemainder(b, i.rs1, i.rs2, b) \o <<Move(i.rd, b)>>)

SeqDIVUW(i, b) ==
    LET x == b  y == b + 1  quo == b + 2  t == b + 3
    IN Asm(b + 4, <<ZEW(x, i.rs1), ZEW(y, i.rs2), Advice(quo)>> \o UnsignedRemainder(quo, x, y, t)
                  \o <<SEW(t, quo), Require("ValidDiv0", y, t), Move(i.rd, t)>>)

SeqREMUW(i, b) ==
    LET x == b  y == b + 1  t == b + 2
    IN Asm(b + 3, <<ZEW(x, i.rs1), ZEW(y, i.rs2), Advice(t)>> \o UnsignedRemainder(t, x, y, t)
                  \o <<SEW(i.rd, t)>>)

\* DIVW and REMW up to the check of the remainder; t3 holds the signed one.
WordDivision(i, b) ==
    LET a2 == b  a3 == b + 1  t0 == b + 2  t1 == b + 3  t2 == b + 4  t3 == b + 5  t4 == b + 6
    IN Asm(b + 7, <<Advice(a2), Advice(a3), SEW(t4, i.rs1), SEW(t3, i.rs2),
                    Require("ValidDiv0", t3, a2), R("VirtualChangeDivisorW", t0, t4, t3),
                    SEW(t1, a2), Require("EQ", t1, a2),
                    I("SRAI", t2, a3, WordLen - 1), Require("EQ", t2, 0),
                    I("SRAI", t2, t4, WordLen - 1)>> \o Negate(t3, a3, t2)
                  \o <<R("MUL", t1, a2, t0), R("ADD", t1, t1, t3), Require("EQ", t1, t4),
                       I("SRAI", t2, t0, WordLen - 1)>> \o Negate(t1, t0, t2)
                  \o <<Require("ValidUnsignedRemainder", a3, t1)>>)

SeqDIVW(i, b) == WordDivision(i, b) \o Asm(b + 7, <<SEW(i.rd, b)>>)

SeqREMW(i, b) == WordDivision(i, b) \o Asm(b + 7, <<SEW(i.rd, b + 5)>>)

-----------------------------------------------------------------------------
\* Narrow loads and stores work on the doubleword around the address.

Minus8 == Unsigned(-8)

Align(name, rs1, imm) == I("VirtualAssert" \o name \o "Alignment", 0, rs1, imm)

\* v0 = the address, v1 = the doubleword there.
LoadDoubleword(i, v0, v1) ==
    <<I("ADDI", v0, i.rs1, Unsigned(i.imm)), I("ANDI", v1, v0, Minus8), I("LD", v1, v1, 0)>>

\* A value of n bytes is moved to the top of the doubleword and shifted back.
FromTop(i, b, n, shift) ==
    LoadDoubleword(i, b, b + 1)
    \o <<I("XORI", b, b, 8 - n), I("SLLI", b, b, LogByteLen), R("SLL", b + 1, b + 1, b),
         I(shift, i.rd, b + 1, XLEN - n * ByteLen)>>

SeqLB(i, b) == Asm(b + 2, FromTop(i, b, 1, "SRAI"))

SeqLBU(i, b) == Asm(b + 2, FromTop(i, b, 1, "SRLI"))

SeqLH(i, b) == Asm(b + 2, <<Align("Halfword", i.rs1, i.imm)>> \o FromTop(i, b, 2, "SRAI"))

SeqLHU(i, b) == Asm(b + 2, <<Align("Halfword", i.rs1, i.imm)>> \o FromTop(i, b, 2, "SRLI"))

SeqLW(i, b) ==
    Asm(b + 2, <<Align("Word", i.rs1, i.imm)>> \o LoadDoubleword(i, b, b + 1)
               \o <<I("SLLI", b, b, LogByteLen), R("SRL", b + 1, b + 1, b), SEW(i.rd, b + 1)>>)

SeqLWU(i, b) == Asm(b + 2, <<Align("Word", i.rs1, i.imm)>> \o FromTop(i, b, 4, "SRLI"))

\* dword := dword with the bits of mask taken from v, which the sequences
\* compute as dword XOR ((dword XOR v) AND mask), with v spoilt.
Merge(dword, v, mask) ==
    <<R("XOR", v, dword, v), R("AND", v, v, mask), R("XOR", dword, dword, v)>>

StoreMasked(i, b, mask) ==
    LET v0 == b  v1 == b + 1  v2 == b + 2  v3 == b + 3
    IN <<I("ADDI", v0, i.rs1, Unsigned(i.imm)), I("ANDI", v1, v0, Minus8), I("LD", v2, v1, 0),
         I("SLLI", v3, v0, LogByteLen), I("LUI", v0, 0, mask), R("SLL", v0, v0, v3),
         R("SLL", v3, i.rs2, v3)>> \o Merge(v2, v3, v0) \o <<B("SD", v1, v2)>>

SeqSB(i, b) == Asm(b + 4, StoreMasked(i, b, 2^ByteLen - 1))

SeqSH(i, b) ==
    Asm(b + 4, <<Align("Halfword", i.rs1, i.imm)>> \o StoreMasked(i, b, 2^(2 * ByteLen) - 1))

\* mask := the low word's ones, moved to bit `shift`.
WordMask(mask, shift) ==
    <<I("ORI", mask, 0, Ones), I("SRLI", mask, mask, WordLen), R("SLL", mask, mask, shift)>>

SeqSW(i, b) ==
    LET v0 == b  v1 == b + 1  v2 == b + 2  v3 == b + 3
    IN Asm(b + 4, <<Align("Word", i.rs1, i.imm), I("ADDI", v0, i.rs1, Unsigned(i.imm)),
                    I("ANDI", v1, v0, Minus8), I("LD", v2, v1, 0), I("SLLI", v0, v0, LogByteLen)>>
                  \o WordMask(v3, v0) \o <<R("SLL", v0, i.rs2, v0)>> \o Merge(v2, v0, v3)
                  \o <<B("SD", v1, v2)>>)

-----------------------------------------------------------------------------
\* Atomic memory operations on a doubleword.

AmoSeqD(op, i, b) ==
    Asm(b + 2, <<I("LD", b + 1, i.rs1, 0), R(op, b, b + 1, i.rs2), B("SD", i.rs1, b),
                 Move(i.rd, b + 1)>>)

SeqAMOADDD(i, b) == AmoSeqD("ADD", i, b)

SeqAMOANDD(i, b) == AmoSeqD("AND", i, b)

SeqAMOORD(i, b) == AmoSeqD("OR", i, b)

SeqAMOXORD(i, b) == AmoSeqD("XOR", i, b)

SeqAMOSWAPD(i, b) ==
    Asm(b + 1, <<I("LD", b, i.rs1, 0), B("SD", i.rs1, i.rs2), Move(i.rd, b)>>)

\* v1 := v0 + less * (rs2 - v0), where less says that rs2 is the one to keep.
AmoSelectD(i, b, less) ==
    LET v0 == b  v1 == b + 1  v2 == b + 2
    IN Asm(b + 3, <<I("LD", v0, i.rs1, 0), less, R("SUB", v2, i.rs2, v0), R("MUL", v2, v2, v1),
                    R("ADD", v1, v0, v2), B("SD", i.rs1, v1), Move(i.rd, v0)>>)

SeqAMOMAXD(i, b) == AmoSelectD(i, b, R("SLT", b + 1, b, i.rs2))

SeqAMOMIND(i, b) == AmoSelectD(i, b, R("SLT", b + 1, i.rs2, b))

SeqAMOMAXUD(i, b) == AmoSelectD(i, b, R("SLTU", b + 1, b, i.rs2))

SeqAMOMINUD(i, b) == AmoSelectD(i, b, R("SLTU", b + 1, i.rs2, b))

-----------------------------------------------------------------------------
\* Atomic memory operations on a word of a doubleword.

amo_pre64(rs1, v_rd, v_dword, v_shift) ==
    <<Align("Word", rs1, 0), I("ANDI", v_shift, rs1, Minus8), I("LD", v_dword, v_shift, 0),
      I("SLLI", v_shift, rs1, LogByteLen), R("SRL", v_rd, v_dword, v_shift)>>

amo_post64(rs1, rs2, v_dword, v_shift, v_mask, rd, v_rd) ==
    WordMask(v_mask, v_shift) \o <<R("SLL", v_shift, rs2, v_shift)>>
    \o Merge(v_dword, v_shift, v_mask)
    \o <<I("ANDI", v_mask, rs1, Minus8), B("SD", v_mask, v_dword), SEW(rd, v_rd)>>

AmoSeqW(op, i, b) ==
    LET v_rd == b  v_rs2 == b + 1  v_mask == b + 2  v_dword == b + 3  v_shift == b + 4
    IN Asm(b + 5, amo_pre64(i.rs1, v_rd, v_dword, v_shift) \o <<R(op, v_rs2, v_rd, i.rs2)>>
                  \o amo_post64(i.rs1, v_rs2, v_dword, v_shift, v_mask, i.rd, v_rd))

SeqAMOADDW(i, b) == AmoSeqW("ADD", i, b)

SeqAMOANDW(i, b) == AmoSeqW("AND", i, b)

SeqAMOORW(i, b) == AmoSeqW("OR", i, b)

SeqAMOXORW(i, b) == AmoSeqW("XOR", i, b)

SeqAMOSWAPW(i, b) ==
    LET v_mask == b  v_dword == b + 1  v_shift == b + 2  v_rd == b + 3
    IN Asm(b + 4, amo_pre64(i.rs1, v_rd, v_dword, v_shift)
                  \o amo_post64(i.rs1, i.rs2, v_dword, v_shift, v_mask, i.rd, v_rd))

\* The comparison is of the extended words, the selection of the whole
\* registers, of which only the low word is stored.
AmoSelectW(i, b, extend, less) ==
    LET v_rd == b  v_dword == b + 1  v_shift == b + 2  v_rs2 == b + 3  v0 == b + 4
    IN Asm(b + 3, amo_pre64(i.rs1, v_rd, v_dword, v_shift))
       \o Asm(b + 5, <<I(extend, v_rs2, i.rs2, 0), I(extend, v0, v_rd, 0), less,
                       R("SUB", v_rs2, i.rs2, v_rd), R("MUL", v_rs2, v_rs2, v0),
                       R("ADD", v_rs2, v_rs2, v_rd)>>
                     \o amo_post64(i.rs1, v_rs2, v_dword, v_shift, v0, i.rd, v_rd))

SeqAMOMAXW(i, b) == AmoSelectW(i, b, "VirtualSignExtendWord", R("SLT", b + 4, b + 4, b + 3))

SeqAMOMINW(i, b) == AmoSelectW(i, b, "VirtualSignExtendWord", R("SLT", b + 4, b + 3, b + 4))

SeqAMOMAXUW(i, b) == AmoSelectW(i, b, "VirtualZeroExtendWord", R("SLTU", b + 4, b + 4, b + 3))

SeqAMOMINUW(i, b) == AmoSelectW(i, b, "VirtualZeroExtendWord", R("SLTU", b + 4, b + 3, b + 4))

-----------------------------------------------------------------------------
\* Loads of n bytes from the advice tape.

AdviceSeq(i, b, n) ==
    Asm(b, <<I("VirtualAdviceLoad", i.rd, 0, n), I("SLLI", i.rd, i.rd, XLEN - n * ByteLen),
             I("SRAI", i.rd, i.rd, XLEN - n * ByteLen)>>)

SeqAdviceLB(i, b) == AdviceSeq(i, b, 1)

SeqAdviceLH(i, b) == AdviceSeq(i, b, 2)

SeqAdviceLW(i, b) == AdviceSeq(i, b, 4)

SeqAdviceLD(i, b) == Asm(b, <<I("VirtualAdviceLoad", i.rd, 0, 8)>>)

-----------------------------------------------------------------------------
\* dispatch_inline_sequence.
Dispatch(i, b) ==
    CASE i.op = "ADDIW" -> SeqADDIW(i, b) [] i.op = "ADDW" -> SeqADDW(i, b)
      [] i.op = "SUBW" -> SeqSUBW(i, b) [] i.op = "MULW" -> SeqMULW(i, b)
      [] i.op = "SLL" -> SeqSLL(i, b) [] i.op = "SLLI" -> SeqSLLI(i, b)
      [] i.op = "SLLIW" -> SeqSLLIW(i, b) [] i.op = "SLLW" -> SeqSLLW(i, b)
      [] i.op = "SRL" -> SeqSRL(i, b) [] i.op = "SRA" -> SeqSRA(i, b)
      [] i.op = "SRLI" -> SeqSRLI(i, b) [] i.op = "SRAI" -> SeqSRAI(i, b)
      [] i.op = "SRLIW" -> SeqSRLIW(i, b) [] i.op = "SRAIW" -> SeqSRAIW(i, b)
      [] i.op = "SRLW" -> SeqSRLW(i, b) [] i.op = "SRAW" -> SeqSRAW(i, b)
      [] i.op = "MULH" -> SeqMULH(i, b) [] i.op = "MULHSU" -> SeqMULHSU(i, b)
      [] i.op = "DIV" -> SeqDIV(i, b) [] i.op = "REM" -> SeqREM(i, b)
      [] i.op = "DIVU" -> SeqDIVU(i, b) [] i.op = "REMU" -> SeqREMU(i, b)
      [] i.op = "DIVUW" -> SeqDIVUW(i, b) [] i.op = "REMUW" -> SeqREMUW(i, b)
      [] i.op = "DIVW" -> SeqDIVW(i, b) [] i.op = "REMW" -> SeqREMW(i, b)
      [] i.op = "LB" -> SeqLB(i, b) [] i.op = "LBU" -> SeqLBU(i, b) [] i.op = "LH" -> SeqLH(i, b)
      [] i.op = "LHU" -> SeqLHU(i, b) [] i.op = "LW" -> SeqLW(i, b) [] i.op = "LWU" -> SeqLWU(i, b)
      [] i.op = "SB" -> SeqSB(i, b) [] i.op = "SH" -> SeqSH(i, b) [] i.op = "SW" -> SeqSW(i, b)
      [] i.op = "AMOADDD" -> SeqAMOADDD(i, b) [] i.op = "AMOANDD" -> SeqAMOANDD(i, b)
      [] i.op = "AMOORD" -> SeqAMOORD(i, b) [] i.op = "AMOXORD" -> SeqAMOXORD(i, b)
      [] i.op = "AMOSWAPD" -> SeqAMOSWAPD(i, b) [] i.op = "AMOMAXD" -> SeqAMOMAXD(i, b)
      [] i.op = "AMOMIND" -> SeqAMOMIND(i, b) [] i.op = "AMOMAXUD" -> SeqAMOMAXUD(i, b)
      [] i.op = "AMOMINUD" -> SeqAMOMINUD(i, b) [] i.op = "AMOADDW" -> SeqAMOADDW(i, b)
      [] i.op = "AMOANDW" -> SeqAMOANDW(i, b) [] i.op = "AMOORW" -> SeqAMOORW(i, b)
      [] i.op = "AMOXORW" -> SeqAMOXORW(i, b) [] i.op = "AMOSWAPW" -> SeqAMOSWAPW(i, b)
      [] i.op = "AMOMAXW" -> SeqAMOMAXW(i, b) [] i.op = "AMOMINW" -> SeqAMOMINW(i, b)
      [] i.op = "AMOMAXUW" -> SeqAMOMAXUW(i, b) [] i.op = "AMOMINUW" -> SeqAMOMINUW(i, b)
      [] i.op = "AdviceLB" -> SeqAdviceLB(i, b) [] i.op = "AdviceLH" -> SeqAdviceLH(i, b)
      [] i.op = "AdviceLW" -> SeqAdviceLW(i, b) [] i.op = "AdviceLD" -> SeqAdviceLD(i, b)
      [] OTHER -> <<i>>

HasRd(i) ==
    i.op \notin {"BEQ", "BNE", "BLT", "BGE", "BLTU", "BGEU", "SB", "SH", "SW", "SD", "FENCE",
                 "VirtualAssertEQ", "VirtualAssertLTE", "VirtualAssertHalfwordAlignment",
                 "VirtualAssertWordAlignment", "VirtualAssertMulUNoOverflow",
                 "VirtualAssertValidDiv0", "VirtualAssertValidUnsignedRemainder"}

\* Of the instructions with a target, those that do more than write it.
HasSideEffects(i) ==
    i.op \in {"AdviceLB", "AdviceLH", "AdviceLW", "AdviceLD", "VirtualAdviceLoad", "JAL", "JALR"}
             \union {"AMO" \o kind \o width : width \in {"D", "W"},
                     kind \in {"SWAP", "ADD", "AND", "OR", "XOR", "MAX", "MIN", "MAXU", "MINU"}}

\* A mutant: every instruction of a sequence has the size of the original.
FinalizeAllCompressed(sequence, i) ==
    [n \in DOMAIN sequence |->
        [sequence[n] EXCEPT !.address = i.address, !.first = (n = 1),
                            !.remaining = Len(sequence) - n, !.compressed = i.compressed]]

\* finalize: the place of each instruction in the sequence.  All of them carry
\* the address of the instruction they replace, the last one its size.
Finalize(sequence, i) ==
    [n \in DOMAIN sequence |->
        [sequence[n] EXCEPT !.address = i.address, !.first = (n = 1),
                            !.remaining = Len(sequence) - n,
                            !.compressed = i.compressed /\ n = Len(sequence)]]

Nop(i) ==
    [i EXCEPT !.op = "ADDI", !.rs1 = 0, !.rs2 = 0, !.imm = 0]

\* Instruction::inline_sequence: no instruction that names x0 as its target
\* reaches the constraint system.  An effect is kept under a virtual target.
\* A native instruction is no sequence and stays as it is.
Inline(i, b) ==
    LET toZero   == HasRd(i) /\ i.rd = 0
        remapped == toZero /\ HasSideEffects(i)
        j        == CASE remapped -> [i EXCEPT !.rd = b]
                      [] toZero /\ ~remapped -> Nop(i)
                      [] OTHER -> i
        sequence == Dispatch(j, IF remapped THEN b + 1 ELSE b)
    IN IF sequence = <<j>> THEN sequence ELSE Finalize(sequence, i)
=============================================================================
