------------------------------- MODULE Words -------------------------------
(***************************************************************************)
(* Machine words of XLEN bits, as the emulator and the lookup tables use   *)
(* them.  The code runs with XLEN = 64; every width it derives from it is  *)
(* derived here the same way (a word is half of a register, a halfword a   *)
(* quarter, and a doubleword always holds eight bytes), so that XLEN can   *)
(* be small.  The repository's own table tests run with XLEN = 8.          *)
(* A register holds the unsigned reading of its bits.                      *)
(***************************************************************************)
EXTENDS Integers, Bitwise

CONSTANT XLEN

\* XLEN = 8 * 2^k, so that a byte has a whole number of bits.
ASSUME XlenAssumption == XLEN \in {8, 16, 32}

WordLen == XLEN \div 2

ByteLen == XLEN \div 8

\* log2 of the bits of a byte: the 3 of the shifts that turn bytes into bits.
LogByteLen == CHOOSE k \in 0..3 : 2^k = ByteLen

Modulus == 2^XLEN

Word == 0..(Modulus - 1)

Ones == Modulus - 1

MostNegative == 2^(XLEN - 1)

\* `v as i64` and `i as u64`.
Signed(v) == IF v >= MostNegative THEN v - Modulus ELSE v

Unsigned(v) == v % Modulus

\* Truncation to n bits (`as u32`, `as u16`, `as u8`), and the sign extension
\* of the truncated value back to a register (`as i32 as i64`).
ZeroExtend(v, n) == v % 2^n

SignedBits(v, n) ==
    LET low == v % 2^n IN IF low >= 2^(n - 1) THEN low - 2^n ELSE low

SignExtend(v, n) == Unsigned(SignedBits(v, n))

Bool(b) == IF b THEN 1 ELSE 0

Abs(v) == IF v < 0 THEN -v ELSE v

\* Rust's division rounds towards zero, TLA+'s towards minus infinity.
TruncDiv(a, b) == IF (a < 0) = (b < 0) THEN Abs(a) \div Abs(b) ELSE -(Abs(a) \div Abs(b))

TruncRem(a, b) == a - b * TruncDiv(a, b)

\* The two halves of the 2 * XLEN bits of a product of registers, computed from
\* the halves of x so that no intermediate number needs more than 3/2 XLEN bits.
HighProduct(x, y) ==
    LET h == 2^WordLen
    IN ((x \div h) * y + (((x % h) * y) \div h)) \div h

LowProduct(x, y) ==
    LET h == 2^WordLen
    IN Unsigned((((x \div h) * y) % h) * h + (x % h) * y)

Complement(v) == Ones - v

Shl(v, s) == Unsigned(v * 2^s)

Shr(v, s) == v \div 2^s

\* Arithmetic shift: a floor division of the signed value.
Sar(v, s) == Unsigned(Signed(v) \div 2^s)

TrailingZeros(v) == IF v = 0 THEN XLEN ELSE CHOOSE k \in 0..(XLEN - 1) : v % 2^(k + 1) = 2^k

\* Rotation to the right within the low n bits.
RotateRight(v, s, n) ==
    LET k == s % n IN ((v % 2^n) \div 2^k) + ((v % 2^k) * 2^(n - k))

\* The ones of a right shift by s: `ones << shift`, whose trailing zeros are s.
ShiftBitmask(s) == Modulus - 2^s

Bit(v, k) == (v \div 2^k) % 2
=============================================================================
