-------------------------- MODULE TablePolynomials --------------------------
(***************************************************************************)
(* The suffixes of the lookup tables, and the tables as polynomials: their *)
(* extensions, and sums of products of prefixes and suffixes.              *)
(***************************************************************************)
EXTENDS TablePrefixes

(***************************************************************************)
(* The suffix polynomials of the lookup tables, one per file of            *)
(* lookup_table/suffixes.  A suffix is only ever evaluated on the last     *)
(* bits of an index that was looked up.                                    *)
(***************************************************************************)

BitwiseSuffix(op(_, _), b) == ValueOf(op, LeftBits(b), RightBits(b))

OneSuffix(b) == 1

AndSuffix(b) == BitwiseSuffix(AndOf, b)

NotAndSuffix(b) == BitwiseSuffix(AndnOf, b)

OrSuffix(b) == BitwiseSuffix(OrOf, b)

XorSuffix(b) == BitwiseSuffix(XorOf, b)

XorRotSuffix(b, s) == RotateRight(BitwiseSuffix(XorOf, b), RotationOf[s], XLEN)

XorRotWSuffix(b, s) ==
    RotateRight(ZeroExtend(BitwiseSuffix(XorOf, b), WordLen), RotationOf[s], WordLen)

RightOperandSuffix(b) == Value(RightBits(b))

RightOperandWSuffix(b) == ZeroExtend(Value(RightBits(b)), WordLen)

ChangeDivisorSuffix(b) == Bool(AllOnes(RightBits(b)) /\ AllZero(LeftBits(b)))

ChangeDivisorWSuffix(b) ==
    Bool(AllOnes(Truncate(RightBits(b), WordLen)) /\ AllZero(Truncate(LeftBits(b), WordLen)))

UpperWordSuffix(b) == IF Len(b) > XLEN THEN Value(HighBits(b, XLEN)) ELSE 0

LowerWordSuffix(b) == Value(Truncate(b, XLEN))

LowerHalfWordSuffix(b) == Value(Truncate(b, WordLen))

LessThanSuffix(b) == Bool(Value(LeftBits(b)) < Value(RightBits(b)))

EqSuffix(b) == Bool(Value(LeftBits(b)) = Value(RightBits(b)))

LeftIsZeroSuffix(b) == Bool(AllZero(LeftBits(b)))

RightIsZeroSuffix(b) == Bool(AllZero(RightBits(b)))

LsbSuffix(b) == IF Len(b) = 0 THEN 1 ELSE b[Len(b)]

TwoLsbSuffix(b) == Bool(Len(b) = 0 \/ AllZero(LowBits(b, 2)))

DivByZeroSuffix(b) == Bool(AllZero(LeftBits(b)) /\ AllOnes(RightBits(b)))

Pow2Suffix(b) == IF Len(b) = 0 THEN 1 ELSE 2^Value(LowBits(b, Log(XLEN)))

Pow2WSuffix(b) == IF Len(b) = 0 THEN 1 ELSE 2^Value(LowBits(b, Log(WordLen)))

Rev8WSuffix(b) == Rev8w(Value(Truncate(b, XLEN)))

RightShiftSuffix(b) == Shr(Value(LeftBits(b)), TrailingZeroBits(RightBits(b)))

RightShiftHelperSuffix(b) == 2^LeadingOnes(RightBits(b))

LeftShiftSuffix(b) == Shl(BitwiseSuffix(AndnOf, b), LeadingOnes(RightBits(b)))

\* The W shifts look at the low word of the operands.
LowWord(b) == Truncate(RightBits(b), WordLen)

RightShiftWSuffix(b) ==
    LET zeros == TrailingZeroBits(RightBits(b))
    IN Shr(ZeroExtend(Value(LeftBits(b)), WordLen), IF zeros > WordLen THEN WordLen ELSE zeros)

RightShiftWHelperSuffix(b) == 2^LeadingOnes(LowWord(b))

LeftShiftWSuffix(b) ==
    ZeroExtend(ZeroExtend(BitwiseSuffix(AndnOf, b), WordLen) * 2^LeadingOnes(LowWord(b)), WordLen)

SignExtensionSuffix(b) == Modulus - 2^(XLEN - TrailingZeroBits(RightBits(b)))

\* The bit at position k, if the suffix is long enough to hold it at all.
SignBitSuffix(b, len, k) ==
    CASE Len(b) < len -> 1
      [] Len(b) >= len /\ b[Len(b) - k] = 1 -> Modulus - 2^WordLen
      [] OTHER -> 0

SignExtensionUpperHalfSuffix(b) == SignBitSuffix(b, WordLen, WordLen - 1)

SignExtensionRightOperandSuffix(b) == SignBitSuffix(b, XLEN, XLEN - 2)

OverflowBitsZeroSuffix(b) == Bool(Len(b) <= XLEN \/ AllZero(HighBits(b, XLEN)))

\* The suffixes that a table uses.
SuffixNames ==
    {"One", "And", "NotAnd", "Xor", "Or", "RightOperand", "RightOperandW", "ChangeDivisor",
     "ChangeDivisorW", "UpperWord", "LowerWord", "LowerHalfWord", "LessThan", "Eq",
     "LeftOperandIsZero", "RightOperandIsZero", "Lsb", "DivByZero", "Pow2", "Pow2W", "Rev8W",
     "RightShift", "RightShiftHelper", "SignExtension", "LeftShift", "TwoLsb",
     "SignExtensionUpperHalf", "SignExtensionRightOperand", "RightShiftW", "RightShiftWHelper",
     "LeftShiftW", "OverflowBitsZero", "XorRot16", "XorRot24", "XorRot32", "XorRot63",
     "XorRotW16", "XorRotW12", "XorRotW8", "XorRotW7"}

\* Suffixes::suffix_mle.
SuffixMle(s, b) ==
    CASE s = "One" -> OneSuffix(b)
      [] s = "And" -> AndSuffix(b)
      [] s = "NotAnd" -> NotAndSuffix(b)
      [] s = "Or" -> OrSuffix(b)
      [] s = "Xor" -> XorSuffix(b)
      [] s \in {"XorRot16", "XorRot24", "XorRot32", "XorRot63"} -> XorRotSuffix(b, s)
      [] s \in {"XorRotW16", "XorRotW12", "XorRotW8", "XorRotW7"} -> XorRotWSuffix(b, s)
      [] s = "RightOperand" -> RightOperandSuffix(b)
      [] s = "RightOperandW" -> RightOperandWSuffix(b)
      [] s = "ChangeDivisor" -> ChangeDivisorSuffix(b)
      [] s = "ChangeDivisorW" -> ChangeDivisorWSuffix(b)
      [] s = "UpperWord" -> UpperWordSuffix(b)
      [] s = "LowerWord" -> LowerWordSuffix(b)
      [] s = "LowerHalfWord" -> LowerHalfWordSuffix(b)
      [] s = "LessThan" -> LessThanSuffix(b)
      [] s = "Eq" -> EqSuffix(b)
      [] s = "LeftOperandIsZero" -> LeftIsZeroSuffix(b)
      [] s = "RightOperandIsZero" -> RightIsZeroSuffix(b)
      [] s = "Lsb" -> LsbSuffix(b)
      [] s = "TwoLsb" -> TwoLsbSuffix(b)
      [] s = "DivByZero" -> DivByZeroSuffix(b)
      [] s = "Pow2" -> Pow2Suffix(b)
      [] s = "Pow2W" -> Pow2WSuffix(b)
      [] s = "Rev8W" -> Rev8WSuffix(b)
      [] s = "RightShift" -> RightShiftSuffix(b)
      [] s = "RightShiftHelper" -> RightShiftHelperSuffix(b)
      [] s = "LeftShift" -> LeftShiftSuffix(b)
      [] s = "RightShiftW" -> RightShiftWSuffix(b)
      [] s = "RightShiftWHelper" -> RightShiftWHelperSuffix(b)
      [] s = "LeftShiftW" -> LeftShiftWSuffix(b)
      [] s = "SignExtension" -> SignExtensionSuffix(b)
      [] s = "SignExtensionUpperHalf" -> SignExtensionUpperHalfSuffix(b)
      [] s = "SignExtensionRightOperand" -> SignExtensionRightOperandSuffix(b)
      [] s = "OverflowBitsZero" -> OverflowBitsZeroSuffix(b)

-----------------------------------------------------------------------------
(***************************************************************************)
(* The lookup tables as polynomials, one pair of definitions per file of   *)
(* lookup_table: evaluate_mle, the multilinear extension the verifier      *)
(* evaluates at the point r of the 2 * XLEN index variables, and combine,  *)
(* how the prover puts the table together from its prefixes P and suffixes *)
(* S.  A table t is a record: its name and, for the tables with a built-in *)
(* rotation, the name of that rotation.                                    *)
(***************************************************************************)

\* Variable i of the left and of the right operand, from the most significant.
X(r, i) == r[2 * i + 1]

Y(r, i) == r[2 * i + 2]

BitwiseMle(op(_, _), r) ==
    SumOf(0, XLEN - 1, LAMBDA i : TwoTo[XLEN - 1 - i] ** op(X(r, i), Y(r, i)))

AndMle(r) == BitwiseMle(AndOf, r)

AndCombine(P, S) == P["And"] ** S["One"] ++ S["And"]

AndnMle(r) == BitwiseMle(AndnOf, r)

AndnCombine(P, S) == P["Andn"] ** S["One"] ++ S["NotAnd"]

OrMle(r) == BitwiseMle(OrOf, r)

OrCombine(P, S) == P["Or"] ** S["One"] ++ S["Or"]

XorMle(r) == BitwiseMle(XorOf, r)

XorCombine(P, S) == P["Xor"] ** S["One"] ++ S["Xor"]

XorRotMle(r, rotation) ==
    SumOf(0, XLEN - 1, LAMBDA i :
        TwoTo[XLEN - 1 - ((i + rotation) % XLEN)] ** XorOf(X(r, i), Y(r, i)))

XorRotWMle(r, rotation) ==
    SumOf(WordLen, XLEN - 1, LAMBDA i :
        TwoTo[WordLen - 1 - ((i - WordLen + rotation) % WordLen)] ** XorOf(X(r, i), Y(r, i)))

XorRotCombine(P, S, rot) == P[rot] ** S["One"] ++ S[rot]

XorRotWCombine(P, S, rot) == P[rot] ** S["One"] ++ S[rot]

-----------------------------------------------------------------------------
\* Comparisons.

EqualMle(r) == ProductOf(0, XLEN - 1, LAMBDA i : EqOf(X(r, i), Y(r, i)))

EqualCombine(P, S) == P["Eq"] ** S["Eq"]

NotEqualMle(r) == 1 -- EqualMle(r)

NotEqualCombine(P, S) == S["One"] -- P["Eq"] ** S["Eq"]

\* The first pair that differs decides.
UnsignedLessThanMle(r) ==
    LET eq[i \in 0..XLEN] == IF i = 0 THEN 1 ELSE eq[i - 1] ** EqOf(X(r, i - 1), Y(r, i - 1))
        lt[i \in 0..XLEN] ==
            IF i = 0 THEN 0 ELSE lt[i - 1] ++ LtOf(X(r, i - 1), Y(r, i - 1)) ** eq[i - 1]
    IN lt[XLEN]

UnsignedLessThanCombine(P, S) == P["LessThan"] ** S["One"] ++ P["Eq"] ** S["LessThan"]

UnsignedGreaterThanEqualMle(r) == 1 -- UnsignedLessThanMle(r)

UnsignedGreaterThanEqualCombine(P, S) ==
    S["One"] -- P["LessThan"] ** S["One"] -- P["Eq"] ** S["LessThan"]

UnsignedLessThanEqualMle(r) == UnsignedLessThanMle(r) ++ EqualMle(r)

UnsignedLessThanEqualCombine(P, S) ==
    P["LessThan"] ** S["One"] ++ P["Eq"] ** S["LessThan"] ++ P["Eq"] ** S["Eq"]

SignedLessThanMle(r) == (r[1] -- r[2]) ++ UnsignedLessThanMle(r)

SignedLessThanCombine(P, S) ==
    (P["LeftOperandMsb"] ** S["One"] -- P["RightOperandMsb"] ** S["One"])
        ++ P["LessThan"] ** S["One"] ++ P["Eq"] ** S["LessThan"]

SignedGreaterThanEqualMle(r) == 1 -- SignedLessThanMle(r)

SignedGreaterThanEqualCombine(P, S) ==
    (S["One"] ++ P["RightOperandMsb"] ** S["One"])
        -- P["LeftOperandMsb"] ** S["One"] -- P["LessThan"] ** S["One"] -- P["Eq"] ** S["LessThan"]

ValidUnsignedRemainderMle(r) ==
    UnsignedLessThanMle(r) ++ ProductOf(0, XLEN - 1, LAMBDA i : 1 -- Y(r, i))

ValidUnsignedRemainderCombine(P, S) ==
    P["RightOperandIsZero"] ** S["RightOperandIsZero"]
        ++ P["LessThan"] ** S["One"] ++ P["Eq"] ** S["LessThan"]

ValidDiv0Mle(r) ==
    (1 -- ProductOf(0, XLEN - 1, LAMBDA i : 1 -- X(r, i)))
        ++ ProductOf(0, XLEN - 1, LAMBDA i : LtOf(X(r, i), Y(r, i)))

ValidDiv0Combine(P, S) ==
    (S["One"] -- P["LeftOperandIsZero"] ** S["LeftOperandIsZero"])
        ++ P["DivByZero"] ** S["DivByZero"]

MovsignMle(r) == r[1] ** Ones

MovsignCombine(P, S) == (Ones ** P["LeftOperandMsb"]) ** S["One"]

MulUNoOverflowMle(r) == ProductOf(1, XLEN, LAMBDA i : 1 -- r[i])

MulUNoOverflowCombine(P, S) == P["OverflowBitsZero"] ** S["OverflowBitsZero"]

-----------------------------------------------------------------------------
\* Parts of the index.

\* Bits from..to of the index as a number.
Number(r, from, to) == SumOf(from, to, LAMBDA i : TwoTo[to - i] ** r[i])

RangeCheckMle(r) == Number(r, XLEN + 1, 2 * XLEN)

RangeCheckCombine(P, S) == P["LowerWord"] ** S["One"] ++ S["LowerWord"]

RangeCheckAlignedMle(r) == 2 ** Number(r, XLEN + 1, 2 * XLEN - 1)

RangeCheckAlignedCombine(P, S) ==
    (P["LowerWord"] ** S["One"] ++ S["LowerWord"]) -- P["Lsb"] ** S["Lsb"]

UpperWordMle(r) == Number(r, 1, XLEN)

UpperWordCombine(P, S) == P["UpperWord"] ** S["One"] ++ S["UpperWord"]

LowerHalfWordMle(r) == Number(r, XLEN + WordLen + 1, 2 * XLEN)

LowerHalfWordCombine(P, S) == P["LowerHalfWord"] ** S["One"] ++ S["LowerHalfWord"]

SignExtendHalfWordMle(r) ==
    Number(r, XLEN + WordLen + 1, 2 * XLEN)
        ++ (TwoTo[WordLen] -- 1) ** r[XLEN + WordLen + 1] ** TwoTo[WordLen]

SignExtendHalfWordCombine(P, S) ==
    P["LowerHalfWord"] ** S["One"] ++ S["LowerHalfWord"]
        ++ P["SignExtensionUpperHalf"] ** S["SignExtensionUpperHalf"]

HalfwordAlignmentMle(r) == 1 -- r[Len(r)]

HalfwordAlignmentCombine(P, S) == S["One"] -- P["Lsb"] ** S["Lsb"]

WordAlignmentMle(r) == (1 -- r[Len(r)]) ** (1 -- r[Len(r) - 1])

WordAlignmentCombine(P, S) == P["TwoLsb"] ** S["TwoLsb"]

Pow2Mle(r) == ProductOf(0, Log(XLEN) - 1, LAMBDA i : BitFactor(i, r[Len(r) - i]))

Pow2Combine(P, S) == P["Pow2"] ** S["Pow2"]

Pow2WMle(r) == ProductOf(0, Log(WordLen) - 1, LAMBDA i : BitFactor(i, r[Len(r) - i]))

Pow2WCombine(P, S) == P["Pow2W"] ** S["Pow2W"]

\* The bitmask of every shift s, weighted by whether the last bits are s.
ShiftRightBitmaskMle(r) ==
    LET eqVal(s) == ProductOf(0, Log(XLEN) - 1, LAMBDA i :
                        IF Bit(s, i) = 0 THEN 1 -- r[Len(r) - i] ELSE r[Len(r) - i])
    IN SumOf(0, XLEN - 1, LAMBDA s : ShiftBitmask(s) ** eqVal(s))

ShiftRightBitmaskCombine(P, S) == TwoTo[XLEN] ** S["One"] -- P["Pow2"] ** S["Pow2"]

\* The bytes of each word in reverse order.
VirtualRev8WMle(r) ==
    LET byte(k) == SumOf(0, ByteLen - 1, LAMBDA i : r[Len(r) - ByteLen * k - i] ** TwoTo[i])
    IN SumOf(0, 7, LAMBDA i : byte(IF i < 4 THEN 3 - i ELSE 11 - i) ** TwoTo[ByteLen * i])

VirtualRev8WCombine(P, S) == P["Rev8W"] ** S["One"] ++ S["Rev8W"]

-----------------------------------------------------------------------------
\* Shifts and rotations.

\* x shifted right by the zeros of the bitmask y, from variable `from` on.
RightShiftMle(r, from) ==
    LET v[i \in (from - 1)..(XLEN - 1)] ==
            IF i < from THEN 0 ELSE ShiftIn(v[i - 1], X(r, i), Y(r, i))
    IN v[XLEN - 1]

\* The bits that such a shift drops, moved to the top of the word.
WrapAroundMle(r, from) ==
    LET prodOnePlusY[i \in from..XLEN] ==
            IF i = from THEN 1 ELSE prodOnePlusY[i - 1] ** (1 ++ Y(r, i - 1))
    IN SumOf(from, XLEN - 1, LAMBDA i :
           AndnOf(X(r, i), Y(r, i)) ** prodOnePlusY[i] ** TwoTo[XLEN - 1 - i])

VirtualSRLMle(r) == RightShiftMle(r, 0)

VirtualSRLCombine(P, S) == P["RightShift"] ** S["RightShiftHelper"] ++ S["RightShift"]

VirtualSRAMle(r) ==
    RightShiftMle(r, 0)
        ++ r[1] ** SumOf(1, XLEN - 1, LAMBDA i : TwoTo[i] ** (1 -- Y(r, i)))

VirtualSRACombine(P, S) ==
    P["RightShift"] ** S["RightShiftHelper"] ++ S["RightShift"]
        ++ P["LeftOperandMsb"] ** S["SignExtension"] ++ P["SignExtension"] ** S["One"]

VirtualRotrMle(r) == RightShiftMle(r, 0) ++ WrapAroundMle(r, 0)

VirtualRotrCombine(P, S) ==
    P["RightShift"] ** S["RightShiftHelper"] ++ S["RightShift"]
        ++ P["LeftShiftHelper"] ** S["LeftShift"] ++ P["LeftShift"] ** S["One"]

VirtualRotrWMle(r) == RightShiftMle(r, WordLen) ++ WrapAroundMle(r, WordLen)

VirtualRotrWCombine(P, S) ==
    P["RightShiftW"] ** S["RightShiftWHelper"] ++ S["RightShiftW"]
        ++ P["LeftShiftWHelper"] ** S["LeftShiftW"] ++ P["LeftShiftW"] ** S["One"]

-----------------------------------------------------------------------------
\* The divisor of an overflowing division becomes 1.

\* The right operand from variable `from` on; whether it is -1 and the left one
\* the most negative number.
RightOperandMle(r, from) == SumOf(from, XLEN - 1, LAMBDA i : TwoTo[XLEN - 1 - i] ** Y(r, i))

OverflowMle(r, from) ==
    X(r, from) ** ProductOf(from + 1, XLEN - 1, LAMBDA i : 1 -- X(r, i))
        ** ProductOf(from, XLEN - 1, LAMBDA i : Y(r, i))

VirtualChangeDivisorMle(r) == RightOperandMle(r, 0) ++ OverflowMle(r, 0) ** Adjustment

VirtualChangeDivisorCombine(P, S) ==
    P["RightOperand"] ** S["One"] ++ S["RightOperand"] ++ P["ChangeDivisor"] ** S["ChangeDivisor"]

VirtualChangeDivisorWMle(r) ==
    RightOperandMle(r, WordLen) ++ Adjustment ** OverflowMle(r, WordLen)
        ++ UpperHalf ** r[XLEN + 2]

VirtualChangeDivisorWCombine(P, S) ==
    P["RightOperandW"] ** S["One"] ++ S["RightOperandW"]
        ++ P["ChangeDivisorW"] ** S["ChangeDivisorW"]
        ++ P["SignExtensionRightOperand"] ** S["SignExtensionRightOperand"]

-----------------------------------------------------------------------------
\* LookupTables::evaluate_mle.
TableMle(t, r) ==
    CASE t.name = "And" -> AndMle(r)
      [] t.name = "Andn" -> AndnMle(r)
      [] t.name = "Or" -> OrMle(r)
      [] t.name = "Xor" -> XorMle(r)
      [] t.name = "VirtualXORROT" -> XorRotMle(r, RotationOf[t.rot])
      [] t.name = "VirtualXORROTW" -> XorRotWMle(r, RotationOf[t.rot])
      [] t.name = "Equal" -> EqualMle(r)
      [] t.name = "NotEqual" -> NotEqualMle(r)
      [] t.name = "UnsignedLessThan" -> UnsignedLessThanMle(r)
      [] t.name = "UnsignedGreaterThanEqual" -> UnsignedGreaterThanEqualMle(r)
      [] t.name = "UnsignedLessThanEqual" -> UnsignedLessThanEqualMle(r)
      [] t.name = "SignedLessThan" -> SignedLessThanMle(r)
      [] t.name = "SignedGreaterThanEqual" -> SignedGreaterThanEqualMle(r)
      [] t.name = "ValidUnsignedRemainder" -> ValidUnsignedRemainderMle(r)
      [] t.name = "ValidDiv0" -> ValidDiv0Mle(r)
      [] t.name = "Movsign" -> MovsignMle(r)
      [] t.name = "MulUNoOverflow" -> MulUNoOverflowMle(r)
      [] t.name = "RangeCheck" -> RangeCheckMle(r)
      [] t.name = "RangeCheckAligned" -> RangeCheckAlignedMle(r)
      [] t.name = "UpperWord" -> UpperWordMle(r)
      [] t.name = "LowerHalfWord" -> LowerHalfWordMle(r)
      [] t.name = "SignExtendHalfWord" -> SignExtendHalfWordMle(r)
      [] t.name = "HalfwordAlignment" -> HalfwordAlignmentMle(r)
      [] t.name = "WordAlignment" -> WordAlignmentMle(r)
      [] t.name = "Pow2" -> Pow2Mle(r)
      [] t.name = "Pow2W" -> Pow2WMle(r)
      [] t.name = "ShiftRightBitmask" -> ShiftRightBitmaskMle(r)
      [] t.name = "VirtualRev8W" -> VirtualRev8WMle(r)
      [] t.name = "VirtualSRL" -> VirtualSRLMle(r)
      [] t.name = "VirtualSRA" -> VirtualSRAMle(r)
      [] t.name = "VirtualRotr" -> VirtualRotrMle(r)
      [] t.name = "VirtualRotrW" -> VirtualRotrWMle(r)
      [] t.name = "VirtualChangeDivisor" -> VirtualChangeDivisorMle(r)
      [] t.name = "VirtualChangeDivisorW" -> VirtualChangeDivisorWMle(r)

\* LookupTables::combine.
Combine(t, P, S) ==
    CASE t.name = "And" -> AndCombine(P, S)
      [] t.name = "Andn" -> AndnCombine(P, S)
      [] t.name = "Or" -> OrCombine(P, S)
      [] t.name = "Xor" -> XorCombine(P, S)
      [] t.name = "VirtualXORROT" -> XorRotCombine(P, S, t.rot)
      [] t.name = "VirtualXORROTW" -> XorRotWCombine(P, S, t.rot)
      [] t.name = "Equal" -> EqualCombine(P, S)
      [] t.name = "NotEqual" -> NotEqualCombine(P, S)
      [] t.name = "UnsignedLessThan" -> UnsignedLessThanCombine(P, S)
      [] t.name = "UnsignedGreaterThanEqual" -> UnsignedGreaterThanEqualCombine(P, S)
      [] t.name = "UnsignedLessThanEqual" -> UnsignedLessThanEqualCombine(P, S)
      [] t.name = "SignedLessThan" -> SignedLessThanCombine(P, S)
      [] t.name = "SignedGreaterThanEqual" -> SignedGreaterThanEqualCombine(P, S)
      [] t.name = "ValidUnsignedRemainder" -> ValidUnsignedRemainderCombine(P, S)
      [] t.name = "ValidDiv0" -> ValidDiv0Combine(P, S)
      [] t.name = "Movsign" -> MovsignCombine(P, S)
      [] t.name = "MulUNoOverflow" -> MulUNoOverflowCombine(P, S)
      [] t.name = "RangeCheck" -> RangeCheckCombine(P, S)
      [] t.name = "RangeCheckAligned" -> RangeCheckAlignedCombine(P, S)
      [] t.name = "UpperWord" -> UpperWordCombine(P, S)
      [] t.name = "LowerHalfWord" -> LowerHalfWordCombine(P, S)
      [] t.name = "SignExtendHalfWord" -> SignExtendHalfWordCombine(P, S)
      [] t.name = "HalfwordAlignment" -> HalfwordAlignmentCombine(P, S)
      [] t.name = "WordAlignment" -> WordAlignmentCombine(P, S)
      [] t.name = "Pow2" -> Pow2Combine(P, S)
      [] t.name = "Pow2W" -> Pow2WCombine(P, S)
      [] t.name = "ShiftRightBitmask" -> ShiftRightBitmaskCombine(P, S)
      [] t.name = "VirtualRev8W" -> VirtualRev8WCombine(P, S)
      [] t.name = "VirtualSRL" -> VirtualSRLCombine(P, S)
      [] t.name = "VirtualSRA" -> VirtualSRACombine(P, S)
      [] t.name = "VirtualRotr" -> VirtualRotrCombine(P, S)
      [] t.name = "VirtualRotrW" -> VirtualRotrWCombine(P, S)
      [] t.name = "VirtualChangeDivisor" -> VirtualChangeDivisorCombine(P, S)
      [] t.name = "VirtualChangeDivisorW" -> VirtualChangeDivisorWCombine(P, S)

=============================================================================
