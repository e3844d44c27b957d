--------------------------- MODULE TablePrefixes ---------------------------
(***************************************************************************)
(* The bits of a lookup index, and the prefixes of the lookup tables.      *)
(***************************************************************************)
EXTENDS Instructions, Polynomials

(***************************************************************************)
(* The bits of a lookup index.  The code keeps an integer and a length;    *)
(* here they are a sequence, most significant bit first.  An index of two  *)
(* operands interleaves them: the bits of the left operand are the odd     *)
(* ones of the sequence, the last bit belongs to the right operand.        *)
(***************************************************************************)

BitsOf(value, len) == [i \in 1..len |-> (value \div 2^(len - i)) % 2]

Value(b) ==
    LET value[i \in 0..Len(b)] == IF i = 0 THEN 0 ELSE 2 * value[i - 1] + b[i]
    IN value[Len(b)]

\* The value of more bits than an integer has, in the field.
FieldValue(b) == SumOf(1, Len(b), LAMBDA i : TwoTo[Len(b) - i] ** b[i])

\* uninterleave: y is longer by one when the number of bits is odd.
LeftBits(b) == [i \in 1..(Len(b) \div 2) |-> b[2 * i - 1 + (Len(b) % 2)]]

RightBits(b) == [i \in 1..(Len(b) - Len(b) \div 2) |-> b[2 * i - (Len(b) % 2)]]

Interleave(x, y) == [i \in 1..(2 * Len(x)) |-> IF i % 2 = 1 THEN x[(i + 1) \div 2] ELSE y[i \div 2]]

\* split: the bits above the last n, and the last n.
HighBits(b, n) == SubSeq(b, 1, Len(b) - n)

LowBits(b, n) == SubSeq(b, Len(b) - n + 1, Len(b))

\* LookupBits::new with fewer bits keeps the low ones.
Truncate(b, n) == IF Len(b) > n THEN LowBits(b, n) ELSE b

LeadingOnes(b) == CHOOSE n \in 0..Len(b) :
    /\ \A i \in 1..n : b[i] = 1
    /\ n < Len(b) => b[n + 1] = 0

TrailingZeroBits(b) == CHOOSE n \in 0..Len(b) :
    /\ \A i \in (Len(b) - n + 1)..Len(b) : b[i] = 0
    /\ n < Len(b) => b[Len(b) - n] = 1

AllZero(b) == \A i \in DOMAIN b : b[i] = 0

AllOnes(b) == \A i \in DOMAIN b : b[i] = 1

\* The value of two operands of the same length combined bit by bit.
ValueOf(op(_, _), x, y) == Value([i \in DOMAIN x |-> op(x[i], y[i])])

-----------------------------------------------------------------------------
(***************************************************************************)
(* The prefix polynomials of the lookup tables: one pair of definitions    *)
(* per file of lookup_table/prefixes, its prefix_mle and its               *)
(* update_prefix_checkpoint.                                               *)
(*                                                                         *)
(* The index variables are bound two at a time, the variable x of the left *)
(* operand before the variable y of the right one.  A prefix is evaluated  *)
(* on a query q, in the round that binds variable q.j: x and y are the     *)
(* current pair, of which the variable being bound is q.c and the other    *)
(* one is the challenge before it (j odd) or the next bit (j even);        *)
(* q.rest are the bits of the prefix after the pair, q.left and q.right    *)
(* their operands, and q.suffixLen the number of variables of the suffix.  *)
(* cp holds the checkpoints: what the pairs already bound contribute.      *)
(***************************************************************************)

LOG_K == 2 * XLEN

\* Option::None of a checkpoint or of r_x.
None == -1

OrZero(v) == IF v = None THEN 0 ELSE v

OrOne(v) == IF v = None THEN 1 ELSE v

\* Panics on None.
Unwrap(v) == CASE v # None -> v

PrefixNames ==
    {"LowerWord", "LowerHalfWord", "UpperWord", "And", "Andn", "Or", "Xor", "XorRot16", "XorRot24",
     "XorRot32", "XorRot63", "XorRotW16", "XorRotW12", "XorRotW8", "XorRotW7", "Eq", "LessThan",
     "LeftOperandIsZero", "RightOperandIsZero", "LeftOperandMsb", "RightOperandMsb", "DivByZero",
     "PositiveRemainderEqualsDivisor", "PositiveRemainderLessThanDivisor",
     "NegativeDivisorZeroRemainder", "NegativeDivisorEqualsRemainder",
     "NegativeDivisorGreaterThanRemainder", "Lsb", "Pow2", "Pow2W", "Rev8W", "RightShift",
     "SignExtension", "LeftShift", "LeftShiftHelper", "TwoLsb", "SignExtensionUpperHalf",
     "ChangeDivisor", "RightOperand", "ChangeDivisorW", "RightOperandW",
     "SignExtensionRightOperand", "RightShiftW", "LeftShiftWHelper", "LeftShiftW",
     "OverflowBitsZero"}

Query(rx, c, b, j) ==
    LET odd  == rx # None
        rest == IF odd THEN b ELSE Tail(b)
    IN [j |-> j, b |-> b, c |-> c, rx |-> rx, rest |-> rest,
        x |-> IF odd THEN rx ELSE c,
        y |-> IF odd THEN c ELSE Head(b),
        left |-> LeftBits(rest), right |-> RightBits(rest),
        suffixLen |-> LOG_K - j - Len(b) - 1]

\* The position of the pair of variable j in a word of XLEN bits.
Place(j) == XLEN - 1 - (j \div 2)

-----------------------------------------------------------------------------
\* What one bit of each operand contributes, as polynomials.

AndOf(x, y) == x ** y

AndnOf(x, y) == x ** (1 -- y)

OrOf(x, y) == x ++ y -- x ** y

XorOf(x, y) == (1 -- x) ** y ++ x ** (1 -- y)

EqOf(x, y) == x ** y ++ (1 -- x) ** (1 -- y)

LtOf(x, y) == (1 -- x) ** y

NorOf(x, y) == (1 -- x) ** (1 -- y)

\* Bitwise operations.

BitwisePrefix(op(_, _), checkpoint, q) ==
    OrZero(checkpoint) ++ TwoTo[Place(q.j)] ** op(q.x, q.y)
        ++ TwoTo[q.suffixLen \div 2] ** ValueOf(op, q.left, q.right)

BitwiseCheckpoint(op(_, _), checkpoint, rx, ry, j) ==
    OrZero(checkpoint) ++ TwoTo[Place(j)] ** op(rx, ry)

AndPrefix(cp, q) == BitwisePrefix(AndOf, cp["And"], q)

AndCheckpoint(cp, rx, ry, j) == BitwiseCheckpoint(AndOf, cp["And"], rx, ry, j)

AndnPrefix(cp, q) == BitwisePrefix(AndnOf, cp["Andn"], q)

AndnCheckpoint(cp, rx, ry, j) == BitwiseCheckpoint(AndnOf, cp["Andn"], rx, ry, j)

OrPrefix(cp, q) == BitwisePrefix(OrOf, cp["Or"], q)

OrCheckpoint(cp, rx, ry, j) == BitwiseCheckpoint(OrOf, cp["Or"], rx, ry, j)

XorPrefix(cp, q) == BitwisePrefix(XorOf, cp["Xor"], q)

XorCheckpoint(cp, rx, ry, j) == BitwiseCheckpoint(XorOf, cp["Xor"], rx, ry, j)

\* The rotations the code instantiates (16, 24, 32 and 63 of 64 bits; 16, 12, 8
\* and 7 of 32), at the same fractions of the word.
RotationOf ==
    [XorRot16 |-> XLEN \div 4, XorRot24 |-> (3 * XLEN) \div 8, XorRot32 |-> XLEN \div 2,
     XorRot63 |-> XLEN - 1, XorRotW16 |-> WordLen \div 2, XorRotW12 |-> (3 * WordLen) \div 8,
     XorRotW8 |-> WordLen \div 4, XorRotW7 |-> (WordLen \div 4) - 1]

RotateLeft(v, s, n) == RotateRight(v, n - (s % n), n)

\* `suffix_len / 2 - ROTATION`, wrapped once when it is negative.
RotatedShift(q, rotation, n) ==
    LET s == (q.suffixLen \div 2) - rotation IN IF s >= 0 THEN s ELSE n + s

XorRotPrefix(cp, q, p) ==
    LET rotation == RotationOf[p]
        rotated  == ((q.j \div 2) + rotation) % XLEN
    IN OrZero(cp[p]) ++ TwoTo[XLEN - 1 - rotated] ** XorOf(q.x, q.y)
           ++ RotateLeft(ValueOf(XorOf, q.left, q.right), RotatedShift(q, rotation, XLEN), XLEN)

XorRotCheckpoint(cp, rx, ry, j, p) ==
    LET rotated == ((j \div 2) + RotationOf[p]) % XLEN
    IN OrZero(cp[p]) ++ TwoTo[XLEN - 1 - rotated] ** XorOf(rx, ry)

XorRotWPrefix(cp, q, p) ==
    LET rotation == RotationOf[p]
        rotated  == (((q.j - XLEN) \div 2) + rotation) % WordLen
    IN IF q.j < XLEN THEN 0
       ELSE OrZero(cp[p]) ++ TwoTo[WordLen - 1 - rotated] ** XorOf(q.x, q.y)
                ++ RotateLeft(ValueOf(XorOf, q.left, q.right), RotatedShift(q, rotation, WordLen),
                              WordLen)

XorRotWCheckpoint(cp, rx, ry, j, p) ==
    LET rotated == (((j - XLEN) \div 2) + RotationOf[p]) % WordLen
    IN IF j < XLEN THEN 0
       ELSE OrZero(cp[p]) ++ TwoTo[WordLen - 1 - rotated] ** XorOf(rx, ry)

-----------------------------------------------------------------------------
\* Comparisons.

EqPrefix(cp, q) ==
    IF Value(q.left) # Value(q.right) THEN 0 ELSE OrOne(cp["Eq"]) ** EqOf(q.x, q.y)

EqCheckpoint(cp, rx, ry, j) == OrOne(cp["Eq"]) ** EqOf(rx, ry)

LessThanPrefix(cp, q) ==
    LET eq == OrOne(cp["Eq"])
    IN OrZero(cp["LessThan"]) ++ eq ** LtOf(q.x, q.y)
           ++ (IF Value(q.left) < Value(q.right) THEN eq ** EqOf(q.x, q.y) ELSE 0)

\* A mutant: the checkpoints are updated in place, and Eq comes first.
LessThanAfterEq(cp, rx, ry, j) ==
    OrZero(cp["LessThan"]) ++ EqCheckpoint(cp, rx, ry, j) ** LtOf(rx, ry)

LessThanCheckpoint(cp, rx, ry, j) ==
    OrZero(cp["LessThan"]) ++ OrOne(cp["Eq"]) ** LtOf(rx, ry)

LeftIsZeroPrefix(cp, q) ==
    IF ~AllZero(LeftBits(q.b)) THEN 0 ELSE OrOne(cp["LeftOperandIsZero"]) ** (1 -- q.x)

LeftIsZeroCheckpoint(cp, rx, ry, j) == OrOne(cp["LeftOperandIsZero"]) ** (1 -- rx)

RightIsZeroPrefix(cp, q) ==
    IF ~AllZero(RightBits(q.b)) THEN 0 ELSE OrOne(cp["RightOperandIsZero"]) ** (1 -- q.y)

RightIsZeroCheckpoint(cp, rx, ry, j) == OrOne(cp["RightOperandIsZero"]) ** (1 -- ry)

\* A divisor of zeros and a quotient of ones.
DivByZeroPrefix(cp, q) ==
    IF ~AllZero(LeftBits(q.b)) \/ ~AllOnes(RightBits(q.b)) THEN 0
    ELSE OrOne(cp["DivByZero"]) ** LtOf(q.x, q.y)

DivByZeroCheckpoint(cp, rx, ry, j) == OrOne(cp["DivByZero"]) ** LtOf(rx, ry)

LeftMsbPrefix(cp, q) == IF q.j < 2 THEN q.x ELSE Unwrap(cp["LeftOperandMsb"])

LeftMsbCheckpoint(cp, rx, ry, j) == IF j = 1 THEN rx ELSE cp["LeftOperandMsb"]

RightMsbPrefix(cp, q) == IF q.j < 2 THEN q.y ELSE Unwrap(cp["RightOperandMsb"])

RightMsbCheckpoint(cp, rx, ry, j) == IF j = 1 THEN ry ELSE cp["RightOperandMsb"]

\* Five prefixes of a signed comparison of a remainder with its divisor, which
\* start with the pair of the signs.  They are kept with the others although no
\* table uses them any more.

PositiveRemainderEqualsDivisorPrefix(cp, q) ==
    CASE Value(q.left) # Value(q.right) -> 0
      [] Value(q.left) = Value(q.right) /\ q.j < 2 -> NorOf(q.x, q.y)
      [] OTHER -> Unwrap(cp["PositiveRemainderEqualsDivisor"]) ** EqOf(q.x, q.y)

PositiveRemainderEqualsDivisorCheckpoint(cp, rx, ry, j) ==
    IF j = 1 THEN NorOf(rx, ry)
    ELSE Unwrap(cp["PositiveRemainderEqualsDivisor"]) ** EqOf(rx, ry)

PositiveRemainderLessThanDivisorPrefix(cp, q) ==
    LET less == Value(q.left) < Value(q.right)
        lt   == Unwrap(cp["PositiveRemainderLessThanDivisor"])
        eq   == Unwrap(cp["PositiveRemainderEqualsDivisor"])
        tail == IF less THEN eq ** EqOf(q.x, q.y) ELSE 0
    IN CASE q.j < 2 -> IF less THEN NorOf(q.x, q.y) ELSE 0
         [] q.j \in {2, 3} -> lt ** LtOf(q.x, q.y) ++ tail
         [] OTHER -> lt ++ eq ** LtOf(q.x, q.y) ++ tail

PositiveRemainderLessThanDivisorCheckpoint(cp, rx, ry, j) ==
    LET lt == Unwrap(cp["PositiveRemainderLessThanDivisor"])
    IN CASE j = 1 -> NorOf(rx, ry)
         [] j = 3 -> lt ** LtOf(rx, ry)
         [] OTHER -> lt ++ Unwrap(cp["PositiveRemainderEqualsDivisor"]) ** LtOf(rx, ry)

NegativeDivisorZeroRemainderPrefix(cp, q) ==
    CASE ~AllZero(q.left) -> 0
      [] AllZero(q.left) /\ q.j < 2 -> LtOf(q.x, q.y)
      [] OTHER -> Unwrap(cp["NegativeDivisorZeroRemainder"]) ** (1 -- q.x)

NegativeDivisorZeroRemainderCheckpoint(cp, rx, ry, j) ==
    IF j = 1 THEN LtOf(rx, ry) ELSE Unwrap(cp["NegativeDivisorZeroRemainder"]) ** (1 -- rx)

NegativeDivisorEqualsRemainderPrefix(cp, q) ==
    CASE Value(q.left) # Value(q.right) -> 0
      [] Value(q.left) = Value(q.right) /\ q.j < 2 -> AndOf(q.x, q.y)
      [] OTHER -> Unwrap(cp["NegativeDivisorEqualsRemainder"]) ** EqOf(q.x, q.y)

NegativeDivisorEqualsRemainderCheckpoint(cp, rx, ry, j) ==
    IF j = 1 THEN AndOf(rx, ry)
    ELSE Unwrap(cp["NegativeDivisorEqualsRemainder"]) ** EqOf(rx, ry)

NegativeDivisorGreaterThanRemainderPrefix(cp, q) ==
    LET greater == Value(q.left) > Value(q.right)
        gt      == Unwrap(cp["NegativeDivisorGreaterThanRemainder"])
        eq      == Unwrap(cp["NegativeDivisorEqualsRemainder"])
        tail    == IF greater THEN eq ** EqOf(q.x, q.y) ELSE 0
    IN CASE q.j < 2 -> IF greater THEN AndOf(q.x, q.y) ELSE 0
         [] q.j \in {2, 3} -> gt ** AndnOf(q.x, q.y) ++ tail
         [] OTHER -> gt ++ eq ** AndnOf(q.x, q.y) ++ tail

NegativeDivisorGreaterThanRemainderCheckpoint(cp, rx, ry, j) ==
    LET gt == Unwrap(cp["NegativeDivisorGreaterThanRemainder"])
    IN CASE j = 1 -> AndOf(rx, ry)
         [] j = 3 -> gt ** AndnOf(rx, ry)
         [] OTHER -> gt ++ Unwrap(cp["NegativeDivisorEqualsRemainder"]) ** AndnOf(rx, ry)

-----------------------------------------------------------------------------
\* Shifts by a bitmask y of ones followed by zeros.

\* x & !y, moved up by the ones of y.
ShiftedLeft(q) == Value([i \in DOMAIN q.left |-> AndnOf(q.left[i], q.right[i])])
                      ** TwoTo[LeadingOnes(q.right) + Place(q.j) - Len(q.right)]

LeftShiftHelperPrefix(cp, q) ==
    OrOne(cp["LeftShiftHelper"]) ** (1 ++ q.y) ** TwoTo[LeadingOnes(q.right)]

LeftShiftHelperCheckpoint(cp, rx, ry, j) == OrOne(cp["LeftShiftHelper"]) ** (1 ++ ry)

LeftShiftPrefix(cp, q) ==
    LET prodOnePlusY == OrOne(cp["LeftShiftHelper"])
    IN OrZero(cp["LeftShift"]) ++ AndnOf(q.x, q.y) ** prodOnePlusY ** TwoTo[Place(q.j)]
           ++ ShiftedLeft(q) ** prodOnePlusY ** (1 ++ q.y)

LeftShiftCheckpoint(cp, rx, ry, j) ==
    OrZero(cp["LeftShift"])
        ++ AndnOf(rx, ry) ** OrOne(cp["LeftShiftHelper"]) ** TwoTo[Place(j)]

LeftShiftWHelperPrefix(cp, q) ==
    IF q.j < XLEN THEN 1
    ELSE OrOne(cp["LeftShiftWHelper"]) ** (1 ++ q.y) ** TwoTo[LeadingOnes(q.right)]

LeftShiftWHelperCheckpoint(cp, rx, ry, j) ==
    IF j >= XLEN THEN OrOne(cp["LeftShiftWHelper"]) ** (1 ++ ry) ELSE 1

LeftShiftWPrefix(cp, q) ==
    LET prodOnePlusY == OrOne(cp["LeftShiftWHelper"])
    IN IF q.j < XLEN THEN 0
       ELSE OrZero(cp["LeftShiftW"]) ++ AndnOf(q.x, q.y) ** prodOnePlusY ** TwoTo[Place(q.j)]
                ++ ShiftedLeft(q) ** prodOnePlusY ** (1 ++ q.y)

LeftShiftWCheckpoint(cp, rx, ry, j) ==
    IF j >= XLEN
    THEN OrZero(cp["LeftShiftW"])
             ++ AndnOf(rx, ry) ** OrOne(cp["LeftShiftWHelper"]) ** TwoTo[Place(j)]
    ELSE 0

\* Horner's rule: a one of y shifts in the bit of x.
ShiftIn(v, x, y) == v ** (1 ++ y) ++ x ** y

ShiftedRight(v, q) ==
    ShiftIn(v, q.x, q.y) ** TwoTo[LeadingOnes(q.right)]
        ++ Value(q.left) \div 2^TrailingZeroBits(q.right)

RightShiftPrefix(cp, q) == ShiftedRight(OrZero(cp["RightShift"]), q)

RightShiftCheckpoint(cp, rx, ry, j) == ShiftIn(OrZero(cp["RightShift"]), rx, ry)

RightShiftWPrefix(cp, q) ==
    IF q.j < XLEN THEN 0 ELSE ShiftedRight(OrZero(cp["RightShiftW"]), q)

RightShiftWCheckpoint(cp, rx, ry, j) ==
    IF j >= XLEN THEN ShiftIn(OrZero(cp["RightShiftW"]), rx, ry) ELSE 0

\* The copies of the sign that a right shift moves in: one for every zero of y.
\* The sign is multiplied in at the end: the checkpoint is without it.
SignExtensionPrefix(cp, q) ==
    LET padding == SumOf(1, Len(q.right),
                         LAMBDA i : TwoTo[(q.j \div 2) + i] ** (1 -- q.right[i]))
    IN IF q.j < 2 THEN padding ** q.x
       ELSE (OrZero(cp["SignExtension"]) ++ TwoTo[q.j \div 2] ** (1 -- q.y) ++ padding)
                ** Unwrap(cp["LeftOperandMsb"])

SignExtensionCheckpoint(cp, rx, ry, j) ==
    LET updated == OrZero(cp["SignExtension"]) ++ TwoTo[j \div 2] ** (1 -- ry)
    IN CASE j = 1 -> None
         [] j = 2 * XLEN - 1 -> updated ** Unwrap(cp["LeftOperandMsb"])
         [] OTHER -> updated

-----------------------------------------------------------------------------
\* Parts of an index that is one number of 2 * XLEN bits.

\* The current pair, as the bits of 2^(top - j) of such a number.
PairAt(top, q) ==
    LET shift == IF q.rx = None THEN top - q.j - 1 ELSE top - q.j
    IN TwoTo[shift] ** q.x ++ TwoTo[shift - 1] ** q.y

LowerWordPrefix(cp, q) ==
    IF q.j < XLEN THEN 0
    ELSE OrZero(cp["LowerWord"]) ++ PairAt(2 * XLEN, q) ++ Value(q.rest) ** TwoTo[q.suffixLen]

LowerWordCheckpoint(cp, rx, ry, j) ==
    IF j < XLEN THEN None
    ELSE OrZero(cp["LowerWord"]) ++ TwoTo[2 * XLEN - j] ** rx ++ TwoTo[2 * XLEN - j - 1] ** ry

LowerHalfWordPrefix(cp, q) ==
    IF q.j < XLEN + WordLen THEN 0
    ELSE OrZero(cp["LowerHalfWord"]) ++ PairAt(2 * XLEN, q) ++ Value(q.rest) ** TwoTo[q.suffixLen]

LowerHalfWordCheckpoint(cp, rx, ry, j) ==
    IF j < XLEN + WordLen THEN None
    ELSE OrZero(cp["LowerHalfWord"]) ++ TwoTo[2 * XLEN - j] ** rx ++ TwoTo[2 * XLEN - j - 1] ** ry

UpperWordPrefix(cp, q) ==
    IF q.j >= XLEN THEN OrZero(cp["UpperWord"])
    ELSE OrZero(cp["UpperWord"]) ++ PairAt(XLEN, q)
             ++ (IF q.suffixLen > XLEN
                 THEN Value(q.rest) ** TwoTo[q.suffixLen - XLEN]
                 ELSE Value(HighBits(q.rest, XLEN - q.suffixLen)))

UpperWordCheckpoint(cp, rx, ry, j) ==
    IF j >= XLEN THEN cp["UpperWord"]
    ELSE OrZero(cp["UpperWord"]) ++ TwoTo[XLEN - j] ** rx ++ TwoTo[XLEN - j - 1] ** ry

OverflowBitsZeroPrefix(cp, q) ==
    LET restIsZero == IF q.suffixLen >= XLEN THEN AllZero(q.rest)
                      ELSE Value(q.rest) * 2^q.suffixLen < Modulus
    IN CASE q.j >= LOG_K - XLEN -> OrOne(cp["OverflowBitsZero"])
         [] q.j < LOG_K - XLEN /\ ~restIsZero -> 0
         [] OTHER -> OrOne(cp["OverflowBitsZero"]) ** NorOf(q.x, q.y)

OverflowBitsZeroCheckpoint(cp, rx, ry, j) ==
    IF j >= LOG_K - XLEN THEN cp["OverflowBitsZero"]
    ELSE OrOne(cp["OverflowBitsZero"]) ** NorOf(rx, ry)

LsbPrefix(cp, q) ==
    CASE q.j = 2 * XLEN - 1 -> q.c
      [] q.j # 2 * XLEN - 1 /\ q.suffixLen = 0 -> q.b[Len(q.b)]
      [] OTHER -> 1

LsbCheckpoint(cp, rx, ry, j) == IF j = 2 * XLEN - 1 THEN ry ELSE 1

TwoLsbPrefix(cp, q) ==
    CASE q.j >= 2 * XLEN - 2 -> NorOf(q.x, q.y)
      [] q.j < 2 * XLEN - 2 /\ q.suffixLen = 0 -> Bool(AllZero(LowBits(q.b, 2)))
      [] OTHER -> 1

TwoLsbCheckpoint(cp, rx, ry, j) == IF j = 2 * XLEN - 1 THEN NorOf(rx, ry) ELSE cp["TwoLsb"]

\* 2^(the last `bits` bits of the index), one factor for each bit.
Log(n) == CHOOSE k \in 0..5 : 2^k = n

BitFactor(k, v) == 1 ++ (TwoTo[2^k] -- 1) ** v

Pow2OfBits(bits, checkpoint, q) ==
    LET len == Len(q.b)
        two == TwoTo[Value(Truncate(q.b, bits))]
    IN CASE q.suffixLen # 0 -> 1
         [] q.suffixLen = 0 /\ len >= bits -> two
         [] q.suffixLen = 0 /\ len = bits - 1 -> two ** BitFactor(len, q.c)
         [] OTHER -> two ** BitFactor(len, q.c)
                         ** (IF q.rx # None THEN BitFactor(len + 1, q.rx) ELSE 1)
                         ** OrOne(checkpoint)

Pow2OfBitsCheckpoint(bits, width, checkpoint, rx, ry, j, suffixLen) ==
    LET left == 2 * XLEN - j
    IN CASE suffixLen # 0 -> 1
         [] suffixLen = 0 /\ left = bits -> 1 ++ (TwoTo[width \div 2] -- 1) ** ry
         [] suffixLen = 0 /\ left < bits ->
                Unwrap(checkpoint) ** BitFactor(left, rx) ** BitFactor(left - 1, ry)
         [] OTHER -> 1

Pow2Prefix(cp, q) == Pow2OfBits(Log(XLEN), cp["Pow2"], q)

Pow2Checkpoint(cp, rx, ry, j, suffixLen) ==
    Pow2OfBitsCheckpoint(Log(XLEN), XLEN, cp["Pow2"], rx, ry, j, suffixLen)

Pow2WPrefix(cp, q) == Pow2OfBits(Log(WordLen), cp["Pow2W"], q)

Pow2WCheckpoint(cp, rx, ry, j, suffixLen) ==
    Pow2OfBitsCheckpoint(Log(WordLen), WordLen, cp["Pow2W"], rx, ry, j, suffixLen)

\* rev8w of one bit of an operand of XLEN bits.
ReversedBit(k, v) == IF k < XLEN THEN Rev8w(2^k) ** v ELSE 0

Rev8WPrefix(cp, q) ==
    LET index == q.suffixLen + Len(q.b)
    IN IF q.suffixLen >= XLEN THEN 0
       ELSE OrZero(cp["Rev8W"]) ++ ReversedBit(index, q.c)
                ++ (IF q.rx # None THEN ReversedBit(index + 1, q.rx) ELSE 0)
                ++ Rev8w(Shl(Value(q.b), q.suffixLen))

Rev8WCheckpoint(cp, rx, ry, j) ==
    LET index == 2 * XLEN - 1 - j
    IN OrZero(cp["Rev8W"]) ++ ReversedBit(index, ry) ++ ReversedBit(index + 1, rx)

-----------------------------------------------------------------------------
\* Operands and their sign extensions.

RightOperandPrefix(cp, q) ==
    OrZero(cp["RightOperand"])
        ++ (IF q.j % 2 = 1 THEN TwoTo[Place(q.j)] ** q.c ELSE 0)
        ++ Value(RightBits(q.b)) ** TwoTo[q.suffixLen \div 2]

RightOperandCheckpoint(cp, rx, ry, j) == OrZero(cp["RightOperand"]) ++ TwoTo[Place(j)] ** ry

RightOperandWPrefix(cp, q) ==
    OrZero(cp["RightOperandW"])
        ++ (IF q.j % 2 = 1 /\ q.j > XLEN THEN TwoTo[Place(q.j)] ** q.c ELSE 0)
        ++ (IF q.suffixLen < XLEN THEN Value(RightBits(q.b)) ** TwoTo[q.suffixLen \div 2] ELSE 0)

RightOperandWCheckpoint(cp, rx, ry, j) ==
    IF j > XLEN THEN OrZero(cp["RightOperandW"]) ++ TwoTo[Place(j)] ** ry
    ELSE cp["RightOperandW"]

\* The ones of the upper half of a register.
UpperHalf == TwoTo[XLEN] -- TwoTo[WordLen]

\* The last case is unreachable because a phase starts where the word does.
SignExtensionRightOperandPrefix(cp, q) ==
    CASE q.suffixLen >= XLEN -> 1
      [] q.suffixLen < XLEN /\ q.j \in {XLEN, XLEN + 1} -> UpperHalf ** q.y
      [] q.suffixLen < XLEN /\ q.j >= XLEN + 2 -> OrZero(cp["SignExtensionRightOperand"])

SignExtensionRightOperandCheckpoint(cp, rx, ry, j) ==
    IF j = XLEN + 1 THEN UpperHalf ** ry ELSE cp["SignExtensionRightOperand"]

SignExtensionUpperHalfPrefix(cp, q) ==
    CASE q.suffixLen >= WordLen -> 1
      [] q.suffixLen < WordLen /\ q.j \in {XLEN + WordLen, XLEN + WordLen + 1} -> UpperHalf ** q.x
      [] q.suffixLen < WordLen /\ q.j > XLEN + WordLen + 1 -> OrZero(cp["SignExtensionUpperHalf"])

SignExtensionUpperHalfCheckpoint(cp, rx, ry, j) ==
    IF j = XLEN + WordLen + 1 THEN UpperHalf ** rx ELSE cp["SignExtensionUpperHalf"]

\* The most negative number divided by -1: what turns the divisor into 1.
Adjustment == 2 -- TwoTo[XLEN]

\* The pair of the signs is <<1, 1>>, the others are <<0, 1>>.
OverflowingDivision(q, first) ==
    IF ~AllZero(q.left) \/ ~AllOnes(q.right) \/ q.y = 0 THEN 0
    ELSE q.y ** (IF first THEN q.x ELSE 1 -- q.x)

ChangeDivisorPrefix(cp, q) ==
    (IF cp["ChangeDivisor"] = None THEN Adjustment ELSE cp["ChangeDivisor"])
        ** OverflowingDivision(q, q.j < 2)

ChangeDivisorCheckpoint(cp, rx, ry, j) ==
    (IF cp["ChangeDivisor"] = None THEN Adjustment ELSE cp["ChangeDivisor"])
        ** (IF j = 1 THEN AndOf(rx, ry) ELSE LtOf(rx, ry))

ChangeDivisorWPrefix(cp, q) ==
    LET first == q.j \in {XLEN, XLEN + 1}
    IN IF q.j < XLEN THEN 0
       ELSE (IF first THEN Adjustment ELSE Unwrap(cp["ChangeDivisorW"]))
                ** OverflowingDivision(q, first)

ChangeDivisorWCheckpoint(cp, rx, ry, j) ==
    CASE j < XLEN -> 0
      [] j = XLEN + 1 -> Adjustment ** AndOf(rx, ry)
      [] OTHER -> Unwrap(cp["ChangeDivisorW"]) ** LtOf(rx, ry)

-----------------------------------------------------------------------------
\* Prefixes::prefix_mle.
PrefixMle(p, cp, q) ==
    CASE p = "LowerWord" -> LowerWordPrefix(cp, q)
      [] p = "LowerHalfWord" -> LowerHalfWordPrefix(cp, q)
      [] p = "UpperWord" -> UpperWordPrefix(cp, q)
      [] p = "And" -> AndPrefix(cp, q)
      [] p = "Andn" -> AndnPrefix(cp, q)
      [] p = "Or" -> OrPrefix(cp, q)
      [] p = "Xor" -> XorPrefix(cp, q)
      [] p \in {"XorRot16", "XorRot24", "XorRot32", "XorRot63"} -> XorRotPrefix(cp, q, p)
      [] p \in {"XorRotW16", "XorRotW12", "XorRotW8", "XorRotW7"} -> XorRotWPrefix(cp, q, p)
      [] p = "Eq" -> EqPrefix(cp, q)
      [] p = "LessThan" -> LessThanPrefix(cp, q)
      [] p = "LeftOperandIsZero" -> LeftIsZeroPrefix(cp, q)
      [] p = "RightOperandIsZero" -> RightIsZeroPrefix(cp, q)
      [] p = "LeftOperandMsb" -> LeftMsbPrefix(cp, q)
      [] p = "RightOperandMsb" -> RightMsbPrefix(cp, q)
      [] p = "DivByZero" -> DivByZeroPrefix(cp, q)
      [] p = "PositiveRemainderEqualsDivisor" -> PositiveRemainderEqualsDivisorPrefix(cp, q)
      [] p = "PositiveRemainderLessThanDivisor" -> PositiveRemainderLessThanDivisorPrefix(cp, q)
      [] p = "NegativeDivisorZeroRemainder" -> NegativeDivisorZeroRemainderPrefix(cp, q)
      [] p = "NegativeDivisorEqualsRemainder" -> NegativeDivisorEqualsRemainderPrefix(cp, q)
      [] p = "NegativeDivisorGreaterThanRemainder" ->
             NegativeDivisorGreaterThanRemainderPrefix(cp, q)
      [] p = "Lsb" -> LsbPrefix(cp, q)
      [] p = "Pow2" -> Pow2Prefix(cp, q)
      [] p = "Pow2W" -> Pow2WPrefix(cp, q)
      [] p = "Rev8W" -> Rev8WPrefix(cp, q)
      [] p = "RightShift" -> RightShiftPrefix(cp, q)
      [] p = "SignExtension" -> SignExtensionPrefix(cp, q)
      [] p = "LeftShift" -> LeftShiftPrefix(cp, q)
      [] p = "LeftShiftHelper" -> LeftShiftHelperPrefix(cp, q)
      [] p = "TwoLsb" -> TwoLsbPrefix(cp, q)
      [] p = "SignExtensionUpperHalf" -> SignExtensionUpperHalfPrefix(cp, q)
      [] p = "ChangeDivisor" -> ChangeDivisorPrefix(cp, q)
      [] p = "RightOperand" -> RightOperandPrefix(cp, q)
      [] p = "ChangeDivisorW" -> ChangeDivisorWPrefix(cp, q)
      [] p = "RightOperandW" -> RightOperandWPrefix(cp, q)
      [] p = "SignExtensionRightOperand" -> SignExtensionRightOperandPrefix(cp, q)
      [] p = "RightShiftW" -> RightShiftWPrefix(cp, q)
      [] p = "LeftShiftWHelper" -> LeftShiftWHelperPrefix(cp, q)
      [] p = "LeftShiftW" -> LeftShiftWPrefix(cp, q)
      [] p = "OverflowBitsZero" -> OverflowBitsZeroPrefix(cp, q)

\* Prefixes::update_checkpoints: every new checkpoint is computed from the old
\* ones.
UpdateCheckpoints(cp, rx, ry, j, suffixLen) ==
    [LowerWord                 |-> LowerWordCheckpoint(cp, rx, ry, j),
     LowerHalfWord             |-> LowerHalfWordCheckpoint(cp, rx, ry, j),
     UpperWord                 |-> UpperWordCheckpoint(cp, rx, ry, j),
     And                       |-> AndCheckpoint(cp, rx, ry, j),
     Andn                      |-> AndnCheckpoint(cp, rx, ry, j),
     Or                        |-> OrCheckpoint(cp, rx, ry, j),
     Xor                       |-> XorCheckpoint(cp, rx, ry, j),
     XorRot16                  |-> XorRotCheckpoint(cp, rx, ry, j, "XorRot16"),
     XorRot24                  |-> XorRotCheckpoint(cp, rx, ry, j, "XorRot24"),
     XorRot32                  |-> XorRotCheckpoint(cp, rx, ry, j, "XorRot32"),
     XorRot63                  |-> XorRotCheckpoint(cp, rx, ry, j, "XorRot63"),
     XorRotW16                 |-> XorRotWCheckpoint(cp, rx, ry, j, "XorRotW16"),
     XorRotW12                 |-> XorRotWCheckpoint(cp, rx, ry, j, "XorRotW12"),
     XorRotW8                  |-> XorRotWCheckpoint(cp, rx, ry, j, "XorRotW8"),
     XorRotW7                  |-> XorRotWCheckpoint(cp, rx, ry, j, "XorRotW7"),
     Eq                        |-> EqCheckpoint(cp, rx, ry, j),
     LessThan                  |-> LessThanCheckpoint(cp, rx, ry, j),
     LeftOperandIsZero         |-> LeftIsZeroCheckpoint(cp, rx, ry, j),
     RightOperandIsZero        |-> RightIsZeroCheckpoint(cp, rx, ry, j),
     LeftOperandMsb            |-> LeftMsbCheckpoint(cp, rx, ry, j),
     RightOperandMsb           |-> RightMsbCheckpoint(cp, rx, ry, j),
     DivByZero                 |-> DivByZeroCheckpoint(cp, rx, ry, j),
     PositiveRemainderEqualsDivisor |->
         PositiveRemainderEqualsDivisorCheckpoint(cp, rx, ry, j),
     PositiveRemainderLessThanDivisor |->
         PositiveRemainderLessThanDivisorCheckpoint(cp, rx, ry, j),
     NegativeDivisorZeroRemainder |-> NegativeDivisorZeroRemainderCheckpoint(cp, rx, ry, j),
     NegativeDivisorEqualsRemainder |-> NegativeDivisorEqualsRemainderCheckpoint(cp, rx, ry, j),
     NegativeDivisorGreaterThanRemainder |->
         NegativeDivisorGreaterThanRemainderCheckpoint(cp, rx, ry, j),
     Lsb                       |-> LsbCheckpoint(cp, rx, ry, j),
     Pow2                      |-> Pow2Checkpoint(cp, rx, ry, j, suffixLen),
     Pow2W                     |-> Pow2WCheckpoint(cp, rx, ry, j, suffixLen),
     Rev8W                     |-> Rev8WCheckpoint(cp, rx, ry, j),
     RightShift                |-> RightShiftCheckpoint(cp, rx, ry, j),
     SignExtension             |-> SignExtensionCheckpoint(cp, rx, ry, j),
     LeftShift                 |-> LeftShiftCheckpoint(cp, rx, ry, j),
     LeftShiftHelper           |-> LeftShiftHelperCheckpoint(cp, rx, ry, j),
     TwoLsb                    |-> TwoLsbCheckpoint(cp, rx, ry, j),
     SignExtensionUpperHalf    |-> SignExtensionUpperHalfCheckpoint(cp, rx, ry, j),
     ChangeDivisor             |-> ChangeDivisorCheckpoint(cp, rx, ry, j),
     RightOperand              |-> RightOperandCheckpoint(cp, rx, ry, j),
     ChangeDivisorW            |-> ChangeDivisorWCheckpoint(cp, rx, ry, j),
     RightOperandW             |-> RightOperandWCheckpoint(cp, rx, ry, j),
     SignExtensionRightOperand |-> SignExtensionRightOperandCheckpoint(cp, rx, ry, j),
     RightShiftW               |-> RightShiftWCheckpoint(cp, rx, ry, j),
     LeftShiftWHelper          |-> LeftShiftWHelperCheckpoint(cp, rx, ry, j),
     LeftShiftW                |-> LeftShiftWCheckpoint(cp, rx, ry, j),
     OverflowBitsZero          |-> OverflowBitsZeroCheckpoint(cp, rx, ry, j)]

\* Before the first pair there is no checkpoint.
NoCheckpoints == [p \in PrefixNames |-> None]

=============================================================================
