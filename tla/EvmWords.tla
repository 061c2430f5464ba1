------------------------------ MODULE EvmWords ------------------------------
(***************************************************************************)
(* What one arithmetic opcode leaves on the stack.  An item of the stack is *)
(* a BigNumber: any integer, where the EVM has words of 256 bits, or one of *)
(* the values that are no numbers.  Some opcodes read an operand as a       *)
(* signed word (SignedUnsignedNumberConverter) and few reduce their result, *)
(* so that an item may be negative or longer than a word.                   *)
(*                                                                         *)
(* WordBytes is 32 in the code, Precision 53 (toNumber) and Units 10^20     *)
(* (BigNumber's DECIMAL_PLACES); Largest is 10^(10^9 + 1), of BigNumber's   *)
(* MAX_EXP, Exponential 10^10024, of EXPONENTIAL_AT, Widest 2^1024, of a     *)
(* JavaScript number, and MaxBits 2^30, of a BigInt.                        *)
(***************************************************************************)
EXTENDS Integers

CONSTANTS
    WordBytes,  \* bytes of a word
    Precision,  \* significant bits of a JavaScript number
    Units,      \* a quotient is kept in so many parts of one
    Largest,    \* a power that is no smaller is infinite
    Exponential,  \* a number that is no smaller is written with an exponent
    Widest,     \* and is no number of JavaScript
    MaxBits,    \* of what is shifted to the left
    NaN, Infinity, MinusInfinity,   \* BigNumbers that are no numbers
    Width       \* bound: no operand of AND, OR, XOR, NOT and the shifts has more bits

ASSUME WordBytesPositive == WordBytes \in Nat \ {0}
ASSUME PrecisionPositive == Precision \in Nat \ {0} /\ Units \in Nat \ {0}
ASSUME LimitsAreNumbers == {Largest, Exponential, Widest, MaxBits} \subseteq Nat
ASSUME SpecialsAreNoNumbers ==
    /\ NaN \notin Int /\ Infinity \notin Int /\ MinusInfinity \notin Int
    /\ NaN # Infinity /\ NaN # MinusInfinity /\ Infinity # MinusInfinity
ASSUME WidthHoldsWords == Width \in Nat /\ Width >= 8 * WordBytes

PowerOf2[n \in Nat] == IF n = 0 THEN 1 ELSE 2 * PowerOf2[n - 1]

Modulus == PowerOf2[8 * WordBytes]

Magnitude(v) == IF v < 0 THEN -v ELSE v
Signed(negative, v) == IF negative THEN -v ELSE v

Infinities == {Infinity, MinusInfinity}
Specials == {NaN} \cup Infinities

Infinite(negative) == IF negative THEN MinusInfinity ELSE Infinity
IsNegative(v) == v = MinusInfinity \/ (v \in Int /\ v < 0)
Odd(v) == v \in Int /\ v % 2 = 1

\* Of JavaScript: division and remainder of the magnitudes, with the sign of
\* the dividend.
TruncatedDiv(a, b) == Signed((a < 0) # (b < 0), Magnitude(a) \div Magnitude(b))
TruncatedMod(a, b) == Signed(a < 0, Magnitude(a) % Magnitude(b))

----------------------------------------------------------------------------
(* SignedUnsignedNumberConverter.                                          *)

\* parse of what starts with no hex digit, be it a minus sign: the buffer is
\* empty and has no first byte to read.
Parses(v) == v \in Nat

\* BigInt reads the text of a number, without an exponent.
HasDigits(v) == v \in Int /\ Magnitude(v) < Exponential

\* A number of 64 digits is negative, whatever its first digit is.
Parse(v) == IF v >= Modulus \div 16 /\ v < Modulus THEN v - Modulus ELSE v

Convert(v) == IF v < 0 THEN (v % Modulus) - (v \div Modulus + 1) * Modulus ELSE v

FromBoolean(b) == IF b THEN 1 ELSE 0

----------------------------------------------------------------------------
(* Opcodes that parse their operands.                                      *)

Add(a, b) == Parse(a) + Parse(b)
Mul(a, b) == Parse(a) * Parse(b)

Sub(a, b) == Parse(a) - Parse(b)
SMod(a, b) ==
    IF Parse(b) = 0 THEN NaN ELSE Convert(TruncatedMod(Parse(a), Parse(b)))
SLt(a, b) == FromBoolean(Parse(a) < Parse(b))
SGt(a, b) == FromBoolean(Parse(a) > Parse(b))

\* EvmNumberHandler: bits of two's complement, the last one is the sign.
Bit(v, i) == (v \div PowerOf2[i]) % 2

\* What the bits before the n-th make, and all before the sign.
BitSums(bits) ==
    LET sum[n \in 0..Width] ==
            IF n = 0 THEN 0
            ELSE sum[n - 1] + (IF n - 1 \in bits THEN PowerOf2[n - 1] ELSE 0)
    IN  sum
BitsTotal(bits) == BitSums(bits)[Width]

FromBits(bits) == BitsTotal(bits) - (IF Width \in bits THEN PowerOf2[Width] ELSE 0)
Bits(v) == {i \in 0..Width : Bit(v, i) = 1}

And(a, b) == Convert(FromBits(Bits(Parse(a)) \cap Bits(Parse(b))))
Or(a, b) == Convert(FromBits(Bits(Parse(a)) \cup Bits(Parse(b))))
Xor(a, b) ==
    Convert(FromBits((Bits(Parse(a)) \cup Bits(Parse(b)))
                        \ (Bits(Parse(a)) \cap Bits(Parse(b)))))

\* A shift by more bits than a word has leaves nothing but the sign.
ShiftRight(v, n) ==
    CASE n < 0 -> v * PowerOf2[-n]
      [] n >= Width -> IF v < 0 THEN -1 ELSE 0
      [] OTHER -> v \div PowerOf2[n]

Sar(a, b) == Convert(ShiftRight(Parse(b), Parse(a)))

----------------------------------------------------------------------------
(* Opcodes that take their operands as they are.                           *)

\* Half up of the magnitude.
Quotient(a, b) ==
    Signed((a < 0) # (b < 0),
           (2 * Magnitude(a) * Units + Magnitude(b)) \div (2 * Magnitude(b)))

\* DIV and SDIV.  The quotient is rounded to DECIMAL_PLACES, then down.
DivideFloor(a, b) == Quotient(a, b) \div Units

\* The sign of a zero is not kept: what it divides is infinite, with any sign.
Quotients(a, b) ==
    IF NaN \in {a, b} \/ {a, b} \subseteq Infinities \/ (a = 0 /\ b = 0) THEN {NaN}
    ELSE IF b = 0 THEN Infinities
    ELSE IF b \in Infinities THEN {0}
    ELSE IF a \in Infinities THEN {Infinite(IsNegative(a) # IsNegative(b))}
    ELSE {DivideFloor(a, b)}

Mod(a, b) ==
    IF a \in Specials \/ b = NaN \/ b = 0 THEN NaN
    ELSE IF b \in Infinities THEN a ELSE TruncatedMod(a, b)

AddMod(a, b, c) ==
    IF {a, b} \cap Specials # {} THEN NaN ELSE Mod(TruncatedMod(a + b, Modulus), c)
MulMod(a, b, c) == IF {a, b} \cap Specials # {} THEN NaN ELSE Mod(a * b, c)

\* A power of numbers, if it is in BigNumber's range.
Exp(a, b) == IF Magnitude(a^b) < Largest THEN a^b ELSE Infinite(a^b < 0)

\* The others are Math.pow's.  What is a fraction is not 0: see Fraction.
NegativePowers(a, b) ==
    IF a \in {1, -1} THEN {IF Odd(b) THEN a ELSE 1}
    ELSE IF a # 0 THEN {0}
    ELSE IF Odd(b) THEN Infinities ELSE {Infinity}

Fraction(a, b) == {a, b} \subseteq Int /\ b < 0 /\ Magnitude(a) > 1

Powers(a, b) ==
    IF b = 0 THEN {1}
    ELSE IF NaN \in {a, b} \/ (a \in {1, -1} /\ b \in Infinities) THEN {NaN}
    ELSE IF IsNegative(b) THEN NegativePowers(a, b)
    ELSE IF b = Infinity THEN {IF a = 0 THEN 0 ELSE Infinity}
    ELSE IF a \in Infinities THEN {Infinite(a = MinusInfinity /\ Odd(b))}
    ELSE {Exp(a, b)}

IsLess(a, b) ==
    \/ {a, b} \subseteq Int /\ a < b
    \/ NaN \notin {a, b} /\ a # b /\ (a = MinusInfinity \/ b = Infinity)

Lt(a, b) == FromBoolean(IsLess(a, b))
Gt(a, b) == FromBoolean(IsLess(b, a))
Eq(a, b) == FromBoolean(a = b /\ a # NaN)
IsZero(a) == FromBoolean(a = 0)

\* toNumber: the nearest number of Precision bits, the even one at a tie.
BitLength(v) ==
    CHOOSE n \in 0..Width : v < PowerOf2[n] /\ \A m \in 0..(n - 1) : v >= PowerOf2[m]

Rounded(v) ==
    LET e == BitLength(v) - Precision
        unit == PowerOf2[e]
        low == v % unit
        high == v \div unit
        up == 2 * low > unit \/ (2 * low = unit /\ high % 2 = 1)
    IN  IF e <= 0 THEN v ELSE (IF up THEN high + 1 ELSE high) * unit

ToNumber(v) == Signed(v < 0, Rounded(Magnitude(v)))

\* toNumber of what is too large is infinite, which BigInt does not take.
IsNumber(a) ==
    /\ a \in Int
    /\ Magnitude(a) < Widest /\ Rounded(Magnitude(a)) < Widest

Not(a) == Modulus - 1 - ToNumber(a)

\* A BigInt has MaxBits bits; n may be negative, a shift to the right.
Fits(v, n) == v = 0 \/ n <= 0 \/ BitLength(Magnitude(v)) + n <= MaxBits

ByteShift(a) == 8 * (WordBytes - 1) - 8 * a

\* BYTE: && where & is meant, so that any byte there, or before it, is 0xff.
Byte(a, b) ==
    IF b # 0 /\ (ByteShift(a) < 0 \/ ShiftRight(b, ByteShift(a)) # 0) THEN 255 ELSE 0

ShiftedLeft(v, n) ==
    IF n >= 8 * WordBytes THEN 0 ELSE TruncatedMod(v * PowerOf2[n], Modulus)
ShiftedRight(v, n) == TruncatedMod(ShiftRight(v, n), Modulus)

Shl(a, b) == IF a < 0 THEN ShiftedRight(b, -a) ELSE ShiftedLeft(b, a)

\* Seeded fault: SHR keeps the sign of what it shifts.
ShrSigned(a, b) == Convert(ShiftRight(Parse(b), a))

Shr(a, b) == IF a < 0 THEN ShiftedLeft(b, -a) ELSE ShiftedRight(b, a)

----------------------------------------------------------------------------
(* Bytes of a word.                                                        *)

\* Uint.getByteArray: every digit has the sign of the number, and a buffer
\* keeps it modulo 256.
Digit(v, i) ==
    LET d == (Magnitude(v) \div 256^i) % 256
    IN  IF v < 0 THEN (256 - d) % 256 ELSE d

\* MSTORE8: the last two characters of the number in hex, a minus sign too.
LastByte(v) ==
    IF v < 0 /\ v > -16 THEN 256 + v ELSE Magnitude(v) % 256
=============================================================================
