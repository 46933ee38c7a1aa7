-------------------------------- MODULE Math --------------------------------
(***************************************************************************)
(* The conversions of Math: from strings to integers, and between floats   *)
(* and their IEEE 754 representation.  Strings are sequences of the        *)
(* numbers of their characters.                                            *)
(*                                                                         *)
(* The widths are parameters: int32_t has four of the bytes of Bytes and   *)
(* int64_t eight.                                                          *)
(***************************************************************************)
EXTENDS Rational, Bytes, SequencesExt, FiniteSets, TLC

CONSTANTS
    FractionBits,   \* bits of an IEEE 754 fraction, 23 or 52 in the code
    ExponentBits    \* bits of the exponent, 8 or 11 in the code

ASSUME MathAssumption ==
    FractionBits \in Nat \ {0} /\ ExponentBits \in Nat \ {0, 1}

(* The largest int64_t. *)
Int64Max == 2 * (Base^7 * (Base \div 4) - 1) + 1

-----------------------------------------------------------------------------
(* Strings to integers *)

(* The digits of hexadecimal numbers and their values. *)
HexValue == [c \in 48 .. 57 \cup 65 .. 70 \cup 97 .. 102 |->
                CASE c < 58 -> c - 48 [] c \in 65 .. 70 -> c - 55 [] c > 96 -> c - 87]

IsDigitOf(base, c) == c \in DOMAIN HexValue /\ HexValue[c] < base

(* The end of a string behind the spaces it begins with, and behind the 0x *)
(* of a hexadecimal number.                                                *)
WithoutSpaces(s) ==
    LET others == {i \in DOMAIN s : s[i] \notin {32} \cup 9 .. 13}
    IN  IF others = {} THEN <<>> ELSE SubSeq(s, Min(others), Len(s))

WithoutPrefix(s, base) ==
    IF base = 16 /\ Len(s) > 2 /\ s[1] = 48 /\ s[2] \in {88, 120} /\ IsDigitOf(16, s[3])
    THEN SubSeq(s, 3, Len(s)) ELSE s

(* std::stoll: a sign and as many digits as there are.  It throws if there *)
(* are none, or more than an int64_t holds; the least int64_t, for which   *)
(* TLC has no absolute value, is taken for one that it does not.           *)
TooLarge == -1

stoll(s, base) ==
    LET signed == WithoutSpaces(s)
        hasSign == signed # <<>> /\ signed[1] \in {43, 45}
        body == WithoutPrefix(IF hasSign THEN Tail(signed) ELSE signed, base)
        digits == LongestCommonPrefix({body, SelectSeq(body, LAMBDA c : IsDigitOf(base, c))})
        n == FoldLeft(LAMBDA m, c :
                          IF m = TooLarge \/ m > (Int64Max - HexValue[c]) \div base
                          THEN TooLarge ELSE base * m + HexValue[c], 0, digits)
    IN  [throws |-> digits = <<>> \/ n = TooLarge,
         value |-> IF hasSign /\ signed[1] = 45 THEN -n ELSE n]

(* An x anywhere makes a number hexadecimal. *)
BaseOf(s, hex) == IF hex \/ Contains(s, 120) THEN 16 ELSE 10

(* "Returns true if the string is a decimal or hexadecimal number": if it  *)
(* begins with one.                                                        *)
isNumber(s, hex) == ~stoll(s, BaseOf(s, hex)).throws

(* "Returns the integer or 0 on error." *)
OrZero(number) == IF number.throws THEN 0 ELSE number.value

getNumber64(s, isHex) == OrZero(stoll(s, BaseOf(s, isHex)))
getNumber(s, isHex) == Int32(getNumber64(s, isHex))
getOctalNumber(s) == Int32(OrZero(stoll(s, 8)))

-----------------------------------------------------------------------------
(* IEEE 754 *)

Bias == 2^(ExponentBits - 1) - 1

(* Mutation: the bit that leaves the integer is lost. *)
ShiftedOut(integer, fraction) == fraction \div 2

(* The bit that leaves the integer becomes the first of the fraction.      *)
ShiftedDown(integer, fraction) == (integer % 2) * 2^(FractionBits - 1) + fraction \div 2

(* One bit to the right or to the left until there is a 1 before the       *)
(* point, or no exponent is left.  rest is what the fraction, of           *)
(* FractionBits bits, has no room for.                                     *)
Normalized[integer, fraction \in Nat, rest \in NonNegative, exponent \in Nat] ==
    LET top == 2^(FractionBits - 1)
        twice == Times(rest, Whole(2))
        carry == twice.num \div twice.den
    IN  CASE integer = 1 \/ exponent \in {0, 2^ExponentBits - 1} ->
                exponent * 2^FractionBits + fraction
          [] integer > 1 /\ exponent \notin {0, 2^ExponentBits - 1} ->
                Normalized[integer \div 2, ShiftedDown(integer, fraction), rest, exponent + 1]
          [] OTHER ->
                Normalized[fraction \div top, (fraction % top) * 2 + carry,
                           Fraction(twice.num % twice.den, twice.den), exponent - 1]

(* getIeee754Binary32 and getIeee754Binary64, of floats whose whole part   *)
(* fits their integer.                                                     *)
getIeee754Binary(x) ==
    LET size == Abs(x.num)
        shifted == Times(Fraction(size % x.den, x.den), Whole(2^FractionBits))
        word == Normalized[size \div x.den, shifted.num \div shifted.den,
                           Fraction(shifted.num % shifted.den, shifted.den), Bias]
    IN  IF x.num < 0 THEN 2^(FractionBits + ExponentBits) + word ELSE word

(* getFloatFromIeee754Binary32 *)
getFloatFromIeee754Binary(word) ==
    LET one == 2^FractionBits
        sign == IF (word \div 2^(FractionBits + ExponentBits)) % 2 = 1 THEN -1 ELSE 1
        exponent == ((word \div one) % 2^ExponentBits) - Bias
    IN  Times(Fraction(sign * (one + (word % one)), one), Power(2, exponent))
=============================================================================
