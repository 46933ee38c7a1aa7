---------------------------- MODULE Conversions -----------------------------
(***************************************************************************)
(* The Variable of Codec on its way through the conversions to and from    *)
(* strings, and its numbers through those to and from IEEE 754.            *)
(***************************************************************************)
EXTENDS Codec, Json

(* HelperFunctions::getHexString: two digits for each byte. *)
getHexString(bytes) ==
    FlattenSeq([i \in DOMAIN bytes |-> <<HexDigit(bytes[i] \div 16), HexDigit(bytes[i] % 16)>>])

(* Variable::toString.  The six decimals of std::to_string are Decimals    *)
(* here; the word for a Variable that has no text is the first letter.     *)
Text(v) ==
    CASE v.type = tBoolean -> IF v.booleanValue THEN <<Char.t>> ELSE StringFalse
      [] v.type = tFloat -> FixedText(v.floatValue)
      [] v.type = tInteger -> IntegerText(v.integerValue)
      [] v.type = tInteger64 -> IntegerText(v.integerValue64)
      [] v.type \in {tString, tBase64} -> v.stringValue
      [] v.type = tBinary -> getHexString(v.binaryValue)
      [] v.type = tArray -> <<97>>
      [] v.type = tStruct -> <<115>>
      [] OTHER -> <<>>

-----------------------------------------------------------------------------
(* Properties                                                              *)

(* What a text becomes as a Variable again: an integer of the text has its *)
(* value, whatever its width; a truth value keeps it, a number is true if  *)
(* it is not zero, where floats make an exception: 0.000000 is neither     *)
(* empty nor the text of zero; the bytes of a binary are digits of a       *)
(* hexadecimal number; and only numbers are numbers.                       *)
TextConverted(v) ==
    LET text == Text(v)
        back == FromString(text)
        number == v.type \in {tInteger, tInteger64, tFloat}
    IN  /\ v.type = tInteger => back.integerValue = v.integerValue
        /\ v.type = tInteger64 => back.integerValue64 = v.integerValue64
        /\ v.type \in {tBoolean, tInteger, tInteger64} => back.booleanValue = v.booleanValue
        /\ v.type = tFloat => back.booleanValue
        /\ v.type = tBinary /\ Len(text) < 8 =>
              getNumber64(text, TRUE) = FoldLeft(LAMBDA n, byte : 256 * n + byte, 0, v.binaryValue)
        /\ v.type \notin {tString, tBase64, tBinary} => isNumber(text, FALSE) = number

(* The floats that a word stands for when each exponent field is taken for *)
(* that of a normal float, as the code does.                               *)
RECURSIVE Significand(_)
Significand(n) == IF n # 0 /\ n % 2 = 0 THEN Significand(n \div 2) ELSE n

Representable(x) ==
    /\ Significand(Abs(x.num)) < 2^(FractionBits + 1) /\ Significand(x.den) = 1
    /\ ~Less(Positive(x), Power(2, -Bias)) /\ Less(Positive(x), Power(2, Bias + 1))

Represented(x) ==
    Representable(x) => getFloatFromIeee754Binary(getIeee754Binary(x)) = x

WordKept(word) ==
    (word \div 2^FractionBits) % 2^ExponentBits # 2^ExponentBits - 1 =>
        getIeee754Binary(getFloatFromIeee754Binary(word)) = word

(* Numbers survive their conversions: to text and back, as TextConverted   *)
(* says, and between floats and IEEE 754 in both directions, with one      *)
(* exception: zero comes back as the float that its word, 0, would stand   *)
(* for if it were the word of a normal float.                              *)
NumbersConverted ==
    /\ TextConverted(value)
    /\ value.type = tFloat => Represented(value.floatValue)
    /\ value.type \in {tInteger, tInteger64} =>
          WordKept(value.integerValue64 % 2^(FractionBits + ExponentBits + 1))
=============================================================================
