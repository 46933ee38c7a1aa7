-------------------------------- MODULE Json --------------------------------
(***************************************************************************)
(* JsonEncoder and JsonDecoder.  A JSON text is a sequence of characters,  *)
(* given by their numbers, as strings are (see Ansi).  The overloads for   *)
(* std::string and for vector<char> do the same, but for floats, which     *)
(* getString and getVector print differently.                              *)
(***************************************************************************)
EXTENDS VariableTrees, Ansi

CONSTANTS
    Decimals,      \* decimals of a float in getString, 15 in the code
    Significant    \* digits of a float in getVector, 6 in the code

ASSUME JsonAssumption == Decimals \in Nat /\ Significant \in Nat \ {0}

(* The characters JSON is made of. *)
Char == [quote |-> 34, backslash |-> 92, comma |-> 44, colon |-> 58, minus |-> 45,
         plus |-> 43, point |-> 46, zero |-> 48, e |-> 101, f |-> 102, n |-> 110,
         t |-> 116, u |-> 117, openArray |-> 91, closeArray |-> 93,
         openObject |-> 123, closeObject |-> 125]

-----------------------------------------------------------------------------
(* Strings *)

(* The UTF-16 code units of a character, and what two units stand for. *)
Units(c) ==
    IF c < 65536 THEN <<c>>
    ELSE <<55296 + (c - 65536) \div 1024, 56320 + ((c - 65536) % 1024)>>

HighSurrogates == 55296 .. 56319
LowSurrogates == 56320 .. 57343

Combined(high, low) == 65536 + (high - 55296) * 1024 + (low - 56320)

(* How many bytes of the form 10xxxxxx a byte announces. *)
Continuations(byte) ==
    CASE byte \in 192 .. 223 -> 1
      [] byte \in 224 .. 239 -> 2
      [] byte \in 240 .. 247 -> 3
      [] OTHER -> 0

(* Bytes that look like a character of UTF-8 but are none.  The fallback   *)
(* for invalid strings takes them for one, and its conversion throws.      *)
LooksValid(s) ==
    \E i \in DOMAIN s :
        LET n == Continuations(-s[i])
        IN  n > 0 /\ i + n <= Len(s) /\ \A j \in i + 1 .. i + n : -s[j] \in 128 .. 191

(* Stray bytes are taken for ANSI. *)
Utf16(s) ==
    LET characters == FlattenSeq([i \in DOMAIN s |-> IF s[i] >= 0 THEN <<s[i]>>
                                                     ELSE toUtf8(<<-s[i]>>)])
    IN  FlattenSeq([i \in DOMAIN characters |-> Units(characters[i])])

HexDigit(d) == IF d < 10 THEN Char.zero + d ELSE 55 + d
Hex(unit) == [i \in 1 .. 4 |-> HexDigit((unit \div 16^(4 - i)) % 16)]

(* The letters behind a backslash and what they stand for. *)
Letters == (98 :> 8) @@ (116 :> 9) @@ (110 :> 10) @@ (102 :> 12) @@ (114 :> 13)

EscapeLetter ==
    [c \in Range(Letters) \cup {Char.quote, Char.backslash} |->
        IF c \in Range(Letters) THEN CHOOSE l \in DOMAIN Letters : Letters[l] = c ELSE c]

Escape(unit) ==
    CASE unit \in DOMAIN EscapeLetter -> <<Char.backslash, EscapeLetter[unit]>>
      [] unit \notin DOMAIN EscapeLetter \cup 32 .. 127 -> <<Char.backslash, Char.u>> \o Hex(unit)
      [] OTHER -> <<unit>>

encodeString(s) ==
    LET units == Utf16(s) IN FlattenSeq([i \in DOMAIN units |-> Escape(units[i])])

Quoted(text) == <<Char.quote>> \o text \o <<Char.quote>>

-----------------------------------------------------------------------------
(* Numbers *)

(* The digits of n, at least k of them. *)
RECURSIVE DigitsFrom(_, _)
DigitsFrom(n, k) ==
    IF n < 10 /\ k <= 1 THEN <<Char.zero + n>>
    ELSE Append(DigitsFrom(n \div 10, k - 1), Char.zero + (n % 10))

Sign(n) == IF n < 0 THEN <<Char.minus>> ELSE <<>>

(* std::to_string *)
IntegerText(n) == Sign(n) \o DigitsFrom(Abs(n), 1)

(* n / 10^k with all its decimals. *)
PointText(n, k) ==
    DigitsFrom(n \div 10^k, 1) \o
        (IF k = 0 THEN <<>> ELSE <<Char.point>> \o DigitsFrom(n % 10^k, k))

(* The same without zeros at the end. *)
RECURSIVE ShortText(_, _)
ShortText(n, k) ==
    IF k > 0 /\ n % 10 = 0 THEN ShortText(n \div 10, k - 1) ELSE PointText(n, k)

Positive(x) == [num |-> Abs(x.num), den |-> x.den]

(* std::fixed with a precision of Decimals. *)
FixedText(x) ==
    Sign(x.num) \o PointText(RoundEven(Times(Positive(x), Power(10, Decimals))), Decimals)

(* std::ostream's own choice with Significant digits: n stands for them,   *)
(* the first of which is worth 10^e.                                       *)
General(n, e) ==
    IF e \in -4 .. Significant - 1 THEN ShortText(n, Significant - 1 - e)
    ELSE ShortText(n, Significant - 1) \o <<Char.e>> \o
            (IF e < 0 THEN <<Char.minus>> ELSE <<Char.plus>>) \o DigitsFrom(Abs(e), 2)

GeneralText(x) ==
    LET e == Magnitude[Positive(x)] - 1
        n == RoundEven(Times(Positive(x), Power(10, Significant - 1 - e)))
    IN  IF x = Zero THEN <<Char.zero>>
        ELSE Sign(x.num) \o (IF n = 10^Significant THEN General(n \div 10, e + 1)
                                                   ELSE General(n, e))

(* toString: of more than three decimals that end in three of a kind, the  *)
(* last one is dropped.                                                    *)
DecimalsOf(text) ==
    IF Contains(text, Char.point)
    THEN Len(text) - CHOOSE i \in DOMAIN text : text[i] = Char.point ELSE 0

Rounded(x, decimals) ==
    Times(Whole(FloorHalf(Times(x, Power(10, decimals)))), Power(10, -decimals))

Shortened(text, x) ==
    IF DecimalsOf(text) > 3 /\ Cardinality(ToSet(SubSeq(text, Len(text) - 2, Len(text)))) = 1
    THEN GeneralText(Rounded(x, DecimalsOf(text) - 1)) ELSE text

toString(x) == Shortened(GeneralText(x), x)

-----------------------------------------------------------------------------
(* JsonEncoder; fixed is TRUE in getString, FALSE in getVector.            *)

NullText == <<Char.n, Char.u, 108, 108>>

(* The texts with commas between them. *)
Separated(texts) ==
    FlattenSeq([i \in DOMAIN texts |-> IF i = 1 THEN texts[i] ELSE <<Char.comma>> \o texts[i]])

(* Mutation: as the name of the first member, the others are not escaped.  *)
EncodeNameRaw(names, i) == Quoted(names[i])

(* The name of the first member is not escaped. *)
EncodeName(names, i) == Quoted(IF i = 1 THEN names[i] ELSE encodeString(names[i]))

RECURSIVE EncodeValue(_, _)

EncodeMembers(v, names, fixed) ==
    Separated([i \in DOMAIN names |->
        EncodeName(names, i) \o <<Char.colon>> \o EncodeValue(v.structValue[names[i]], fixed)])

EncodeValue(v, fixed) ==
    CASE v.type = tArray ->
            <<Char.openArray>> \o
            Separated([i \in DOMAIN v.arrayValue |-> EncodeValue(v.arrayValue[i], fixed)]) \o
            <<Char.closeArray>>
      [] v.type = tStruct ->
            <<Char.openObject>> \o
            EncodeMembers(v, SetToSortSeq(DOMAIN v.structValue, StringLess), fixed) \o
            <<Char.closeObject>>
      [] v.type = tBoolean ->
            IF v.booleanValue THEN <<Char.t, 114, Char.u, Char.e>>
                              ELSE <<Char.f, 97, 108, 115, Char.e>>
      [] v.type = tInteger -> IntegerText(v.integerValue)
      [] v.type = tInteger64 -> IntegerText(v.integerValue64)
      [] v.type = tFloat -> IF fixed THEN FixedText(v.floatValue) ELSE toString(v.floatValue)
      [] v.type \in {tString, tBase64} -> Quoted(encodeString(v.stringValue))
      [] OTHER -> NullText

(* The strings of a value that encodeString is called with. *)
FirstName(members) == CHOOSE n \in DOMAIN members :
                         \A m \in DOMAIN members : m = n \/ StringLess(n, m)

Texts(v) ==
    CASE v # Null /\ v.type \in {tString, tBase64} -> {v.stringValue}
      [] v # Null /\ v.type = tStruct /\ v.structValue # NoMembers ->
            DOMAIN v.structValue \ {FirstName(v.structValue)}
      [] OTHER -> {}

EncoderThrows(v) == \E w \in AllParts(v) : \E s \in Texts(w) : LooksValid(s)

(* getString and getVector: a value without parts becomes an array of one. *)
(* Where the encoder throws there is no text.                              *)
EncodeJson(v, fixed) ==
    IF v = Null \/ EncoderThrows(v) THEN <<>>
    ELSE IF v.type \in {tArray, tStruct} THEN EncodeValue(v, fixed)
    ELSE <<Char.openArray>> \o EncodeValue(v, fixed) \o <<Char.closeArray>>

-----------------------------------------------------------------------------
(* JsonDecoder.  What an operator reads: a value and the position behind   *)
(* it, counted from 0; nothing, where decodeNumber returns false; or it    *)
(* throws.                                                                 *)

Read(value, position) == [outcome |-> "value", value |-> value, position |-> position]
Invalid == [outcome |-> "none", value |-> Void, position |-> 0]
Thrown == [outcome |-> "throws", value |-> Void, position |-> 0]

posValid(json, pos) == pos < Len(json)
At(json, pos) == json[pos + 1]
Is(json, pos, c) == posValid(json, pos) /\ At(json, pos) = c

RECURSIVE skipWhitespace(_, _)
skipWhitespace(json, pos) ==
    IF posValid(json, pos) /\ At(json, pos) \in {32, 10, 13, 9}
    THEN skipWhitespace(json, pos + 1) ELSE pos

(* The unit whose four digits, as Hex writes them, end at pos.             *)
DigitValue(c) == IF c < 58 THEN c - Char.zero ELSE c - 55
Unit(json, pos) ==
    FoldLeft(LAMBDA n, c : 16 * n + DigitValue(c), 0, SubSeq(json, pos - 2, pos + 1))

(* decodeString: s is what has been read.  A string in a text is read from *)
(* behind its quote up to the next one, one without quotes up to the end   *)
(* of the text.                                                            *)
RECURSIVE DecodeText(_, _, _, _)

TextEnds(pos, s, quoted) == IF quoted THEN Thrown ELSE Read(s, pos)

(* A high surrogate, whose second unit ends at pos. *)
DecodePair(json, pos, s, high, quoted) ==
    CASE ~posValid(json, pos) -> TextEnds(pos, s, quoted)
      [] posValid(json, pos) /\ Is(json, pos - 5, Char.backslash) /\ Is(json, pos - 4, Char.u)
             /\ Unit(json, pos) \in LowSurrogates ->
            DecodeText(json, pos + 1, Append(s, Combined(high, Unit(json, pos))), quoted)
      [] OTHER -> Thrown

(* A unit whose last digit is at pos.  A zero is dropped, as are low       *)
(* surrogates.                                                             *)
DecodeUnit(json, pos, s, quoted) ==
    IF ~posValid(json, pos) THEN TextEnds(pos, s, quoted)
    ELSE LET unit == Unit(json, pos)
         IN  CASE unit \in HighSurrogates -> DecodePair(json, pos + 6, s, unit, quoted)
               [] unit \in LowSurrogates \cup {0} -> DecodeText(json, pos + 1, s, quoted)
               [] OTHER -> DecodeText(json, pos + 1, Append(s, unit), quoted)

(* Behind a backslash. *)
DecodeEscape(json, pos, s, quoted) ==
    CASE ~posValid(json, pos) -> TextEnds(pos, s, quoted)
      [] Is(json, pos, Char.u) -> DecodeUnit(json, pos + 4, s, quoted)
      [] posValid(json, pos) /\ ~Is(json, pos, Char.u) ->
            LET c == At(json, pos)
            IN  DecodeText(json, pos + 1,
                           Append(s, IF c \in DOMAIN Letters THEN Letters[c] ELSE c), quoted)

DecodeText(json, pos, s, quoted) ==
    CASE ~posValid(json, pos) -> TextEnds(pos, s, quoted)
      [] quoted /\ Is(json, pos, Char.quote) -> Read(s, pos + 1)
      [] Is(json, pos, Char.backslash) -> DecodeEscape(json, pos + 1, s, quoted)
      [] OTHER -> DecodeText(json, pos + 1, Append(s, At(json, pos)), quoted)

DecodeQuoted(json, pos) == DecodeText(json, pos, <<>>, TRUE)

(* decodeNumber *)

IsDigit(c) == c \in Char.zero .. Char.zero + 9

(* The digits from pos on, behind those of n. *)
RECURSIVE DecodeDigits(_, _, _)
DecodeDigits(json, pos, n) ==
    IF posValid(json, pos) /\ IsDigit(At(json, pos))
    THEN DecodeDigits(json, pos + 1, 10 * n + At(json, pos) - Char.zero)
    ELSE Read(n, pos)

(* The integer that one more digit makes a float, as it might be too       *)
(* large: a tenth of the largest int64_t.                                  *)
TenthOfMax == (Base^7 * (Base \div 4) - 1) \div 5

JsonInteger(n) ==
    [OfType(IF n = Int32(n) THEN tInteger ELSE tInteger64) EXCEPT
        !.integerValue = Int32(n), !.integerValue64 = n, !.floatValue = Whole(n)]

JsonFloat(x) == [FromFloat(x) EXCEPT !.booleanValue = FALSE]

(* The exponent of an integer is read but not used. *)
Number(minus, digits, decimals, exponent, isDouble, pos) ==
    LET n == IF minus THEN -digits ELSE digits
    IN  Read(IF isDouble THEN JsonFloat(Times(Whole(n), Power(10, exponent - decimals)))
                         ELSE JsonInteger(n), pos)

(* From the e, if there is one. *)
DecodeExponent(json, pos, minus, digits, decimals, isDouble) ==
    LET signed == Is(json, pos + 1, Char.minus) \/ Is(json, pos + 1, Char.plus)
        e == DecodeDigits(json, IF signed THEN pos + 2 ELSE pos + 1, 0)
        exponent == IF Is(json, pos + 1, Char.minus) THEN -e.value ELSE e.value
    IN  CASE ~(Is(json, pos, Char.e) \/ Is(json, pos, 69)) ->
                Number(minus, digits, decimals, 0, isDouble, pos)
          [] (Is(json, pos, Char.e) \/ Is(json, pos, 69)) /\
                 ~posValid(json, IF signed THEN pos + 2 ELSE pos + 1) -> Invalid
          [] OTHER -> Number(minus, digits, decimals, exponent, isDouble, e.position)

(* From the point, if there is one. *)
DecodeFraction(json, whole, minus) ==
    IF Is(json, whole.position, Char.point)
    THEN LET all == DecodeDigits(json, whole.position + 1, whole.value)
         IN  DecodeExponent(json, all.position, minus, all.value,
                            all.position - whole.position - 1, TRUE)
    ELSE DecodeExponent(json, whole.position, minus, whole.value, 0,
                        whole.value \div 10 >= TenthOfMax)

decodeNumber(json, pos) ==
    LET signed == Is(json, pos, Char.minus) \/ Is(json, pos, Char.plus)
        first == IF signed THEN pos + 1 ELSE pos
    IN  CASE ~posValid(json, first) -> Invalid
          [] Is(json, first, Char.zero) ->
                DecodeFraction(json, Read(0, first + 1), Is(json, pos, Char.minus))
          [] posValid(json, first) /\ At(json, first) \in Char.zero + 1 .. Char.zero + 9 ->
                DecodeFraction(json, DecodeDigits(json, first, 0), Is(json, pos, Char.minus))
          [] OTHER -> Invalid

(* Arrays and objects *)

RECURSIVE DecodeValue(_, _), DecodeElements(_, _, _), DecodeMembers(_, _, _)

(* Mutation: what is behind an element ends the array. *)
ArrayEnds(json, pos, elements) ==
    LET next == skipWhitespace(json, pos + 1)
    IN  IF Is(json, pos, Char.comma) THEN DecodeElements(json, next, elements)
        ELSE Read(FromArray(elements), pos + 1)

(* Behind an element: the next one, the end, or neither. *)
ArrayGoesOn(json, pos, elements) ==
    LET next == skipWhitespace(json, pos + 1)
    IN  CASE Is(json, pos, Char.closeArray) -> Read(FromArray(elements), pos + 1)
          [] Is(json, pos, Char.comma) /\ posValid(json, next) ->
                DecodeElements(json, next, elements)
          [] OTHER -> Thrown

ElementRead(json, element, elements) ==
    IF element.outcome # "value" THEN Thrown
    ELSE ArrayGoesOn(json, skipWhitespace(json, element.position),
                     Append(elements, element.value))

DecodeElements(json, pos, elements) == ElementRead(json, DecodeValue(json, pos), elements)

decodeArray(json, pos) ==
    LET first == skipWhitespace(json, pos + 1)
    IN  CASE ~posValid(json, first) -> Thrown
          [] Is(json, first, Char.closeArray) -> Read(FromArray(<<>>), first + 1)
          [] OTHER -> DecodeElements(json, first, <<>>)

ObjectGoesOn(json, pos, members) ==
    LET next == skipWhitespace(json, pos + 1)
    IN  CASE Is(json, pos, Char.closeObject) -> Read(FromStruct(members), pos + 1)
          [] Is(json, pos, Char.comma) /\ posValid(json, next) ->
                DecodeMembers(json, next, members)
          [] OTHER -> Thrown

MemberRead(json, name, v, members) ==
    IF v.outcome # "value" THEN Thrown
    ELSE ObjectGoesOn(json, skipWhitespace(json, v.position), Insert(members, name, v.value))

(* Behind a name, where the colon should be: a void without one. *)
NameRead(json, name, pos, members) ==
    IF Is(json, pos, Char.colon)
    THEN MemberRead(json, name, DecodeValue(json, skipWhitespace(json, pos + 1)), members)
    ELSE ObjectGoesOn(json, pos, Insert(members, name, Void))

DecodeMembers(json, pos, members) ==
    LET name == DecodeQuoted(json, pos + 1)
    IN  IF ~Is(json, pos, Char.quote) \/ name.outcome # "value" THEN Thrown
        ELSE NameRead(json, name.value, skipWhitespace(json, name.position), members)

decodeObject(json, pos) ==
    LET first == skipWhitespace(json, pos + 1)
    IN  CASE ~posValid(json, first) -> Thrown
          [] Is(json, first, Char.closeObject) -> Read(FromStruct(NoMembers), first + 1)
          [] OTHER -> DecodeMembers(json, first, NoMembers)

TextRead(text) ==
    IF text.outcome # "value" THEN text
    ELSE Read([OfType(tString) EXCEPT !.stringValue = text.value], text.position)

(* decodeValue: null, true and false are told by their first letter. *)
DecodeValue(json, pos) ==
    CASE ~posValid(json, pos) -> Invalid
      [] Is(json, pos, Char.n) -> Read(Void, pos + 4)
      [] Is(json, pos, Char.t) -> Read([OfType(tBoolean) EXCEPT !.booleanValue = TRUE], pos + 4)
      [] Is(json, pos, Char.f) -> Read(OfType(tBoolean), pos + 5)
      [] Is(json, pos, Char.quote) -> TextRead(DecodeQuoted(json, pos + 1))
      [] Is(json, pos, Char.openObject) -> decodeObject(json, pos)
      [] Is(json, pos, Char.openArray) -> decodeArray(json, pos)
      [] OTHER -> decodeNumber(json, pos)

(* decode with bytesRead, which throws what decodeValue does not accept. *)
DecodeJson(json) ==
    LET first == skipWhitespace(json, 0)
        v == DecodeValue(json, first)
    IN  CASE ~posValid(json, first) -> Read(Void, first)
          [] posValid(json, first) /\ v.outcome = "none" -> Thrown
          [] OTHER -> v

(* decode without bytesRead, which takes such a text for a string.  What   *)
(* is behind the value is ignored, and what decodeNumber has left in other *)
(* members of the string (the digits before a missing exponent) left out.  *)
DecodeLoosely(json) ==
    LET first == skipWhitespace(json, 0)
    IN  IF posValid(json, first) /\ DecodeValue(json, first).outcome = "none"
        THEN TextRead(DecodeText(json, 0, <<>>, FALSE)) ELSE DecodeJson(json)
=============================================================================
