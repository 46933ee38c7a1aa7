----------------------------- MODULE JsonCodec ------------------------------
(***************************************************************************)
(* The Variable of Codec on its way through JsonEncoder and JsonDecoder.   *)
(***************************************************************************)
EXTENDS Codec, Json

(* What the properties are about: no null pointers, which the encoder      *)
(* dereferences; no bytes its fallback throws at; and no name in the first *)
(* place that would have to be escaped.                                    *)
Encodable(v) ==
    /\ Null \notin AllParts(v)
    /\ ~EncoderThrows(v)
    /\ \A w \in AllParts(v) : w.type = tStruct /\ w.structValue # NoMembers =>
          LET name == FirstName(w.structValue) IN encodeString(name) = name

-----------------------------------------------------------------------------
(* What arrives                                                            *)

(* Zeros are lost, stray bytes become the characters they are in ANSI.     *)
TextArrived(s) ==
    SelectSeq(FlattenSeq([i \in DOMAIN s |-> IF s[i] < 0 THEN toUtf8(<<-s[i]>>) ELSE <<s[i]>>]),
              LAMBDA c : c # 0)

(* x in as few decimal digits as it has: digits * 10^exponent. *)
RECURSIVE Shifted(_, _)
Shifted(x, exponent) ==
    CASE ~IsWhole(x) -> Shifted(Times(x, Whole(10)), exponent - 1)
      [] IsWhole(x) /\ x.num % 10 = 0 -> Shifted(Whole(x.num \div 10), exponent + 1)
      [] OTHER -> [digits |-> x.num, exponent |-> exponent]

(* Floats that neither format rounds. *)
Short(x) ==
    \/ x = Zero
    \/ LET d == Shifted(x, 0)
       IN  /\ d.exponent >= -Decimals /\ Abs(d.digits) < 10^Significant
           /\ d.exponent < -3 => Abs(d.digits) % 1000 \notin {111 * i : i \in 1 .. 9}

(* What getVector leaves of one: whole ones become integers, and those     *)
(* with one digit that are printed with an exponent lose that exponent.    *)
Scientific(x) == Magnitude[Positive(x)] - 1 \notin -4 .. Significant - 1

FloatArrived(x, fixed) ==
    CASE fixed \/ (x # Zero /\ Scientific(x) /\ Abs(Shifted(x, 0).digits) > 9) -> JsonFloat(x)
      [] ~fixed /\ x # Zero /\ Scientific(x) /\ Abs(Shifted(x, 0).digits) < 10 ->
            JsonInteger(Shifted(x, 0).digits)
      [] OTHER -> IF IsWhole(x) THEN JsonInteger(x.num) ELSE JsonFloat(x)

(* Integers whose last of as many digits as an int64_t may have does not   *)
(* leave room for any other become floats.                                 *)
IntegerArrived(n) ==
    IF Abs(n) \div 10 >= TenthOfMax THEN JsonFloat(Whole(n)) ELSE JsonInteger(n)

RECURSIVE JsonArrived(_, _)
JsonArrived(v, fixed) ==
    CASE v.type = tInteger -> IntegerArrived(v.integerValue)
      [] v.type = tInteger64 -> IntegerArrived(v.integerValue64)
      [] v.type = tFloat -> FloatArrived(v.floatValue, fixed)
      [] v.type = tBoolean -> [OfType(tBoolean) EXCEPT !.booleanValue = v.booleanValue]
      [] v.type \in {tString, tBase64} ->
            [OfType(tString) EXCEPT !.stringValue = TextArrived(v.stringValue)]
      [] v.type = tArray ->
            FromArray([i \in DOMAIN v.arrayValue |-> JsonArrived(v.arrayValue[i], fixed)])
      [] v.type = tStruct ->
            FromStruct([n \in DOMAIN v.structValue |-> JsonArrived(v.structValue[n], fixed)])
      [] OTHER -> Void

-----------------------------------------------------------------------------
(* Properties                                                              *)

(* What a text begins with, when the decoder takes it for a JSON value.    *)
BeginsAsValue(text) ==
    LET first == skipWhitespace(text, 0)
        number == IF Is(text, first, Char.minus) \/ Is(text, first, Char.plus)
                  THEN first + 1 ELSE first
    IN  \/ ~posValid(text, first)
        \/ At(text, first) \in {Char.n, Char.t, Char.f, Char.quote, Char.openArray, Char.openObject}
        \/ posValid(text, number) /\ IsDigit(At(text, number))

(* An encoded string without its quotes.                                   *)
UnquotedArrives(s) ==
    LET text == encodeString(s)
    IN  ~BeginsAsValue(text) =>
            DecodeLoosely(text) =
                Read([OfType(tString) EXCEPT !.stringValue = TextArrived(s)], Len(text))

(* A value arrives as it was, apart from what JsonArrived says, and all of *)
(* its text is read: in both formats, at every depth, alone as in an array *)
(* of one, and by the decode that takes what is no JSON for a string as by *)
(* the one that throws.  The former reads an encoded string that has no    *)
(* quotes as well, unless that begins as a JSON value does.                *)
JsonRoundTrip ==
    Encodable(value) /\ (\A w \in AllParts(value) : w.type = tFloat => Short(w.floatValue)) =>
        /\ \A fixed \in BOOLEAN :
              LET json == EncodeJson(value, fixed)
                  v == JsonArrived(value, fixed)
                  arrived == Read(IF value.type \in {tArray, tStruct} THEN v ELSE FromArray(<<v>>),
                                  Len(json))
              IN  DecodeJson(json) = arrived /\ DecodeLoosely(json) = arrived
        /\ value.type = tString => UnquotedArrives(value.stringValue)

(* A text that is cut short anywhere behind its first character is never   *)
(* taken for a whole one, nor read beyond its end: the decoder throws.     *)
JsonCutShort ==
    Encodable(value) =>
        LET json == EncodeJson(value, TRUE)
        IN  \A n \in 1 .. Len(json) - 1 : DecodeJson(SubSeq(json, 1, n)) = Thrown
=============================================================================
