----------------------------- MODULE RpcDecoder -----------------------------
(***************************************************************************)
(* RpcDecoder, and the floats of the BinaryDecoder under it: from packets  *)
(* to Variables.  Packets are those RpcEncoder makes, so that lengths are  *)
(* not negative.  char tells the overloads for vectors of char from those  *)
(* for uint8_t where they differ.                                          *)
(***************************************************************************)
EXTENDS RpcEncoder, BinaryDecoder

CONSTANTS
    Digits,         \* decimal digits a float is rounded to, 9 in the code
    MaxParameters,  \* parameters of a request that are decoded, 100 in the code
    SignedChar      \* whether char is signed, which is up to the platform

ASSUME DecoderAssumption ==
    /\ Digits \in Nat \ {0} /\ MaxParameters \in Nat /\ SignedChar \in BOOLEAN

(* Floats *)

(* floor(log10(x) + 1).  The logarithm of a negative number is not one,   *)
(* and lround makes it, cut to an int32_t, 0.                              *)
DigitsOf(x) == IF x.num < 0 THEN 0 ELSE Magnitude[x]

(* Mutation: the value is cut, not rounded. *)
CutFloat(x) ==
    IF x = Zero THEN x
    ELSE LET decimals == Digits - DigitsOf(x)
             y == Times(x, Power(10, decimals))
         IN  Times(Whole(y.num \div y.den), Power(10, -decimals))

(* "Round to 9 digits" *)
RoundFloat(x) ==
    IF x = Zero THEN x
    ELSE LET decimals == Digits - DigitsOf(x)
         IN  Times(Whole(FloorHalf(Times(x, Power(10, decimals)))), Power(10, -decimals))

(* 1 << k, an int: the last bit is its sign, and larger shifts, which are  *)
(* undefined, are beyond the exponents of the model.                       *)
ShiftOne(k) == Whole(IF 2^k = Base^4 \div 2 THEN -(2^k) ELSE 2^k)

(* By what the exponent multiplies the mantissa: std::pow(2, exponent) in  *)
(* the overload for char, a shift in the one for uint8_t.                  *)
Scale(exponent, char) ==
    IF char THEN Power(2, exponent)
    ELSE IF exponent >= 0 THEN ShiftOne(exponent)
    ELSE Fraction(ShiftOne(0).num, ShiftOne(-exponent).num)

DecodeFloat(packet, position, char) ==
    LET mantissa == Signed(Take(packet, position, 4))
        exponent == Signed(Take(packet, position + 4, 4))
        x == Times(Fraction(mantissa, FloatOne), Scale(exponent, char))
    IN  IF position + 8 > Len(packet) THEN Result(Zero, position)
        ELSE Result(RoundFloat(x), position + 8)

-----------------------------------------------------------------------------
(* RpcDecoder *)

(* n results, one read behind the other. *)
Repeat(Read(_), n, position) ==
    FoldLeft(LAMBDA done, i : LET next == Read(done.position)
                              IN  Result(Append(done.value, next.value), next.position),
             Result(<<>>, position), [i \in 1 .. n |-> i])

IsFault(members) == DOMAIN members = {FaultCode, FaultString}

(* What was read first and then, and the structure of such pairs. *)
Pair(name, v) == Result(<<name.value, v.value>>, v.position)

StructOf(pairs) ==
    Result(FoldLeft(LAMBDA members, p : Insert(members, p[1], p[2]), NoMembers, pairs.value),
           pairs.position)

RECURSIVE DecodeParameter(_, _, _)

DecodeArray(packet, position, char) ==
    LET length == DecodeInteger(packet, position)
        element(at) == DecodeParameter(packet, at, char)
    IN  Repeat(element, length.value, length.position)

DecodeStruct(packet, position, char) ==
    LET length == DecodeInteger(packet, position)
        member(at) == LET name == DecodeString(packet, at)
                      IN  Pair(name, DecodeParameter(packet, name.position, char))
    IN  StructOf(Repeat(member, length.value, length.position))

(* A variable of the given type with what was read, d, as its value.  The  *)
(* scalar members are set as the constructors set them.                    *)
Parameter(type, d) ==
    LET v == CASE type \in {tString, tBase64} -> [FromString(d.value) EXCEPT !.type = type]
               [] type = tInteger -> FromInteger(d.value)
               [] type = tInteger64 -> FromInteger64(d.value)
               [] type = tFloat -> FromFloat(d.value)
               [] type = tBoolean -> FromBoolean(d.value)
               [] type = tBinary -> FromBinary(d.value)
               [] type = tArray -> FromArray(d.value)
               [] type = tStruct -> [FromStruct(d.value) EXCEPT !.errorStruct = IsFault(d.value)]
               [] OTHER -> OfType(type)
    IN  Result(v, d.position)

DecodeParameter(packet, position, char) ==
    LET type == DecodeInteger(packet, position)
        at == type.position
    IN  Parameter(type.value,
            CASE type.value \in {tString, tBase64, tBinary} -> DecodeString(packet, at)
              [] type.value = tInteger -> DecodeInteger(packet, at)
              [] type.value = tInteger64 -> DecodeInteger64(packet, at)
              [] type.value = tFloat -> DecodeFloat(packet, at, char)
              [] type.value = tBoolean -> DecodeBoolean(packet, at)
              [] type.value = tArray -> DecodeArray(packet, at, char)
              [] type.value = tStruct -> DecodeStruct(packet, at, char)
              [] OTHER -> Result(<<>>, at))

HasHeaderFlag(packet) == packet[4] \in {64, 65}

(* The authorization of a packet's header, <<>> if it has none. *)
DecodeHeader(packet) ==
    LET headerSize == DecodeInteger(packet, 4)
        count == DecodeInteger(packet, headerSize.position)
        field(at) == LET name == DecodeString(packet, at)
                     IN  Pair(name, DecodeString(packet, name.position))
        fields == Repeat(field, count.value, count.position).value
    IN  IF ~(Len(packet) < 12 \/ HasHeaderFlag(packet)) \/ headerSize.value < 4 THEN <<>>
        ELSE FoldLeft(LAMBDA value, f : IF f[1] = Authorization THEN f[2] ELSE value, <<>>, fields)

DecodeRequest(packet, char) ==
    LET headerSize == IF HasHeaderFlag(packet) THEN DecodeInteger(packet, 4).value + 4 ELSE 0
        method == DecodeString(packet, 8 + headerSize)
        count == DecodeInteger(packet, method.position)
        parameter(at) == DecodeParameter(packet, at, char)
    IN  [methodName |-> method.value,
         parameters |-> IF count.value > MaxParameters THEN <<>>
                        ELSE Repeat(parameter, count.value, count.position).value]

(* The response is an error by its packet: it gets what an error must have.*)
MarkError(v) ==
    [v EXCEPT !.errorStruct = TRUE,
              !.structValue = Insert(Insert(@, FaultCode, FromInteger(-1)),
                                     FaultString, FromString(Undefined))]

MarkIf(error, v) == IF error THEN MarkError(v) ELSE v

(* Mutation: the type of the packet is not looked at. *)
DecodeResponseUnmarked(packet, char) == DecodeParameter(packet, 8, char).value

(* decodeResponse of a vector of char, in which a signed byte is never     *)
(* equal to 0xFF, or of uint8_t.                                           *)
DecodeResponse(packet, char) ==
    MarkIf(~(char /\ SignedChar) /\ packet[4] = ErrorType, DecodeParameter(packet, 8, char).value)

(* decodeResponse of a variable whose binaryValue is the packet: it        *)
(* becomes the response and keeps the packet, unless the response is       *)
(* binary, whose bytes are then taken for the packet's.                    *)
KeepBytes(response, bytes) ==
    MarkIf(Len(bytes) >= 4 /\ bytes[4] = ErrorType, [response EXCEPT !.binaryValue = bytes])

DecodeInPlace(packet) ==
    LET response == DecodeParameter(packet, 8, FALSE).value
    IN  KeepBytes(response, IF response.type = tBinary THEN response.binaryValue ELSE packet)
=============================================================================
