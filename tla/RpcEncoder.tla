----------------------------- MODULE RpcEncoder -----------------------------
(***************************************************************************)
(* RpcEncoder: from Variables to the data of packets, which are sequences  *)
(* of bytes.  wide is the encoder's _forceInteger64.  The overloads for    *)
(* vectors of char and of uint8_t do the same.                             *)
(***************************************************************************)
EXTENDS VariableTrees, Packets

(* A float is a mantissa in units of 1 / FloatOne (2^30 in the code) and   *)
(* the exponent that brings it between 1/2 and 1.                          *)
FloatOne == Base^4 \div 4

(* Bounds on the floats of the model. *)
MinExponent == -12
MaxExponent == 15

Exponent(x) ==
    LET size == [x EXCEPT !.num = Abs(x.num)]
    IN  CHOOSE e \in MinExponent .. MaxExponent :
            Less(size, Power(2, e)) /\ ~Less(size, Power(2, e - 1))

EncodeFloat(x) ==
    IF x = Zero THEN EncodeInteger(0) \o EncodeInteger(0)
    ELSE LET exponent == Exponent(x)
             temp == Times(x, Power(2, -exponent))
         IN  EncodeInteger(Lround(Times(temp, Whole(FloatOne)))) \o EncodeInteger(exponent)

-----------------------------------------------------------------------------
(* RpcEncoder *)

OrVoid(v) == IF v = Null THEN Void ELSE v
NameOf(name) == IF name = <<>> THEN Undefined ELSE name
Sorted(members) == SetToSortSeq(DOMAIN members, StringLess)

(* Void and the types without parts: the type and the value; nothing at    *)
(* all for a type that is not known.                                       *)
EncodeScalar(v, wide) ==
    CASE v.type = tVoid -> EncodeInteger(tVoid)
      [] v.type = tInteger /\ wide -> EncodeInteger(tInteger64) \o EncodeInteger64(v.integerValue)
      [] v.type = tInteger /\ ~wide -> EncodeInteger(tInteger) \o EncodeInteger(v.integerValue)
      [] v.type = tInteger64 -> EncodeInteger(tInteger64) \o EncodeInteger64(v.integerValue64)
      [] v.type = tFloat -> EncodeInteger(tFloat) \o EncodeFloat(v.floatValue)
      [] v.type = tBoolean -> EncodeInteger(tBoolean) \o EncodeBoolean(v.booleanValue)
      [] v.type \in {tString, tBase64} -> EncodeInteger(v.type) \o EncodeString(v.stringValue)
      [] v.type = tBinary -> EncodeInteger(tBinary) \o EncodeString(v.binaryValue)
      [] OTHER -> <<>>

(* Parts behind each other, after their number. *)
Counted(parts) == EncodeInteger(Len(parts)) \o FlattenSeq(parts)

RECURSIVE EncodeVariable(_, _)

EncodeVariable(variable, wide) ==
    LET v == OrVoid(variable)
        elements == [i \in DOMAIN v.arrayValue |-> EncodeVariable(v.arrayValue[i], wide)]
        names == Sorted(v.structValue)
        members == [i \in DOMAIN names |-> EncodeString(NameOf(names[i])) \o
                                          EncodeVariable(v.structValue[names[i]], wide)]
    IN  CASE v.type = tStruct -> EncodeInteger(tStruct) \o Counted(members)
          [] v.type = tArray -> EncodeInteger(tArray) \o Counted(elements)
          [] OTHER -> EncodeScalar(v, wide)

EncodeRequest(methodName, parameters, header, wide) ==
    RequestPacket(EncodeString(methodName) \o
                  Counted([i \in DOMAIN parameters |-> EncodeVariable(parameters[i], wide)]),
                  header)

EncodeResponse(variable, wide) ==
    ResponsePacket(EncodeVariable(variable, wide), OrVoid(variable).errorStruct)
=============================================================================
