------------------------------ MODULE Variable ------------------------------
(***************************************************************************)
(* Variable, the value every RPC parameter and result is, as a record of   *)
(* its members.  Whatever the type, all members are there; constructors    *)
(* keep the scalar ones in step.                                           *)
(*                                                                         *)
(* Strings are sequences of characters, given by their Unicode numbers; a  *)
(* byte b that is not part of a character is -b.  Maps are functions on    *)
(* strings.                                                                *)
(***************************************************************************)
EXTENDS Math

(* enum class VariableType *)
tVoid == 0
tInteger == 1
tBoolean == 2
tString == 3
tFloat == 4
tBase64 == 17
tBinary == 208
tInteger64 == 209
tArray == 256
tStruct == 257
tVariant == 4369

(* The strings the code compares with.  Names longer than these stand for  *)
(* are short here; what matters is that they differ.                       *)
StringZero == <<48>>
StringF == <<102>>
StringFalse == <<102, 97, 108, 115, 101>>
FaultCode == <<102, 99>>
FaultString == <<102, 115>>
Undefined == <<85>>

(* What a string is as a bool. *)
StringTruth(s) == s \notin {<<>>, StringZero, StringFalse, StringF}

-----------------------------------------------------------------------------
(* Constructors *)

NoMembers == [name \in {} |-> {}]

Void == [type |-> tVoid, errorStruct |-> FALSE, stringValue |-> <<>>,
         integerValue |-> 0, integerValue64 |-> 0, floatValue |-> Zero,
         booleanValue |-> FALSE, arrayValue |-> <<>>, structValue |-> NoMembers,
         binaryValue |-> <<>>]

(* A shared pointer to no Variable. *)
Null == [null |-> TRUE]

OfType(type) == [Void EXCEPT !.type = IF type = tVariant THEN tVoid ELSE type]

(* uint8_t, int32_t and uint32_t *)
FromInteger(n) ==
    [Void EXCEPT !.type = tInteger, !.integerValue = Int32(n), !.integerValue64 = n,
                 !.floatValue = Whole(n), !.booleanValue = n # 0]

FromInteger64(n) == [FromInteger(n) EXCEPT !.type = tInteger64]

FromString(s) ==
    [Void EXCEPT !.type = tString, !.stringValue = s, !.integerValue64 = getNumber64(s, FALSE),
                 !.integerValue = getNumber(s, FALSE), !.booleanValue = StringTruth(s)]

FromBoolean(b) ==
    LET n == IF b THEN 1 ELSE 0
    IN  [Void EXCEPT !.type = tBoolean, !.booleanValue = b, !.integerValue = n,
                     !.integerValue64 = n]

FromFloat(x) ==
    [Void EXCEPT !.type = tFloat, !.floatValue = x, !.integerValue = Int32(Lround(x)),
                 !.integerValue64 = Lround(x), !.booleanValue = x # Zero]

FromArray(elements) == [OfType(tArray) EXCEPT !.arrayValue = elements]
FromStruct(members) == [OfType(tStruct) EXCEPT !.structValue = members]
FromBinary(bytes) == [OfType(tBinary) EXCEPT !.binaryValue = bytes]

(* std::map::insert keeps what is there. *)
Insert(members, name, v) == members @@ (name :> v)

createError(faultCode, faultString) ==
    [FromStruct((FaultCode :> FromInteger(faultCode)) @@
                (FaultString :> FromString(faultString))) EXCEPT !.errorStruct = TRUE]

-----------------------------------------------------------------------------
(* Comparing *)

(* operator== of types without parts; a void equals nothing. *)
EqualScalars(a, b) ==
    /\ a.type = b.type
    /\ CASE a.type = tBoolean -> a.booleanValue = b.booleanValue
         [] a.type = tInteger -> a.integerValue = b.integerValue
         [] a.type = tInteger64 -> a.integerValue64 = b.integerValue64
         [] a.type \in {tString, tBase64} -> a.stringValue = b.stringValue
         [] a.type = tFloat -> a.floatValue = b.floatValue
         [] a.type = tBinary -> a.binaryValue = b.binaryValue
         [] OTHER -> FALSE

(* Mutation: strings are compared by their lengths, as arrays are. *)
StringLessByLength(s, t) == Len(s) < Len(t)

(* Lexicographic order of strings, that of their bytes in UTF-8.  A stray  *)
(* byte comes before every character here, where std::string may put it    *)
(* behind; for an order to be total its direction makes no difference.     *)
StringLess(s, t) ==
    \E i \in 0 .. Len(s) :
        /\ i < Len(t)
        /\ SubSeq(s, 1, i) = SubSeq(t, 1, i)
        /\ i = Len(s) \/ s[i + 1] < t[i + 1]

(* How the left operand's type compares the two: a pair of "is less" and   *)
(* "is greater".  Types without an order have no entry.                    *)
Ordered == {tBoolean, tInteger, tInteger64, tString, tBase64, tFloat, tArray, tStruct}

Order(a, b) ==
    CASE a.type = tBoolean -> <<~a.booleanValue /\ b.booleanValue,
                                a.booleanValue /\ ~b.booleanValue>>
      [] a.type = tInteger -> <<a.integerValue < b.integerValue,
                                a.integerValue > b.integerValue>>
      [] a.type = tInteger64 -> <<a.integerValue64 < b.integerValue64,
                                  a.integerValue64 > b.integerValue64>>
      [] a.type \in {tString, tBase64} -> <<StringLess(a.stringValue, b.stringValue),
                                            StringLess(b.stringValue, a.stringValue)>>
      [] a.type = tFloat -> <<Less(a.floatValue, b.floatValue),
                              Less(b.floatValue, a.floatValue)>>
      [] a.type = tArray -> <<Len(a.arrayValue) < Len(b.arrayValue),
                              Len(a.arrayValue) > Len(b.arrayValue)>>
      [] a.type = tStruct ->
            LET n == Cardinality(DOMAIN a.structValue)
                m == Cardinality(DOMAIN b.structValue)
            IN  <<n < m, n > m>>

LessThan(a, b) == a.type \in Ordered /\ Order(a, b)[1]
GreaterThan(a, b) == a.type \in Ordered /\ Order(a, b)[2]
AtMost(a, b) == a.type \in Ordered /\ ~Order(a, b)[2]
AtLeast(a, b) == a.type \in Ordered /\ ~Order(a, b)[1]

(* operator bool_type *)
Truth(v) ==
    CASE v.type = tBoolean -> v.booleanValue
      [] v.type = tArray -> v.arrayValue # <<>>
      [] v.type = tBase64 -> v.stringValue # <<>>
      [] v.type = tBinary -> v.binaryValue # <<>>
      [] v.type = tFloat -> v.floatValue # Zero
      [] v.type = tInteger -> v.integerValue # 0
      [] v.type = tInteger64 -> v.integerValue64 # 0
      [] v.type = tString -> StringTruth(v.stringValue)
      [] v.type = tStruct -> DOMAIN v.structValue # {}
      [] OTHER -> FALSE

(* The values directly in a value. *)
Parts(v) ==
    IF v = Null THEN {}
    ELSE ToSet(v.arrayValue) \cup {v.structValue[name] : name \in DOMAIN v.structValue}
=============================================================================
