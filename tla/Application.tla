---------------------------- MODULE Application -----------------------------
(***************************************************************************)
(* The application that builds a Variable step by step, to send it by an   *)
(* encoder made with the option wide.  The properties here are about the   *)
(* Variable itself; those of Codec, JsonCodec and Conversions send it      *)
(* through encoders and decoders.                                          *)
(***************************************************************************)
EXTENDS Variable, Ansi

CONSTANTS
    Scalars,      \* the values the application starts from
    Companions,   \* those it puts in arrays and structures
    Names,        \* the names of members of structures
    MaxOthers,    \* bound on the companions in an array
    MaxSize       \* bound on the Variables a value consists of

(* What the constructors make: of a 32 bit integer, signed or not, of one  *)
(* of 64 bits, of a truth value, a string, a float or bytes.               *)
Integers32 == {n \in Int : -(Values[4] \div 2) <= n /\ n < Values[4]}

Constructed(v) ==
    \/ v = Void
    \/ v.integerValue64 \in Integers32 /\ v = FromInteger(v.integerValue64)
    \/ v.integerValue64 \in Int /\ v = FromInteger64(v.integerValue64)
    \/ v.booleanValue \in BOOLEAN /\ v = FromBoolean(v.booleanValue)
    \/ /\ v.stringValue \in Seq(Int)
       /\ v \in {FromString(v.stringValue),
                 [FromString(v.stringValue) EXCEPT !.type = tBase64]}
    \/ /\ v.floatValue.num \in Int /\ v.floatValue.den \in Nat \ {0}
       /\ v = FromFloat(v.floatValue)
    \/ v = FromBinary(v.binaryValue)

(* Companions have no parts and may be null pointers.  Fractions are in    *)
(* lowest terms: two of them are not the same number.                      *)
ASSUME ApplicationAssumption ==
    /\ \A v \in Scalars \cup (Companions \ {Null}) : Constructed(v)
    /\ \A v, w \in {u \in Scalars : u.type = tFloat} :
          LET x == v.floatValue
              y == w.floatValue
          IN  x.num * y.den = y.num * x.den => x = y
    /\ MaxOthers \in Nat /\ MaxSize \in Nat

VARIABLES
    value,   \* the Variable
    size,    \* the number of Variables it consists of
    wide     \* _forceInteger64

vars == <<value, size, wide>>

Init == value \in Scalars /\ size = 1 /\ wide \in BOOLEAN

Grow(v, n) == n <= MaxSize /\ value' = v /\ size' = n /\ UNCHANGED wide

(* The application puts its value in an array, alone or with others. *)
PutInArray ==
    /\ value \in Companions \/ Parts(value) # {}
    /\ \E others \in BoundedSeq(Companions, MaxOthers) :
          Grow(FromArray(Append(others, value)), size + 1 + Len(others))

(* The application makes a structure with its value as a member. *)
PutInStruct ==
    /\ value \in Companions \/ Parts(value) # {}
    /\ \E name \in Names : Grow(FromStruct(name :> value), size + 1)

(* The application adds a member to a structure. *)
AddMember ==
    /\ value.type = tStruct
    /\ \E name \in Names, v \in Companions :
          Grow([value EXCEPT !.structValue = Insert(@, name, v)],
               IF name \in DOMAIN value.structValue THEN size ELSE size + 1)

(* The application answers with an error. *)
MakeError ==
    /\ value.type = tInteger
    /\ Grow(createError(value.integerValue, StringF), 3)

Next == PutInArray \/ PutInStruct \/ AddMember \/ MakeError

Spec == Init /\ [][Next]_vars

-----------------------------------------------------------------------------
(* Properties                                                              *)

(* Values of one scalar type are totally ordered by the five comparisons   *)
(* and operator==, and the conversion to bool, which looks at the member   *)
(* of the type, agrees with booleanValue, which constructors set.          *)
ScalarTypes == {tBoolean, tInteger, tInteger64, tString, tFloat}

Comparisons(v, w) ==
    {o \in {"less", "equal", "greater"} :
        \/ o = "less" /\ LessThan(v, w)
        \/ o = "equal" /\ EqualScalars(v, w)
        \/ o = "greater" /\ LessThan(w, v)}

ScalarsOrdered ==
    value.type \in ScalarTypes =>
        /\ Truth(value) = value.booleanValue
        /\ \A v \in {w \in Scalars : w.type = value.type} :
              /\ Cardinality(Comparisons(value, v)) = 1
              /\ GreaterThan(value, v) = LessThan(v, value)
              /\ AtMost(value, v) = (LessThan(value, v) \/ EqualScalars(value, v))
              /\ AtLeast(value, v) = AtMost(v, value)

(* Through ANSI and back, by either overload, a string is what it was up   *)
(* to its first zero, with question marks for the characters ANSI does not *)
(* have, and with one exception: the double dagger comes back as the       *)
(* dagger.                                                                 *)
AnsiRoundTrip ==
    LET s == UpToZero(value.stringValue)
        ansi == toAnsi(value.stringValue)
    IN  (\A i \in DOMAIN s : s[i] >= 0) =>
            /\ toUtf8(ansi) =
                  [i \in DOMAIN s |-> CASE s[i] = DoubleDagger -> Dagger
                                        [] s[i] \in (0 .. 127 \cup AnsiCharacters) \ {DoubleDagger} -> s[i]
                                        [] OTHER -> 63]
            /\ toUtf8OfLength(ansi) = toUtf8(ansi)
=============================================================================
