------------------------- MODULE ApplicationProofs --------------------------
(***************************************************************************)
(* Proofs about Variable and Ansi: the five comparisons order the values   *)
(* of a scalar type totally, the conversion to bool agrees with            *)
(* booleanValue, and a string survives the way through ANSI and back as    *)
(* AnsiRoundTrip says, whatever values the application starts from.        *)
(***************************************************************************)
EXTENDS Application, BytesProofs

(* What the application has: a scalar of those it starts from, or an array *)
(* or a structure, whose own string is empty.                              *)
Composed(v) ==
    /\ {"type", "stringValue"} \subseteq DOMAIN v
    /\ v.type \in {tArray, tStruct}
    /\ v.stringValue = <<>>

Reached == value \in Scalars \/ Composed(value)

LEMMA TypesDiffer ==
    /\ tVoid = 0 /\ tInteger = 1 /\ tBoolean = 2 /\ tString = 3 /\ tFloat = 4
    /\ tBase64 = 17 /\ tBinary = 208 /\ tInteger64 = 209
    /\ tArray = 256 /\ tStruct = 257 /\ tVariant = 4369
BY DEF tVoid, tInteger, tBoolean, tString, tFloat, tBase64, tBinary, tInteger64, tArray,
       tStruct, tVariant

LEMMA ArrayComposed ==
    ASSUME NEW elements
    PROVE  Composed(FromArray(elements))
<1>1. ASSUME NEW v, v = FromArray(elements) PROVE Composed(v)
  BY <1>1, TypesDiffer DEF FromArray, OfType, Void, Composed
<1> QED
  BY <1>1

LEMMA StructComposed ==
    ASSUME NEW members
    PROVE  Composed(FromStruct(members))
<1>1. ASSUME NEW v, v = FromStruct(members) PROVE Composed(v)
  BY <1>1, TypesDiffer DEF FromStruct, OfType, Void, Composed
<1> QED
  BY <1>1

LEMMA ComposedUpdated ==
    ASSUME NEW v, Composed(v), NEW e
    PROVE  /\ Composed([v EXCEPT !.structValue = e])
           /\ Composed([v EXCEPT !.errorStruct = e])
<1>1. ASSUME NEW w, w = [v EXCEPT !.structValue = e] PROVE Composed(w)
  BY <1>1 DEF Composed
<1>2. ASSUME NEW w, w = [v EXCEPT !.errorStruct = e] PROVE Composed(w)
  BY <1>2 DEF Composed
<1> QED
  BY <1>1, <1>2

(* What each constructor sets of what the comparisons look at. *)
LEMMA VoidIs ==
    ASSUME NEW v, v = Void
    PROVE  v.type = tVoid /\ v.stringValue = <<>>
BY DEF Void

LEMMA IntegerIs ==
    ASSUME NEW v, NEW n, v = FromInteger(n)
    PROVE  /\ v.type = tInteger /\ v.stringValue = <<>>
           /\ v.integerValue = Int32(n) /\ v.booleanValue = (n # 0)
BY DEF FromInteger, Void

LEMMA Integer64Is ==
    ASSUME NEW v, NEW n, v = FromInteger64(n)
    PROVE  /\ v.type = tInteger64 /\ v.stringValue = <<>>
           /\ v.integerValue64 = n /\ v.booleanValue = (n # 0)
BY DEF FromInteger64, FromInteger, Void

LEMMA StringIs ==
    ASSUME NEW v, NEW s, v = FromString(s)
    PROVE  /\ v.type = tString /\ v.stringValue = s
           /\ v.booleanValue = StringTruth(s)
BY DEF FromString, Void

LEMMA Base64Is ==
    ASSUME NEW v, NEW s, v = [FromString(s) EXCEPT !.type = tBase64]
    PROVE  v.type = tBase64 /\ v.stringValue = s
BY DEF FromString, Void

LEMMA BooleanIs ==
    ASSUME NEW v, NEW b, v = FromBoolean(b)
    PROVE  v.type = tBoolean /\ v.stringValue = <<>> /\ v.booleanValue = b
BY DEF FromBoolean, Void

LEMMA FloatIs ==
    ASSUME NEW v, NEW x, v = FromFloat(x)
    PROVE  /\ v.type = tFloat /\ v.stringValue = <<>>
           /\ v.floatValue = x /\ v.booleanValue = (x # Zero)
BY DEF FromFloat, Void

LEMMA BinaryIs ==
    ASSUME NEW v, NEW bytes, v = FromBinary(bytes)
    PROVE  v.type = tBinary /\ v.stringValue = <<>>
BY TypesDiffer DEF FromBinary, OfType, Void

(* A value the application starts from. *)
LEMMA ScalarIs ==
    ASSUME NEW v \in Scalars
    PROVE  /\ v.type \notin {tArray, tStruct}
           /\ v.stringValue \in Seq(Int)
<1>1. Constructed(v)
  BY ApplicationAssumption
<1>2. <<>> \in Seq(Int)
  OBVIOUS
<1>3. CASE v = Void
  <2>1. v.type = tVoid /\ v.stringValue = <<>>
    BY <1>3, VoidIs
  <2> QED
    BY <1>2, <2>1, TypesDiffer
<1>4. CASE v = FromInteger(v.integerValue64)
  <2>1. v.type = tInteger /\ v.stringValue = <<>>
    BY <1>4, IntegerIs
  <2> QED
    BY <1>2, <2>1, TypesDiffer
<1>5. CASE v = FromInteger64(v.integerValue64)
  <2>1. v.type = tInteger64 /\ v.stringValue = <<>>
    BY <1>5, Integer64Is
  <2> QED
    BY <1>2, <2>1, TypesDiffer
<1>6. CASE v = FromBoolean(v.booleanValue)
  <2>1. v.type = tBoolean /\ v.stringValue = <<>>
    BY <1>6, BooleanIs
  <2> QED
    BY <1>2, <2>1, TypesDiffer
<1>7. CASE v = FromString(v.stringValue) /\ v.stringValue \in Seq(Int)
  BY <1>7, StringIs, TypesDiffer
<1>8. CASE v = [FromString(v.stringValue) EXCEPT !.type = tBase64]
           /\ v.stringValue \in Seq(Int)
  <2>1. v.type = tBase64 /\ v.stringValue = v.stringValue
    BY <1>8, Base64Is
  <2> QED
    BY <1>8, <2>1, TypesDiffer
<1>9. CASE v = FromFloat(v.floatValue)
  <2>1. v.type = tFloat /\ v.stringValue = <<>>
    BY <1>9, FloatIs
  <2> QED
    BY <1>2, <2>1, TypesDiffer
<1>10. CASE v = FromBinary(v.binaryValue)
  <2>1. v.type = tBinary /\ v.stringValue = <<>>
    BY <1>10, BinaryIs
  <2> QED
    BY <1>2, <2>1, TypesDiffer
<1> QED
  BY <1>1, <1>3, <1>4, <1>5, <1>6, <1>7, <1>8, <1>9, <1>10 DEF Constructed

(* Every operation of the application leaves it with a value it may have. *)
LEMMA ReachedAlways == Spec => []Reached
<1>1. Init => Reached
  BY DEF Init, Reached
<1>2. Reached /\ [Next]_vars => Reached'
  <2> SUFFICES ASSUME Reached, [Next]_vars PROVE Composed(value') \/ value' = value
    BY DEF Reached
  <2>1. ASSUME NEW v, NEW n, Composed(v), Grow(v, n) PROVE Composed(value')
    BY <2>1 DEF Grow
  <2>2. CASE PutInArray
    <3>1. PICK others : Grow(FromArray(Append(others, value)), size + 1 + Len(others))
      BY <2>2 DEF PutInArray
    <3> QED
      BY <2>1, <3>1, ArrayComposed
  <2>3. CASE PutInStruct
    <3>1. PICK name \in Names : Grow(FromStruct(name :> value), size + 1)
      BY <2>3 DEF PutInStruct
    <3> QED
      BY <2>1, <3>1, StructComposed
  <2>4. CASE AddMember
    <3>1. Composed(value)
      BY <2>4, ScalarIs DEF AddMember, Reached
    <3>2. PICK e, n : Grow([value EXCEPT !.structValue = e], n)
      BY <2>4 DEF AddMember
    <3> QED
      BY <2>1, <3>1, <3>2, ComposedUpdated
  <2>5. CASE MakeError
    <3>1. Composed(createError(value.integerValue, StringF))
      BY StructComposed, ComposedUpdated DEF createError
    <3> QED
      BY <2>1, <2>5, <3>1 DEF MakeError
  <2>6. CASE UNCHANGED vars
    BY <2>6 DEF vars
  <2> QED
    BY <2>2, <2>3, <2>4, <2>5, <2>6 DEF Next
<1> QED
  BY <1>1, <1>2, PTL DEF Spec

-----------------------------------------------------------------------------
(* Scalars                                                                 *)

(* An int32_t or a uint32_t is zero if its 32 bits are. *)
LEMMA ZeroBits ==
    ASSUME NEW n \in Integers32
    PROVE  Int32(n) \in Int /\ (Int32(n) = 0 <=> n = 0)
<1> DEFINE V == Values[4]
           half == V \div 2
           r == n % V
<1>1. V \in Nat \ {0} /\ V >= 2
  <2>1. /\ Values[0] = 1 /\ \A k \in Nat : Values[k + 1] = Base * Values[k]
        /\ \A k \in Nat : Values[k] \in Nat \ {0}
    BY ValuesFacts
  <2>2. Values[4] = Base * Values[3] /\ Values[3] \in Nat \ {0}
    <3>1. 3 \in Nat /\ 3 + 1 = 4
      OBVIOUS
    <3> QED
      BY <2>1, <3>1
  <2>3. Base >= 2 /\ Base \in Nat
    BY BytesAssumption
  <2>4. \A x, y \in Nat : x >= 2 /\ y >= 1 => x * y \in Nat /\ x * y >= 2
    OBVIOUS
  <2>5. Values[3] \in Nat /\ Values[3] >= 1
    BY <2>2
  <2> QED
    BY <2>2, <2>3, <2>4, <2>5
<1> HIDE DEF V
<1>2. half \in Nat /\ 2 * half <= V /\ V <= 2 * half + 1
  BY <1>1
<1>3. n \in Int /\ -half <= n /\ n < V
  BY DEF Integers32, V
<1>4. r = IF n < 0 THEN n + V ELSE n
  <2>1. CASE n < 0
    <3>1. n + V \in 0 .. V - 1
      BY <1>1, <1>2, <1>3, <2>1
    <3>2. (n % V) = n + V
      BY <1>1, <1>3, <3>1, ModUnique
    <3> QED
      BY <2>1, <3>2
  <2>2. CASE n >= 0
    BY <1>1, <1>3, <2>2
  <2> QED
    BY <1>3, <2>1, <2>2
<1>5. Int32(n) = IF r < half THEN r ELSE r - V
  BY DEF Int32, CutTo, V
<1> HIDE DEF r, half
<1> QED
  BY <1>1, <1>2, <1>3, <1>4, <1>5

(* What the members a comparison looks at have in them, and that           *)
(* booleanValue is in step with them.                                      *)
BooleanFacts(v) == v.booleanValue \in BOOLEAN
IntegerFacts(v) == v.integerValue \in Int /\ v.booleanValue = (v.integerValue # 0)
Integer64Facts(v) == v.integerValue64 \in Int /\ v.booleanValue = (v.integerValue64 # 0)
StringFacts(v) == v.stringValue \in Seq(Int) /\ v.booleanValue = StringTruth(v.stringValue)
FloatFacts(v) ==
    /\ v.floatValue.num \in Int /\ v.floatValue.den \in Nat \ {0}
    /\ v.booleanValue = (v.floatValue # Zero)

ScalarFacts(v) ==
    /\ v.type = tBoolean => BooleanFacts(v)
    /\ v.type = tInteger => IntegerFacts(v)
    /\ v.type = tInteger64 => Integer64Facts(v)
    /\ v.type = tString => StringFacts(v)
    /\ v.type = tFloat => FloatFacts(v)

LEMMA ScalarInStep ==
    ASSUME NEW v \in Scalars
    PROVE  ScalarFacts(v)
<1>1. Constructed(v)
  BY ApplicationAssumption
<1>2. ASSUME v.type \in {tVoid, tBase64, tBinary} PROVE ScalarFacts(v)
  BY <1>2, TypesDiffer DEF ScalarFacts
<1>3. CASE v = Void
  BY <1>2, <1>3, VoidIs
<1>4. CASE v = FromInteger(v.integerValue64) /\ v.integerValue64 \in Integers32
  <2>1. PICK n \in Integers32 : v = FromInteger(n)
    BY <1>4
  <2>2. v.type = tInteger /\ v.integerValue = Int32(n) /\ v.booleanValue = (n # 0)
    BY <2>1, IntegerIs
  <2>3. Int32(n) \in Int /\ (Int32(n) # 0) = (n # 0)
    BY ZeroBits
  <2>4. IntegerFacts(v)
    BY <2>2, <2>3 DEF IntegerFacts
  <2> QED
    BY <2>2, <2>4, TypesDiffer DEF ScalarFacts
<1>5. CASE v = FromInteger64(v.integerValue64) /\ v.integerValue64 \in Int
  <2>1. PICK n \in Int : v = FromInteger64(n)
    BY <1>5
  <2>2. v.type = tInteger64 /\ v.integerValue64 = n /\ v.booleanValue = (n # 0)
    BY <2>1, Integer64Is
  <2>3. Integer64Facts(v)
    BY <2>2 DEF Integer64Facts
  <2> QED
    BY <2>2, <2>3, TypesDiffer DEF ScalarFacts
<1>6. CASE v = FromBoolean(v.booleanValue) /\ v.booleanValue \in BOOLEAN
  <2>1. v.type = tBoolean
    BY <1>6, BooleanIs
  <2> QED
    BY <1>6, <2>1, TypesDiffer DEF ScalarFacts, BooleanFacts
<1>7. CASE v = FromString(v.stringValue) /\ v.stringValue \in Seq(Int)
  <2>1. v.type = tString /\ v.booleanValue = StringTruth(v.stringValue)
    BY <1>7, StringIs
  <2>2. StringFacts(v)
    BY <1>7, <2>1 DEF StringFacts
  <2> QED
    BY <2>1, <2>2, TypesDiffer DEF ScalarFacts
<1>8. CASE v = [FromString(v.stringValue) EXCEPT !.type = tBase64]
  BY <1>2, <1>8, Base64Is
<1>9. CASE /\ v = FromFloat(v.floatValue)
           /\ v.floatValue.num \in Int /\ v.floatValue.den \in Nat \ {0}
  <2>1. v.type = tFloat /\ v.booleanValue = (v.floatValue # Zero)
    BY <1>9, FloatIs
  <2>2. FloatFacts(v)
    BY <1>9, <2>1 DEF FloatFacts
  <2> QED
    BY <2>1, <2>2, TypesDiffer DEF ScalarFacts
<1>10. CASE v = FromBinary(v.binaryValue)
  BY <1>2, <1>10, BinaryIs
<1> QED
  BY <1>1, <1>3, <1>4, <1>5, <1>6, <1>7, <1>8, <1>9, <1>10 DEF Constructed

(* The conversion to bool looks at the member of the type, and finds what  *)
(* booleanValue says.                                                      *)
LEMMA TruthTold ==
    ASSUME NEW v, v.type \in ScalarTypes, ScalarFacts(v)
    PROVE  Truth(v) = v.booleanValue
<1>1. CASE v.type = tBoolean
  BY <1>1, TypesDiffer DEF Truth
<1>2. CASE v.type = tInteger
  BY <1>2, TypesDiffer DEF Truth, ScalarFacts, IntegerFacts
<1>3. CASE v.type = tInteger64
  BY <1>3, TypesDiffer DEF Truth, ScalarFacts, Integer64Facts
<1>4. CASE v.type = tString
  BY <1>4, TypesDiffer DEF Truth, ScalarFacts, StringFacts
<1>5. CASE v.type = tFloat
  BY <1>5, TypesDiffer DEF Truth, ScalarFacts, FloatFacts
<1> QED
  BY <1>1, <1>2, <1>3, <1>4, <1>5 DEF ScalarTypes

-----------------------------------------------------------------------------
(* The order of strings                                                    *)

(* The first position, counted from 0, at which one of two strings ends or *)
(* they differ.                                                            *)
Parting(s, t) ==
    {i \in Nat : /\ i <= Len(s) /\ i <= Len(t)
                 /\ i = Len(s) \/ i = Len(t) \/ s[i + 1] # t[i + 1]}

FirstParting(s, t, k) ==
    /\ k \in Parting(s, t)
    /\ \A i \in Parting(s, t) : k <= i
    /\ \A i \in 1 .. k : s[i] = t[i]

LEMMA StringsPart ==
    ASSUME NEW s \in Seq(Int), NEW t \in Seq(Int)
    PROVE  \E k \in Nat : FirstParting(s, t, k)
<1> DEFINE P == Parting(s, t)
<1>1. Len(s) \in Nat /\ Len(t) \in Nat
  OBVIOUS
<1>2. P \in SUBSET Nat
  BY DEF Parting
<1>3. P # {}
  <2>1. CASE Len(s) <= Len(t)
    <3>1. Len(s) \in P
      BY <1>1, <2>1 DEF Parting
    <3> QED
      BY <3>1
  <2>2. CASE Len(t) <= Len(s)
    <3>1. Len(t) \in P
      BY <1>1, <2>2 DEF Parting
    <3> QED
      BY <3>1
  <2> QED
    BY <1>1, <2>1, <2>2
<1>4. PICK k \in P : \A i \in P : k <= i
  <2> HIDE DEF P
  <2> QED
    BY <1>2, <1>3, LeastNatural
<1>5. k \in Nat /\ k <= Len(s) /\ k <= Len(t)
  BY DEF Parting
<1>6. ASSUME NEW i \in 1 .. k PROVE s[i] = t[i]
  <2>1. PICK j \in Nat : i = j + 1
    <3>1. i - 1 \in Nat /\ i = (i - 1) + 1
      BY <1>5
    <3> QED
      BY <3>1
  <2>2. j < k /\ j \notin P
    BY <1>4, <1>5, <2>1
  <2>3. s[j + 1] = t[j + 1]
    BY <1>1, <1>5, <2>2 DEF Parting
  <2> QED
    BY <2>1, <2>3
<1> QED
  BY <1>4, <1>5, <1>6 DEF FirstParting

LEMMA FirstPartingSame ==
    ASSUME NEW s \in Seq(Int), NEW t \in Seq(Int), NEW k \in Nat, FirstParting(s, t, k)
    PROVE  FirstParting(t, s, k)
BY DEF FirstParting, Parting

(* Who is less is decided where they part. *)
LEMMA StringLessIs ==
    ASSUME NEW s \in Seq(Int), NEW t \in Seq(Int), NEW k \in Nat, FirstParting(s, t, k)
    PROVE  StringLess(s, t) <=> k < Len(t) /\ (k = Len(s) \/ s[k + 1] < t[k + 1])
<1>1. /\ Len(s) \in Nat /\ Len(t) \in Nat /\ k <= Len(s) /\ k <= Len(t)
      /\ k = Len(s) \/ k = Len(t) \/ s[k + 1] # t[k + 1]
  BY DEF FirstParting, Parting
<1>2. ASSUME NEW i \in 0 .. Len(s), i < Len(t), SubSeq(s, 1, i) = SubSeq(t, 1, i),
             i = Len(s) \/ s[i + 1] < t[i + 1]
      PROVE  i = k
  <2>1. i \in Parting(s, t)
    <3>1. i \in Nat /\ i <= Len(s) /\ i <= Len(t)
      BY <1>1, <1>2
    <3>2. i < Len(s) => s[i + 1] \in Int /\ t[i + 1] \in Int
      BY <1>1, <1>2, <3>1
    <3> QED
      BY <1>2, <3>1, <3>2 DEF Parting
  <2>2. k <= i
    BY <2>1 DEF FirstParting
  <2>3. ASSUME k < i PROVE FALSE
    <3>1. k < Len(s) /\ k < Len(t) /\ k + 1 \in 1 .. i
      BY <1>1, <1>2, <2>3
    <3>2. SubSeq(s, 1, i)[k + 1] = s[k + 1]
      BY <1>1, <1>2, <3>1
    <3>3. SubSeq(t, 1, i)[k + 1] = t[k + 1]
      BY <1>1, <1>2, <3>1
    <3> QED
      BY <1>1, <1>2, <3>1, <3>2, <3>3
  <2> QED
    BY <2>2, <2>3
<1>3. SubSeq(s, 1, k) = SubSeq(t, 1, k)
  <2>1. SubSeq(s, 1, k) \in Seq(Int) /\ SubSeq(t, 1, k) \in Seq(Int)
        /\ Len(SubSeq(s, 1, k)) = k /\ Len(SubSeq(t, 1, k)) = k
    BY SMTT(30), <1>1
  <2>2. ASSUME NEW i \in 1 .. k PROVE SubSeq(s, 1, k)[i] = SubSeq(t, 1, k)[i]
    <3>1. SubSeq(s, 1, k)[i] = s[i] /\ SubSeq(t, 1, k)[i] = t[i]
      BY SMTT(30), <1>1
    <3> QED
      BY <3>1 DEF FirstParting
  <2> QED
    BY <2>1, <2>2, SeqEqual
<1> QED
  BY SMTT(30), <1>1, <1>2, <1>3 DEF StringLess

(* Of two things, the first is less, they are equal, or it is greater, and *)
(* only one of that.                                                       *)
OneOf(less, equal, greater) ==
    /\ less \/ equal \/ greater
    /\ ~(less /\ equal) /\ ~(less /\ greater) /\ ~(equal /\ greater)

(* The lexicographic order is a total one. *)
THEOREM StringsOrdered ==
    ASSUME NEW s \in Seq(Int), NEW t \in Seq(Int)
    PROVE  OneOf(StringLess(s, t), s = t, StringLess(t, s))
<1>1. PICK k \in Nat : FirstParting(s, t, k)
  BY StringsPart
<1>2. StringLess(s, t) <=> k < Len(t) /\ (k = Len(s) \/ s[k + 1] < t[k + 1])
  BY <1>1, StringLessIs
<1>3. StringLess(t, s) <=> k < Len(s) /\ (k = Len(t) \/ t[k + 1] < s[k + 1])
  BY <1>1, FirstPartingSame, StringLessIs
<1>4. /\ Len(s) \in Nat /\ Len(t) \in Nat /\ k <= Len(s) /\ k <= Len(t)
      /\ k = Len(s) \/ k = Len(t) \/ s[k + 1] # t[k + 1]
      /\ \A i \in 1 .. k : s[i] = t[i]
  BY <1>1 DEF FirstParting, Parting
<1>5. CASE k = Len(s) /\ k = Len(t)
  <2>1. s = t
    BY <1>4, <1>5, SeqEqual
  <2> QED
    BY <1>2, <1>3, <1>4, <1>5, <2>1 DEF OneOf
<1>6. CASE k = Len(s) /\ k < Len(t)
  BY <1>2, <1>3, <1>4, <1>6 DEF OneOf
<1>7. CASE k < Len(s) /\ k = Len(t)
  BY <1>2, <1>3, <1>4, <1>7 DEF OneOf
<1>8. CASE k < Len(s) /\ k < Len(t)
  <2>1. s[k + 1] \in Int /\ t[k + 1] \in Int /\ s[k + 1] # t[k + 1]
    BY <1>4, <1>8
  <2>2. s # t
    BY <2>1
  <2> QED
    BY <1>2, <1>3, <1>4, <1>8, <2>1, <2>2 DEF OneOf
<1> QED
  BY <1>4, <1>5, <1>6, <1>7, <1>8

-----------------------------------------------------------------------------
(* The order of scalars                                                    *)

(* Fractions in lowest terms are ordered by their cross products. *)
LEMMA FractionsOrdered ==
    ASSUME NEW x, NEW y, x.num \in Int, x.den \in Nat \ {0}, y.num \in Int,
           y.den \in Nat \ {0}, x.num * y.den = y.num * x.den => x = y
    PROVE  OneOf(Less(x, y), x = y, Less(y, x))
<1>1. PICK a \in Int : a = x.num * y.den
  OBVIOUS
<1>2. PICK b \in Int : b = y.num * x.den
  OBVIOUS
<1>3. (Less(x, y) <=> a < b) /\ (Less(y, x) <=> b < a) /\ (a = b => x = y)
  BY <1>1, <1>2 DEF Less
<1>4. x = y => a = b
  BY <1>1, <1>2
<1> QED
  BY <1>3, <1>4 DEF OneOf

(* The five comparisons in terms of one. *)
LEMMA ComparedBy ==
    ASSUME NEW v, NEW w, v.type \in ScalarTypes, w.type = v.type
    PROVE  /\ v.type = tBoolean =>
                 (LessThan(v, w) <=> ~v.booleanValue /\ w.booleanValue)
           /\ v.type = tInteger => (LessThan(v, w) <=> v.integerValue < w.integerValue)
           /\ v.type = tInteger64 => (LessThan(v, w) <=> v.integerValue64 < w.integerValue64)
           /\ v.type = tString => (LessThan(v, w) <=> StringLess(v.stringValue, w.stringValue))
           /\ v.type = tFloat => (LessThan(v, w) <=> Less(v.floatValue, w.floatValue))
           /\ AtMost(v, w) <=> ~GreaterThan(v, w)
           /\ AtLeast(v, w) <=> ~LessThan(v, w)
<1>1. v.type \in Ordered
  BY DEF Ordered, ScalarTypes
<1>2. CASE v.type = tBoolean
  <2> DEFINE less == (~v.booleanValue /\ w.booleanValue)
             greater == (v.booleanValue /\ ~w.booleanValue)
  <2>1. Order(v, w) = <<less, greater>>
    BY <1>2, TypesDiffer DEF Order
  <2> HIDE DEF less, greater
  <2>2. (Order(v, w)[1] <=> less) /\ (Order(v, w)[2] <=> greater)
    BY <2>1
  <2>3. /\ LessThan(v, w) <=> less
        /\ AtMost(v, w) <=> ~GreaterThan(v, w)
        /\ AtLeast(v, w) <=> ~LessThan(v, w)
    BY <1>1, <2>2 DEF LessThan, AtMost, AtLeast, GreaterThan
  <2> QED
    BY <1>2, <2>3, TypesDiffer DEF less
<1>3. CASE v.type = tInteger
  <2> DEFINE less == (v.integerValue < w.integerValue)
             greater == (v.integerValue > w.integerValue)
  <2>1. Order(v, w) = <<less, greater>>
    BY <1>3, TypesDiffer DEF Order
  <2> HIDE DEF less, greater
  <2>2. (Order(v, w)[1] <=> less) /\ (Order(v, w)[2] <=> greater)
    BY <2>1
  <2>3. /\ LessThan(v, w) <=> less
        /\ AtMost(v, w) <=> ~GreaterThan(v, w)
        /\ AtLeast(v, w) <=> ~LessThan(v, w)
    BY <1>1, <2>2 DEF LessThan, AtMost, AtLeast, GreaterThan
  <2> QED
    BY <1>3, <2>3, TypesDiffer DEF less
<1>4. CASE v.type = tInteger64
  <2> DEFINE less == (v.integerValue64 < w.integerValue64)
             greater == (v.integerValue64 > w.integerValue64)
  <2>1. Order(v, w) = <<less, greater>>
    BY <1>4, TypesDiffer DEF Order
  <2> HIDE DEF less, greater
  <2>2. (Order(v, w)[1] <=> less) /\ (Order(v, w)[2] <=> greater)
    BY <2>1
  <2>3. /\ LessThan(v, w) <=> less
        /\ AtMost(v, w) <=> ~GreaterThan(v, w)
        /\ AtLeast(v, w) <=> ~LessThan(v, w)
    BY <1>1, <2>2 DEF LessThan, AtMost, AtLeast, GreaterThan
  <2> QED
    BY <1>4, <2>3, TypesDiffer DEF less
<1>5. CASE v.type = tString
  BY <1>1, <1>5, TypesDiffer DEF LessThan, AtMost, AtLeast, GreaterThan, Order
<1>6. CASE v.type = tFloat
  BY <1>1, <1>6, TypesDiffer DEF LessThan, AtMost, AtLeast, GreaterThan, Order
<1> QED
  BY <1>2, <1>3, <1>4, <1>5, <1>6, TypesDiffer DEF ScalarTypes

(* > is < with the operands exchanged, although each is written down for   *)
(* itself, type by type.                                                   *)
LEMMA GreaterIsLess ==
    ASSUME NEW v, NEW w, v.type \in ScalarTypes, w.type = v.type
    PROVE  GreaterThan(v, w) <=> LessThan(w, v)
<1>1. v.type \in Ordered /\ w.type \in Ordered
  BY DEF Ordered, ScalarTypes
<1>2. CASE v.type = tBoolean
  <2> DEFINE less == ~v.booleanValue /\ w.booleanValue
             greater == v.booleanValue /\ ~w.booleanValue
             mirrored == ~w.booleanValue /\ v.booleanValue
             other == w.booleanValue /\ ~v.booleanValue
  <2>1. Order(v, w) = <<less, greater>> /\ Order(w, v) = <<mirrored, other>>
    BY <1>2, TypesDiffer DEF Order
  <2>2. greater <=> mirrored
    OBVIOUS
  <2> HIDE DEF less, greater, mirrored, other
  <2>3. (Order(v, w)[2] <=> greater) /\ (Order(w, v)[1] <=> mirrored)
    BY <2>1
  <2> QED
    BY <1>1, <2>2, <2>3 DEF LessThan, GreaterThan
<1>3. CASE v.type = tInteger
  <2> DEFINE less == v.integerValue < w.integerValue
             greater == v.integerValue > w.integerValue
             mirrored == w.integerValue < v.integerValue
             other == w.integerValue > v.integerValue
  <2>1. Order(v, w) = <<less, greater>> /\ Order(w, v) = <<mirrored, other>>
    BY <1>3, TypesDiffer DEF Order
  <2>2. greater <=> mirrored
    OBVIOUS
  <2> HIDE DEF less, greater, mirrored, other
  <2>3. (Order(v, w)[2] <=> greater) /\ (Order(w, v)[1] <=> mirrored)
    BY <2>1
  <2> QED
    BY <1>1, <2>2, <2>3 DEF LessThan, GreaterThan
<1>4. CASE v.type = tInteger64
  <2> DEFINE less == v.integerValue64 < w.integerValue64
             greater == v.integerValue64 > w.integerValue64
             mirrored == w.integerValue64 < v.integerValue64
             other == w.integerValue64 > v.integerValue64
  <2>1. Order(v, w) = <<less, greater>> /\ Order(w, v) = <<mirrored, other>>
    BY <1>4, TypesDiffer DEF Order
  <2>2. greater <=> mirrored
    OBVIOUS
  <2> HIDE DEF less, greater, mirrored, other
  <2>3. (Order(v, w)[2] <=> greater) /\ (Order(w, v)[1] <=> mirrored)
    BY <2>1
  <2> QED
    BY <1>1, <2>2, <2>3 DEF LessThan, GreaterThan
<1>5. CASE v.type = tString
  BY <1>1, <1>5, TypesDiffer DEF LessThan, GreaterThan, Order
<1>6. CASE v.type = tFloat
  BY <1>1, <1>6, TypesDiffer DEF LessThan, GreaterThan, Order
<1> QED
  BY <1>2, <1>3, <1>4, <1>5, <1>6 DEF ScalarTypes

(* Exactly one of <, == and > holds of two scalars of a type. *)
LEMMA ScalarsTrichotomous ==
    ASSUME NEW v \in Scalars, NEW w \in Scalars, v.type \in ScalarTypes, w.type = v.type
    PROVE  OneOf(LessThan(v, w), EqualScalars(v, w), LessThan(w, v))
<1>1. ScalarFacts(v) /\ ScalarFacts(w)
  BY ScalarInStep
<1>2. CASE v.type = tBoolean
  <2>1. v.booleanValue \in BOOLEAN /\ w.booleanValue \in BOOLEAN
    BY <1>1, <1>2 DEF ScalarFacts, BooleanFacts
  <2>2. EqualScalars(v, w) <=> v.booleanValue = w.booleanValue
    BY <1>2, TypesDiffer DEF EqualScalars
  <2>3. /\ LessThan(v, w) <=> ~v.booleanValue /\ w.booleanValue
        /\ LessThan(w, v) <=> ~w.booleanValue /\ v.booleanValue
    BY <1>2, ComparedBy
  <2> QED
    BY <2>1, <2>2, <2>3 DEF OneOf
<1>3. CASE v.type = tInteger
  <2>1. v.integerValue \in Int /\ w.integerValue \in Int
    BY <1>1, <1>3 DEF ScalarFacts, IntegerFacts
  <2>2. EqualScalars(v, w) <=> v.integerValue = w.integerValue
    BY <1>3, TypesDiffer DEF EqualScalars
  <2>3. /\ LessThan(v, w) <=> v.integerValue < w.integerValue
        /\ LessThan(w, v) <=> w.integerValue < v.integerValue
    BY <1>3, ComparedBy
  <2> QED
    BY <2>1, <2>2, <2>3 DEF OneOf
<1>4. CASE v.type = tInteger64
  <2>1. v.integerValue64 \in Int /\ w.integerValue64 \in Int
    BY <1>1, <1>4 DEF ScalarFacts, Integer64Facts
  <2>2. EqualScalars(v, w) <=> v.integerValue64 = w.integerValue64
    BY <1>4, TypesDiffer DEF EqualScalars
  <2>3. /\ LessThan(v, w) <=> v.integerValue64 < w.integerValue64
        /\ LessThan(w, v) <=> w.integerValue64 < v.integerValue64
    BY <1>4, ComparedBy
  <2> QED
    BY <2>1, <2>2, <2>3 DEF OneOf
<1>5. CASE v.type = tString
  <2>1. v.stringValue \in Seq(Int) /\ w.stringValue \in Seq(Int)
    BY <1>1, <1>5 DEF ScalarFacts, StringFacts
  <2>2. EqualScalars(v, w) <=> v.stringValue = w.stringValue
    BY <1>5, TypesDiffer DEF EqualScalars
  <2>3. /\ LessThan(v, w) <=> StringLess(v.stringValue, w.stringValue)
        /\ LessThan(w, v) <=> StringLess(w.stringValue, v.stringValue)
    BY <1>5, ComparedBy
  <2>4. OneOf(StringLess(v.stringValue, w.stringValue), v.stringValue = w.stringValue,
              StringLess(w.stringValue, v.stringValue))
    BY <2>1, StringsOrdered
  <2> QED
    BY <2>2, <2>3, <2>4 DEF OneOf
<1>6. CASE v.type = tFloat
  <2>1. /\ v.floatValue.num \in Int /\ v.floatValue.den \in Nat \ {0}
        /\ w.floatValue.num \in Int /\ w.floatValue.den \in Nat \ {0}
    BY <1>1, <1>6 DEF ScalarFacts, FloatFacts
  <2>2. EqualScalars(v, w) <=> v.floatValue = w.floatValue
    BY <1>6, TypesDiffer DEF EqualScalars
  <2>3. /\ LessThan(v, w) <=> Less(v.floatValue, w.floatValue)
        /\ LessThan(w, v) <=> Less(w.floatValue, v.floatValue)
    BY <1>6, ComparedBy
  <2>4. v.floatValue.num * w.floatValue.den = w.floatValue.num * v.floatValue.den
           => v.floatValue = w.floatValue
    BY <1>6, ApplicationAssumption
  <2>5. OneOf(Less(v.floatValue, w.floatValue), v.floatValue = w.floatValue,
              Less(w.floatValue, v.floatValue))
    BY <2>1, <2>4, FractionsOrdered
  <2> QED
    BY <2>2, <2>3, <2>5 DEF OneOf
<1> QED
  BY <1>2, <1>3, <1>4, <1>5, <1>6 DEF ScalarTypes

LEMMA OneComparison ==
    ASSUME NEW v, NEW w, OneOf(LessThan(v, w), EqualScalars(v, w), LessThan(w, v))
    PROVE  Cardinality(Comparisons(v, w)) = 1
<1>1. \E o : Comparisons(v, w) = {o}
  <2>1. CASE LessThan(v, w)
    <3>1. Comparisons(v, w) = {"less"}
      BY <2>1 DEF Comparisons, OneOf
    <3> QED
      BY <3>1
  <2>2. CASE EqualScalars(v, w)
    <3>1. Comparisons(v, w) = {"equal"}
      BY <2>2 DEF Comparisons, OneOf
    <3> QED
      BY <3>1
  <2>3. CASE LessThan(w, v)
    <3>1. Comparisons(v, w) = {"greater"}
      BY <2>3 DEF Comparisons, OneOf
    <3> QED
      BY <3>1
  <2> QED
    BY <2>1, <2>2, <2>3 DEF OneOf
<1> QED
  BY <1>1, FS_Singleton

(* Variable::operator==, <, >, <=, >= and the conversion to bool           *)
(* (Variable.cpp), whatever values the application makes: values of one    *)
(* scalar type are totally ordered, the comparisons agree with each other, *)
(* and the conversion to bool agrees with booleanValue.                    *)
THEOREM AlwaysScalarsOrdered == Spec => []ScalarsOrdered
<1>1. Reached => ScalarsOrdered
  <2> SUFFICES ASSUME Reached, value.type \in ScalarTypes
               PROVE  /\ Truth(value) = value.booleanValue
                      /\ \A v \in {w \in Scalars : w.type = value.type} :
                            /\ Cardinality(Comparisons(value, v)) = 1
                            /\ GreaterThan(value, v) = LessThan(v, value)
                            /\ AtMost(value, v) =
                                  (LessThan(value, v) \/ EqualScalars(value, v))
                            /\ AtLeast(value, v) = AtMost(v, value)
    BY DEF ScalarsOrdered
  <2>1. value \in Scalars
    BY TypesDiffer DEF Reached, Composed, ScalarTypes
  <2>2. Truth(value) = value.booleanValue
    BY <2>1, ScalarInStep, TruthTold
  <2>3. ASSUME NEW v \in Scalars, v.type = value.type
        PROVE  /\ Cardinality(Comparisons(value, v)) = 1
               /\ GreaterThan(value, v) = LessThan(v, value)
               /\ AtMost(value, v) = (LessThan(value, v) \/ EqualScalars(value, v))
               /\ AtLeast(value, v) = AtMost(v, value)
    <3>1. OneOf(LessThan(value, v), EqualScalars(value, v), LessThan(v, value))
      BY <2>1, <2>3, ScalarsTrichotomous
    <3>2. Cardinality(Comparisons(value, v)) = 1
      BY <3>1, OneComparison
    <3>3. /\ GreaterThan(value, v) <=> LessThan(v, value)
          /\ GreaterThan(v, value) <=> LessThan(value, v)
      BY <2>3, GreaterIsLess
    <3>4. /\ AtMost(value, v) <=> ~GreaterThan(value, v)
          /\ AtLeast(value, v) <=> ~LessThan(value, v)
          /\ AtMost(v, value) <=> ~GreaterThan(v, value)
      BY <2>3, ComparedBy
    <3>5. GreaterThan(value, v) = LessThan(v, value)
      BY <3>3 DEF GreaterThan, LessThan
    <3>6. AtMost(value, v) = (LessThan(value, v) \/ EqualScalars(value, v))
      BY <3>1, <3>3, <3>4 DEF OneOf, AtMost
    <3>7. AtLeast(value, v) = AtMost(v, value)
      BY <3>3, <3>4 DEF AtLeast, AtMost
    <3> QED
      BY <3>2, <3>5, <3>6, <3>7
  <2> QED
    BY <2>2, <2>3
<1> QED
  BY <1>1, ReachedAlways, PTL

-----------------------------------------------------------------------------
(* Ansi                                                                    *)

(* What is left of a string has no zero in it. *)
LEMMA NoZeroLeft ==
    ASSUME NEW s \in Seq(Int)
    PROVE  /\ UpToZero(s) \in Seq(Int)
           /\ Len(UpToZero(s)) <= Len(s)
           /\ \A i \in 1 .. Len(UpToZero(s)) : UpToZero(s)[i] = s[i] /\ s[i] # 0
<1> DEFINE zeros == {i \in DOMAIN s : s[i] = 0}
           end == CHOOSE i \in zeros : \A j \in zeros : i <= j
<1>1. Len(s) \in Nat /\ DOMAIN s = 1 .. Len(s)
  OBVIOUS
<1>2. CASE zeros = {}
  <2>1. UpToZero(s) = s
    BY <1>2 DEF UpToZero
  <2> QED
    BY <1>1, <1>2, <2>1
<1>3. CASE zeros # {}
  <2>1. zeros \in SUBSET Nat
    BY <1>1
  <2>2. \E i \in zeros : \A j \in zeros : i <= j
    <3> HIDE DEF zeros
    <3> QED
      BY <1>3, <2>1, LeastNatural
  <2>3. end \in zeros /\ \A j \in zeros : end <= j
    <3> HIDE DEF zeros
    <3> QED
      BY <2>2
  <2>4. UpToZero(s) = SubSeq(s, 1, end - 1)
    BY <1>3 DEF UpToZero
  <2> HIDE DEF end
  <2>5. end \in 1 .. Len(s)
    BY <1>1, <2>3
  <2>6. ASSUME NEW i \in 1 .. end - 1 PROVE s[i] # 0
    <3>1. i \in DOMAIN s /\ ~(end <= i)
      BY <1>1, <2>5
    <3> QED
      BY <2>3, <3>1
  <2>7. /\ SubSeq(s, 1, end - 1) \in Seq(Int) /\ Len(SubSeq(s, 1, end - 1)) = end - 1
        /\ \A i \in 1 .. end - 1 : SubSeq(s, 1, end - 1)[i] = s[i]
    BY <1>1, <2>5
  <2> HIDE DEF zeros
  <2> QED
    BY <1>1, <2>4, <2>5, <2>6, <2>7
<1> QED
  BY <1>2, <1>3

LEMMA NoZeroKept ==
    ASSUME NEW s \in Seq(Int), \A i \in 1 .. Len(s) : s[i] # 0
    PROVE  UpToZero(s) = s
BY DEF UpToZero

(* What the byte of a character stands for. *)
Expected(c) ==
    CASE c = DoubleDagger -> Dagger
      [] c \in (0 .. 127 \cup AnsiCharacters) \ {DoubleDagger} -> c
      [] OTHER -> 63

(* The table, without its gaps, has characters beyond Latin-1 only. *)
LEMMA LookupIs ==
    /\ DOMAIN Utf8Lookup = 1 .. 32
    /\ \A i \in 1 .. 32 : Utf8Lookup[i] = 0 \/ Utf8Lookup[i] > 255
    /\ \A i \in 1 .. 32 : Utf8Lookup[i] \in Nat
    /\ Utf8Lookup[7] = 8224
<1> DEFINE t == Utf8Lookup
<1>1. DOMAIN t = 1 .. 32
  BY DEF Utf8Lookup
<1>2. /\ t[1] = 8364 /\ t[2] = 0 /\ t[3] = 8218 /\ t[4] = 402 /\ t[5] = 8222 /\ t[6] = 8230
      /\ t[7] = 8224 /\ t[8] = 8225 /\ t[9] = 710 /\ t[10] = 8240 /\ t[11] = 352
      /\ t[12] = 8249 /\ t[13] = 338 /\ t[14] = 0 /\ t[15] = 381 /\ t[16] = 0
      /\ t[17] = 0 /\ t[18] = 8216 /\ t[19] = 8217 /\ t[20] = 8220 /\ t[21] = 8221
      /\ t[22] = 8226 /\ t[23] = 8211 /\ t[24] = 8212 /\ t[25] = 732 /\ t[26] = 8482
      /\ t[27] = 353 /\ t[28] = 8250 /\ t[29] = 339 /\ t[30] = 0 /\ t[31] = 382 /\ t[32] = 376
  BY DEF Utf8Lookup
<1> HIDE DEF t
<1>3. ASSUME NEW i \in 1 .. 32 PROVE (t[i] = 0 \/ t[i] > 255) /\ t[i] \in Nat
  <2>1. \/ i \in {1, 2, 3, 4, 5, 6, 7, 8} \/ i \in {9, 10, 11, 12, 13, 14, 15, 16}
        \/ i \in {17, 18, 19, 20, 21, 22, 23, 24} \/ i \in {25, 26, 27, 28, 29, 30, 31, 32}
    OBVIOUS
  <2>2. CASE i \in {1, 2, 3, 4, 5, 6, 7, 8}
    BY <1>2, <2>2
  <2>3. CASE i \in {9, 10, 11, 12, 13, 14, 15, 16}
    BY <1>2, <2>3
  <2>4. CASE i \in {17, 18, 19, 20, 21, 22, 23, 24}
    BY <1>2, <2>4
  <2>5. CASE i \in {25, 26, 27, 28, 29, 30, 31, 32}
    BY <1>2, <2>5
  <2> QED
    BY <2>1, <2>2, <2>3, <2>4, <2>5
<1> QED
  BY <1>1, <1>2, <1>3 DEF t

(* A character of the code page, its byte and back. *)
LEMMA CharacterArrives ==
    ASSUME NEW c \in Nat, c # 0
    PROVE  /\ ByteOf(c) \in 1 .. 255
           /\ Character(ByteOf(c)) = <<Expected(c)>>
<1>1. DoubleDagger = 8225 /\ Dagger = 8224
  BY DEF DoubleDagger, Dagger
<1>2. \A a \in AnsiCharacters : a \in Nat /\ a >= 160
  BY LookupIs DEF AnsiCharacters, ToSet
<1>3. CASE c < 128
  <2>1. ByteOf(c) = c
    <3>1. c # DoubleDagger /\ c \notin AnsiCharacters
      BY <1>1, <1>2, <1>3
    <3> QED
      BY <1>3, <3>1 DEF ByteOf
  <2>2. CharacterOf(c) = c
    BY <1>3 DEF CharacterOf
  <2>3. Expected(c) = c
    BY <1>1, <1>3 DEF Expected
  <2> QED
    BY <1>3, <2>1, <2>2, <2>3 DEF Character
<1>4. CASE c = DoubleDagger
  <2>1. ByteOf(c) = 134
    BY <1>1, <1>4 DEF ByteOf
  <2>2. CharacterOf(134) = 8224
    BY LookupIs DEF CharacterOf
  <2>3. Expected(c) = 8224
    BY <1>1, <1>4 DEF Expected
  <2> QED
    BY <2>1, <2>2, <2>3 DEF Character
<1>5. CASE c \in AnsiCharacters \ {DoubleDagger}
  <2>1. ~(c < 128)
    BY <1>2, <1>5
  <2>2. ByteOf(c) = CHOOSE byte \in 128 .. 255 : CharacterOf(byte) = c
    BY <1>5, <2>1 DEF ByteOf
  <2>3. \E byte \in 128 .. 255 : CharacterOf(byte) = c
    <3>1. CASE c \in 160 .. 255
      BY <3>1 DEF CharacterOf
    <3>2. CASE c \in ToSet(Utf8Lookup)
      <4>1. PICK i \in 1 .. 32 : c = Utf8Lookup[i]
        BY <3>2, LookupIs DEF ToSet
      <4>2. i + 127 \in 128 .. 159 /\ (i + 127) - 127 = i
        OBVIOUS
      <4>3. CharacterOf(i + 127) = c
        BY <4>1, <4>2 DEF CharacterOf
      <4> QED
        BY <4>2, <4>3
    <3> QED
      BY <1>5, <3>1, <3>2 DEF AnsiCharacters
  <2>4. PICK byte \in 128 .. 255 : ByteOf(c) = byte /\ CharacterOf(byte) = c
    BY <2>2, <2>3
  <2>5. Expected(c) = c
    BY <1>5 DEF Expected
  <2> QED
    BY <2>4, <2>5 DEF Character
<1>6. CASE ~(c < 128) /\ c # DoubleDagger /\ c \notin AnsiCharacters
  <2>1. ByteOf(c) = 63
    BY <1>6 DEF ByteOf
  <2>2. CharacterOf(63) = 63
    BY DEF CharacterOf
  <2>3. Expected(c) = 63
    BY <1>6 DEF Expected
  <2> QED
    BY <2>1, <2>2, <2>3 DEF Character
<1> QED
  BY <1>3, <1>4, <1>5, <1>6

(* The beginning of a sequence that is given as a function. *)
LEMMA Beginning ==
    ASSUME NEW n \in Nat, NEW e \in [1 .. n -> Int], NEW m \in Nat, m <= n
    PROVE  /\ [j \in 1 .. m |-> e[j]] \in Seq(Int)
           /\ Len([j \in 1 .. m |-> e[j]]) = m
           /\ \A j \in 1 .. m : [k \in 1 .. m |-> e[k]][j] = e[j]
<1>1. \A j \in 1 .. m : e[j] \in Int
  OBVIOUS
<1>2. [j \in 1 .. m |-> e[j]] \in Seq(Int)
  BY <1>1, IsASeq
<1> QED
  BY <1>2

(* A sequence of bytes each of which is one character. *)
LEMMA CharactersWritten ==
    ASSUME NEW bytes \in Seq(Int), NEW e \in [1 .. Len(bytes) -> Int],
           \A i \in 1 .. Len(bytes) : Character(bytes[i]) = <<e[i]>>
    PROVE  toUtf8OfLength(bytes) = e
<1> DEFINE n == Len(bytes)
           written[i \in 0 .. n] ==
               IF i = 0 THEN <<>> ELSE written[i - 1] \o Character(bytes[i])
           first(i) == [j \in 1 .. i |-> e[j]]
           g == [i \in 0 .. n |-> first(i)]
<1>1. n \in Nat
  OBVIOUS
<1>2. ASSUME NEW i \in 1 .. n
      PROVE  first(i) = first(i - 1) \o Character(bytes[i])
  <2>1. i \in Nat /\ i - 1 \in Nat /\ i - 1 < n /\ i <= n
    BY <1>1
  <2>2. PICK a : a = first(i - 1)
    OBVIOUS
  <2>3. a \in Seq(Int) /\ Len(a) = i - 1 /\ \A j \in 1 .. i - 1 : a[j] = e[j]
    <3>1. PICK m \in Nat : m = i - 1 /\ m <= n
      BY <2>1
    <3>2. e \in [1 .. n -> Int]
      OBVIOUS
    <3> HIDE DEF n
    <3>3. a = [j \in 1 .. m |-> e[j]]
      BY <2>2, <3>1
    <3>4. a \in Seq(Int) /\ Len(a) = m /\ \A j \in 1 .. m : a[j] = e[j]
      BY <1>1, <3>1, <3>2, <3>3, Beginning
    <3> QED
      BY <3>1, <3>4
  <2>4. PICK b : b = first(i)
    OBVIOUS
  <2>5. b \in Seq(Int) /\ Len(b) = i /\ \A j \in 1 .. i : b[j] = e[j]
    BY <1>1, <2>1, <2>4, Beginning
  <2>6. e[i] \in Int
    OBVIOUS
  <2>7. b = Append(a, e[i])
    <3>1. /\ Append(a, e[i]) \in Seq(Int) /\ Len(Append(a, e[i])) = i
          /\ \A j \in 1 .. i - 1 : Append(a, e[i])[j] = a[j]
          /\ Append(a, e[i])[i] = e[i]
      BY <2>1, <2>3, <2>6
    <3>2. \A j \in 1 .. i : j = i \/ j \in 1 .. i - 1
      BY <2>1
    <3>3. \A j \in 1 .. i : b[j] = Append(a, e[i])[j]
      BY <2>3, <2>5, <3>1, <3>2
    <3> QED
      BY <2>5, <3>1, <3>3, SeqEqual
  <2>8. Append(a, e[i]) = a \o <<e[i]>>
    BY <2>3, <2>6
  <2> QED
    BY <2>2, <2>4, <2>7, <2>8
<1>3. first(0) = <<>>
  OBVIOUS
<1>4. g = [i \in 0 .. n |-> IF i = 0 THEN <<>> ELSE g[i - 1] \o Character(bytes[i])]
  <2>1. \A i \in 1 .. n : i - 1 \in 0 .. n /\ i # 0
    BY <1>1
  <2>2. \A i \in 1 .. n : g[i - 1] = first(i - 1)
    BY <2>1
  <2>3. \A i \in 0 .. n : i = 0 \/ i \in 1 .. n
    BY <1>1
  <2> HIDE DEF first
  <2>4. \A i \in 0 .. n :
          first(i) = IF i = 0 THEN <<>> ELSE g[i - 1] \o Character(bytes[i])
    BY <1>2, <1>3, <2>1, <2>2, <2>3
  <2> QED
    BY <2>4
<1>5. written = [i \in 0 .. n |-> IF i = 0 THEN <<>>
                                  ELSE written[i - 1] \o Character(bytes[i])]
  <2> HIDE DEF g
  <2> QED
    BY <1>4
<1>6. toUtf8OfLength(bytes) = written[n]
  BY DEF toUtf8OfLength
<1> HIDE DEF written
<1> DEFINE T == {i \in Nat : i <= n => written[i] = first(i)}
<1>7. 0 \in T
  <2>1. written[0] = <<>>
    BY <1>1, <1>5
  <2> QED
    BY <1>3, <2>1
<1>8. \A i \in T : i + 1 \in T
  <2> SUFFICES ASSUME NEW i \in T, i + 1 <= n PROVE written[i + 1] = first(i + 1)
    OBVIOUS
  <2>1. i \in Nat /\ i + 1 \in 1 .. n /\ (i + 1) - 1 = i /\ written[i] = first(i)
    BY <1>1
  <2> HIDE DEF first
  <2>2. written[i + 1] = written[i] \o Character(bytes[i + 1])
    <3>1. i + 1 \in 0 .. n /\ i + 1 # 0
      BY <2>1
    <3>2. written[i + 1] = written[(i + 1) - 1] \o Character(bytes[i + 1])
      BY <1>5, <3>1
    <3> QED
      BY <2>1, <3>2
  <2>3. first(i + 1) = first(i) \o Character(bytes[i + 1])
    BY <1>2, <2>1
  <2> QED
    BY <2>1, <2>2, <2>3
<1>9. T \in SUBSET Nat
  OBVIOUS
<1>10. T = Nat
  <2> HIDE DEF T
  <2> QED
    BY <1>7, <1>8, <1>9, SetInduction
<1>11. written[n] = first(n)
  <2>1. n \in T
    <3> HIDE DEF T, n
    <3> QED
      BY <1>1, <1>10
  <2>2. n <= n
    BY <1>1
  <2> HIDE DEF first, n
  <2> QED
    BY <2>1, <2>2
<1>12. first(n) = e
  OBVIOUS
<1> QED
  BY <1>6, <1>11, <1>12

(* Through ANSI and back, for every string. *)
Kept(text) ==
    LET s == UpToZero(text)
        ansi == toAnsi(text)
    IN  /\ toUtf8(ansi) = [i \in DOMAIN s |-> Expected(s[i])]
        /\ toUtf8OfLength(ansi) = toUtf8(ansi)

LEMMA AnsiKeeps ==
    ASSUME NEW text \in Seq(Int), \A i \in DOMAIN UpToZero(text) : UpToZero(text)[i] >= 0
    PROVE  Kept(text)
<1> DEFINE s == UpToZero(text)
           ansi == toAnsi(text)
           e == [i \in DOMAIN s |-> Expected(s[i])]
<1>1. PICK n \in Nat : n = Len(s)
  BY NoZeroLeft
<1>2. /\ s \in Seq(Int) /\ DOMAIN s = 1 .. n
      /\ \A i \in 1 .. n : s[i] = text[i] /\ s[i] \in Nat /\ s[i] # 0
  BY SMTT(30), <1>1, NoZeroLeft
<1>3. ansi = [i \in 1 .. n |-> ByteOf(s[i])]
  BY <1>2 DEF toAnsi
<1> HIDE DEF s, ansi
<1>4. ASSUME NEW i \in 1 .. n
      PROVE  /\ ByteOf(s[i]) \in Int /\ ByteOf(s[i]) # 0
             /\ Character(ByteOf(s[i])) = <<Expected(s[i])>>
  <2>1. PICK c \in Nat : c = s[i] /\ c # 0
    BY <1>2
  <2>2. Character(ByteOf(c)) = <<Expected(c)>>
    BY <2>1, CharacterArrives
  <2>3. PICK byte \in 1 .. 255 : ByteOf(c) = byte
    BY <2>1, CharacterArrives
  <2>4. byte \in Int /\ byte # 0
    OBVIOUS
  <2> QED
    BY <2>1, <2>2, <2>3, <2>4
<1>5. ansi \in Seq(Int) /\ Len(ansi) = n /\ \A i \in 1 .. n : ansi[i] # 0
  <2>2. ansi \in [1 .. n -> Int] /\ \A i \in 1 .. n : ansi[i] # 0
    BY <1>3, <1>4
  <2>3. n <= n
    OBVIOUS
  <2>4. PICK b : b = [i \in 1 .. n |-> ansi[i]]
    OBVIOUS
  <2>5. b = ansi
    BY <2>2, <2>4
  <2>6. b \in Seq(Int) /\ Len(b) = n
    BY <2>2, <2>3, <2>4, Beginning
  <2> QED
    BY <2>2, <2>5, <2>6
<1>6. UpToZero(ansi) = ansi
  BY <1>5, NoZeroKept
<1>7. e \in [1 .. n -> Int]
  <2>1. \A i \in 1 .. n : Expected(s[i]) \in Int
    BY <1>2 DEF Expected, Dagger
  <2> QED
    BY <1>2, <2>1
<1>8. \A i \in 1 .. n : Character(ansi[i]) = <<e[i]>>
  BY <1>2, <1>3, <1>4
<1>9. toUtf8OfLength(ansi) = e
  <2> HIDE DEF e
  <2> QED
    BY <1>5, <1>7, <1>8, CharactersWritten
<1> QED
  BY <1>6, <1>9 DEF Kept, toUtf8, s, ansi

(* Ansi::toAnsi and both overloads of Ansi::toUtf8, for every string the   *)
(* application has: what comes back is the string up to its first zero,    *)
(* with question marks for what ANSI does not have, but for the double     *)
(* dagger, which comes back as the dagger.                                 *)
THEOREM AlwaysAnsiRoundTrip == Spec => []AnsiRoundTrip
<1>1. Reached => AnsiRoundTrip
  <2> SUFFICES ASSUME Reached PROVE AnsiRoundTrip
    OBVIOUS
  <2>1. value.stringValue \in Seq(Int)
    <3>1. CASE value \in Scalars
      BY <3>1, ScalarIs
    <3>2. CASE Composed(value)
      <4>1. <<>> \in Seq(Int)
        OBVIOUS
      <4> QED
        BY <3>2, <4>1 DEF Composed
    <3> QED
      BY <3>1, <3>2 DEF Reached
  <2>2. (\A i \in DOMAIN UpToZero(value.stringValue) : UpToZero(value.stringValue)[i] >= 0)
           => Kept(value.stringValue)
    BY <2>1, AnsiKeeps
  <2> QED
    BY <2>2 DEF AnsiRoundTrip, Kept, Expected
<1> QED
  BY <1>1, ReachedAlways, PTL
=============================================================================
