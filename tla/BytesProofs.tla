---------------------------- MODULE BytesProofs -----------------------------
(***************************************************************************)
(* Proofs about BinaryEncoder and BinaryDecoder: what is encoded arrives,  *)
(* wherever in a packet it is, for every width of the bytes, every number  *)
(* of them and every string.                                               *)
(*                                                                         *)
(* The functions behind this are defined by recursion, so that their       *)
(* values are found by induction.  It takes a set here, that of the        *)
(* numbers a fact holds for.                                               *)
(***************************************************************************)
EXTENDS BinaryEncoder, BinaryDecoder, FiniteSetTheorems, SequenceTheorems, TLAPS

-----------------------------------------------------------------------------
(* Induction and recursion                                                 *)

(* A set of naturals with 0 and the successor of each of its elements has  *)
(* them all: if n were missing, k |-> k - 1 would map what is missing of   *)
(* 0 .. n one-to-one to itself, and so reach n.                            *)
LEMMA SetInduction ==
    ASSUME NEW T \in SUBSET Nat, 0 \in T, \A n \in T : n + 1 \in T
    PROVE  T = Nat
<1> SUFFICES ASSUME NEW n \in Nat, n \notin T PROVE FALSE
  OBVIOUS
<1> DEFINE S == (0 .. n) \ T
           f == [k \in S |-> k - 1]
<1>1. IsFiniteSet(S)
  <2>1. IsFiniteSet(0 .. n)
    BY FS_Interval
  <2> QED
    BY <2>1, FS_Subset
<1>2. \A k \in S : k - 1 \in S
  <2> TAKE k \in S
  <2>1. k \in 0 .. n /\ k # 0 /\ k - 1 \in 0 .. n
    OBVIOUS
  <2>2. k - 1 \notin T
    BY <2>1
  <2> QED
    BY <2>1, <2>2
<1>3. \A k \in S : k \in Int
  OBVIOUS
<1>4. n \in S /\ n + 1 \notin S
  OBVIOUS
<1> HIDE DEF S
<1>5. f \in Injection(S, S)
  BY <1>2, <1>3 DEF Injection, IsInjective
<1>6. f \in Surjection(S, S)
  BY <1>1, <1>5, FS_Injection
<1>7. PICK k \in S : f[k] = n
  BY <1>4, <1>6 DEF Surjection
<1>8. k - 1 = n /\ k \in Int
  BY <1>3, <1>7
<1>9. k = n + 1
  BY <1>8
<1> QED
  BY <1>4, <1>9

(* A set of naturals that is not empty has a least element. *)
LEMMA LeastNatural ==
    ASSUME NEW S \in SUBSET Nat, S # {}
    PROVE  \E m \in S : \A n \in S : m <= n
<1> SUFFICES ASSUME \A m \in S : \E n \in S : ~(m <= n) PROVE FALSE
  OBVIOUS
<1> DEFINE T == {n \in Nat : \A k \in 0 .. n : k \notin S}
<1>1. 0 \in T
  <2>1. 0 \notin S
    OBVIOUS
  <2> QED
    BY <2>1
<1>2. \A n \in T : n + 1 \in T
  <2> SUFFICES ASSUME NEW n \in T PROVE n + 1 \notin S
    OBVIOUS
  <2> QED
    OBVIOUS
<1>3. T = Nat
  <2> HIDE DEF T
  <2> QED
    <3>1. T \in SUBSET Nat
      BY DEF T
    <3> QED
      BY <1>1, <1>2, <3>1, SetInduction
<1>4. PICK n \in S : TRUE
  OBVIOUS
<1>5. n \in T /\ n \in 0 .. n
  BY <1>3
<1> QED
  BY <1>4, <1>5

(* The recursion theorem: first and step determine a function on Nat.  It  *)
(* is put together from functions on 0 .. n, which agree where both are    *)
(* defined.                                                                *)
Recursive(S) ==
    \A first \in S, step \in [Nat -> [S -> S]] :
        \E f \in [Nat -> S] : f[0] = first /\ \A n \in Nat : f[n + 1] = step[n][f[n]]

LEMMA Recursion ==
    ASSUME NEW S
    PROVE  Recursive(S)
<1> SUFFICES ASSUME NEW first \in S, NEW step \in [Nat -> [S -> S]]
             PROVE  \E f \in [Nat -> S] : f[0] = first /\ \A n \in Nat : f[n + 1] = step[n][f[n]]
  BY DEF Recursive
<1> DEFINE Begins(h, n) ==
             h[0] = first /\ \A i \in 0 .. n - 1 : h[i + 1] = step[i][h[i]]
           T == {n \in Nat : \E h \in [0 .. n -> S] : Begins(h, n)}
<1>1. 0 \in T
  <2>1. [i \in 0 .. 0 |-> first] \in [0 .. 0 -> S] /\ Begins([i \in 0 .. 0 |-> first], 0)
    OBVIOUS
  <2> QED
    BY <2>1
<1>2. \A n \in T : n + 1 \in T
  <2> TAKE n \in T
  <2>1. PICK h \in [0 .. n -> S] : Begins(h, n)
    OBVIOUS
  <2> DEFINE g == [i \in 0 .. n + 1 |-> IF i = n + 1 THEN step[n][h[n]] ELSE h[i]]
  <2>2. n \in Nat
    OBVIOUS
  <2>3. g \in [0 .. n + 1 -> S]
    BY <2>1, <2>2
  <2>4. Begins(g, n + 1)
    <3>1. g[0] = first
      BY <2>1, <2>2
    <3>2. ASSUME NEW i \in 0 .. n PROVE g[i + 1] = step[i][g[i]]
      <4>1. CASE i = n
        BY <2>2, <4>1
      <4>2. CASE i # n
        BY <2>1, <2>2, <4>2
      <4> QED
        BY <4>1, <4>2
    <3>3. 0 .. (n + 1) - 1 = 0 .. n
      BY <2>2
    <3> HIDE DEF g
    <3> QED
      BY <3>1, <3>2, <3>3
  <2>5. n + 1 \in Nat
    BY <2>2
  <2> HIDE DEF g, Begins
  <2> QED
    BY <2>3, <2>4, <2>5
<1>3. T = Nat
  <2>1. T \in SUBSET Nat
    OBVIOUS
  <2> HIDE DEF T
  <2> QED
    BY <1>1, <1>2, <2>1, SetInduction
<1> DEFINE F(n) == CHOOSE h \in [0 .. n -> S] : Begins(h, n)
<1>4. \A n \in Nat : F(n) \in [0 .. n -> S] /\ Begins(F(n), n)
  BY <1>3
<1>5. \A n \in Nat : F(n)[0] = first /\ \A i \in 0 .. n - 1 : F(n)[i + 1] = step[i][F(n)[i]]
  BY <1>4
<1>6. \A n \in Nat : F(n) \in [0 .. n -> S]
  BY <1>4
<1> HIDE DEF F
<1>7. \A m \in Nat, n \in Nat : m <= n => F(n)[m] = F(m)[m]
  <2> DEFINE Agree == {m \in Nat : \A p, n \in Nat : m <= p /\ m <= n => F(n)[m] = F(p)[m]}
  <2>1. 0 \in Agree
    BY <1>5
  <2>2. \A m \in Agree : m + 1 \in Agree
    <3> SUFFICES ASSUME NEW m \in Agree, NEW p \in Nat, NEW n \in Nat, m + 1 <= p, m + 1 <= n
                 PROVE  F(n)[m + 1] = F(p)[m + 1]
      OBVIOUS
    <3>1. m \in 0 .. n - 1 /\ m \in 0 .. p - 1
      OBVIOUS
    <3>2. F(n)[m] = F(p)[m]
      OBVIOUS
    <3> QED
      BY <1>5, <3>1, <3>2
  <2>3. Agree \in SUBSET Nat
    OBVIOUS
  <2>4. Agree = Nat
    <3> HIDE DEF Agree
    <3> QED
      BY <2>1, <2>2, <2>3, SetInduction
  <2> TAKE m \in Nat, n \in Nat
  <2>5. m \in Agree
    BY <2>4
  <2> QED
    BY <2>5
<1> DEFINE f == [n \in Nat |-> F(n)[n]]
<1>8. f \in [Nat -> S]
  BY <1>6
<1>9. f[0] = first
  BY <1>5
<1>10. ASSUME NEW n \in Nat PROVE f[n + 1] = step[n][f[n]]
  <2>1. F(n + 1)[n + 1] = step[n][F(n + 1)[n]]
    BY <1>5
  <2>2. F(n + 1)[n] = F(n)[n]
    BY <1>7
  <2> QED
    BY <2>1, <2>2
<1> HIDE DEF f
<1> QED
  BY <1>8, <1>9, <1>10

-----------------------------------------------------------------------------
(* Numbers *)

(* There are 1, Base, Base * Base... integers of 0, 1, 2... bytes. *)
LEMMA ValuesFacts ==
    /\ Values \in [Nat -> Nat \ {0}]
    /\ Values[0] = 1
    /\ \A k \in Nat : Values[k + 1] = Base * Values[k]
<1> DEFINE S == Nat \ {0}
           first == 1
           step == [k \in Nat |-> [v \in S |-> Base * v]]
<1>1. step \in [Nat -> [S -> S]]
  <2>1. \A v \in S : Base * v \in S
    BY BytesAssumption
  <2> QED
    BY <2>1
<1>2. \E f \in [Nat -> S] : f[0] = first /\ \A n \in Nat : f[n + 1] = step[n][f[n]]
  <2>1. first \in S
    OBVIOUS
  <2> HIDE DEF step, S, first
  <2>2. Recursive(S)
    BY Recursion
  <2> QED
    BY <1>1, <2>1, <2>2 DEF Recursive
<1>3. PICK f \in [Nat -> S] : f[0] = first /\ \A n \in Nat : f[n + 1] = step[n][f[n]]
  BY <1>2
<1>4. \A n \in Nat : f[n + 1] = Base * f[n]
  BY <1>3
<1>5. f = [k \in Nat |-> IF k = 0 THEN 1 ELSE Base * f[k - 1]]
  <2>1. \A k \in Nat \ {0} : f[k] = Base * f[k - 1]
    <3> TAKE k \in Nat \ {0}
    <3>1. k - 1 \in Nat /\ (k - 1) + 1 = k
      OBVIOUS
    <3> QED
      BY <1>4, <3>1
  <2> QED
    BY <1>3, <2>1
<1>6. Values = [k \in Nat |-> IF k = 0 THEN 1 ELSE Base * Values[k - 1]]
  BY <1>5 DEF Values
<1>7. Values[0] = 1
  BY <1>6
<1>8. ASSUME NEW k \in Nat PROVE Values[k + 1] = Base * Values[k]
  <2>1. k + 1 \in Nat /\ k + 1 # 0 /\ (k + 1) - 1 = k
    OBVIOUS
  <2> QED
    BY <1>6, <2>1
<1> DEFINE T == {k \in Nat : Values[k] \in Nat \ {0}}
<1>9. T = Nat
  <2>1. 0 \in T
    BY <1>7
  <2>2. \A k \in T : k + 1 \in T
    <3> TAKE k \in T
    <3>1. Values[k + 1] = Base * Values[k] /\ Values[k] \in Nat \ {0}
      BY <1>8
    <3>2. Base * Values[k] \in Nat \ {0}
      BY <3>1, BytesAssumption
    <3> QED
      BY <3>1, <3>2
  <2>3. T \in SUBSET Nat
    OBVIOUS
  <2> HIDE DEF T
  <2> QED
    BY <2>1, <2>2, <2>3, SetInduction
<1>10. \A k \in Nat : Values[k] \in Nat \ {0}
  BY <1>9
<1> QED
  BY <1>6, <1>7, <1>8, <1>10

(* Division with remainder, and that there is only one way to do it. *)
LEMMA DivMod ==
    ASSUME NEW n \in Int, NEW d \in Nat \ {0}
    PROVE  /\ n \div d \in Int /\ n % d \in 0 .. d - 1
           /\ n = d * (n \div d) + (n % d)
<1>1. n = d * (n \div d) + (n % d) /\ n % d \in 0 .. d - 1
  OBVIOUS
<1>2. n \div d \in Int
  OBVIOUS
<1> QED
  BY <1>1, <1>2

LEMMA ModUnique ==
    ASSUME NEW d \in Nat \ {0}, NEW p \in Int, NEW r \in 0 .. d - 1
    PROVE  (d * p + r) % d = r
<1> DEFINE n == d * p + r
           q == n \div d
           m == n % d
<1>1. n \in Int
  OBVIOUS
<1>2. q \in Int /\ m \in 0 .. d - 1 /\ n = d * q + m
  <2> HIDE DEF n
  <2> QED
    BY <1>1, DivMod
<1> HIDE DEF q, m
<1>3. d * p + r = d * q + m
  BY <1>2
<1>4. d * (p - q) = m - r
  BY <1>2, <1>3
<1>5. m - r < d /\ r - m < d
  BY <1>2
<1>6. p - q = 0
  <2>1. CASE p - q >= 1
    <3>1. d * (p - q) >= d
      BY <1>2, <2>1
    <3> QED
      BY <1>2, <1>4, <1>5, <3>1
  <2>2. CASE p - q <= -1
    <3>1. d * (p - q) <= -d
      BY <1>2, <2>2
    <3> QED
      BY <1>2, <1>4, <1>5, <3>1
  <2> QED
    BY <1>2, <2>1, <2>2
<1>7. d * (p - q) = 0
  BY <1>6
<1>8. m = r
  BY <1>2, <1>4, <1>7
<1> QED
  BY <1>8 DEF m

(* An integer that k bytes hold is not cut. *)
LEMMA NotCut ==
    ASSUME NEW k \in Nat \ {0}, NEW n \in Int,
           -(Values[k] \div 2) <= n, n < Values[k] \div 2
    PROVE  CutTo(n, k) = n
<1> DEFINE V == Values[k]
           h == V \div 2
<1>1. V \in Nat \ {0}
  BY ValuesFacts
<1>2. V = 2 * h
  <2>1. k - 1 \in Nat /\ (k - 1) + 1 = k
    OBVIOUS
  <2>2. V = Base * Values[k - 1] /\ Values[k - 1] \in Nat
    BY <2>1, ValuesFacts
  <2>3. PICK b \in Nat : Base = 2 * b
    <3>1. Base \div 2 \in Nat /\ Base = 2 * (Base \div 2)
      BY BytesAssumption
    <3> QED
      BY <3>1
  <2>4. V = 2 * (b * Values[k - 1])
    BY <2>2, <2>3
  <2>5. b * Values[k - 1] \in Nat
    BY <2>2
  <2> HIDE DEF V
  <2> QED
    BY <1>1, <2>4, <2>5
<1>3. -h <= n /\ n < h
  OBVIOUS
<1>4. CutTo(n, k) = IF n % V < h THEN n % V ELSE (n % V) - V
  BY DEF CutTo
<1> HIDE DEF h, V
<1>5. h \in Int
  BY <1>1 DEF h
<1>6. CASE n >= 0
  <2>1. n \in 0 .. V - 1 /\ V * 0 + n = n
    BY <1>1, <1>2, <1>3, <1>5, <1>6
  <2>2. n % V = n
    BY <1>1, <2>1, ModUnique
  <2> QED
    BY <1>3, <1>4, <2>2
<1>7. CASE n < 0
  <2>1. n + V \in 0 .. V - 1 /\ V * (-1) + (n + V) = n
    BY <1>1, <1>2, <1>3, <1>5, <1>7
  <2>2. n % V = n + V
    BY <1>1, <2>1, ModUnique
  <2> QED
    BY <1>1, <1>2, <1>3, <1>4, <1>5, <2>2
<1> QED
  BY <1>6, <1>7

-----------------------------------------------------------------------------
(* Integers *)

ByteValues == 0 .. Base - 1

(* What BytesOf shifts to the right, and what Signed has read. *)
LEMMA Shifted ==
    ASSUME NEW n \in Int, NEW k \in Nat
    PROVE  \E s \in [0 .. k -> Int] :
              /\ s[0] = n
              /\ \A i \in 1 .. k : s[i] = s[i - 1] \div Base
              /\ BytesOf(n, k) = [i \in 1 .. k |-> s[k - i] % Base]
<1> DEFINE step == [i \in Nat |-> [x \in Int |-> x \div Base]]
           s[i \in 0 .. k] == IF i = 0 THEN n ELSE s[i - 1] \div Base
<1>1. step \in [Nat -> [Int -> Int]]
  <2>1. \A x \in Int : x \div Base \in Int
    BY BytesAssumption, DivMod
  <2> QED
    BY <2>1
<1>2. \E f \in [Nat -> Int] : f[0] = n /\ \A i \in Nat : f[i + 1] = step[i][f[i]]
  <2> HIDE DEF step
  <2>1. Recursive(Int)
    BY Recursion
  <2> QED
    BY <1>1, <2>1 DEF Recursive
<1>3. PICK f \in [Nat -> Int] : f[0] = n /\ \A i \in Nat : f[i + 1] = step[i][f[i]]
  BY <1>2
<1>4. \A i \in Nat : f[i + 1] = f[i] \div Base
  BY <1>3
<1> DEFINE g == [i \in 0 .. k |-> f[i]]
<1>5. g = [i \in 0 .. k |-> IF i = 0 THEN n ELSE g[i - 1] \div Base]
  <2>1. \A i \in 1 .. k : f[i] = f[i - 1] \div Base
    <3> TAKE i \in 1 .. k
    <3>1. i - 1 \in Nat /\ (i - 1) + 1 = i
      OBVIOUS
    <3> QED
      BY <1>4, <3>1
  <2>2. \A i \in 1 .. k : i - 1 \in 0 .. k /\ i # 0
    OBVIOUS
  <2>3. \A i \in 1 .. k : g[i - 1] = f[i - 1]
    BY <2>2
  <2>4. \A i \in 0 .. k : i = 0 \/ i \in 1 .. k
    OBVIOUS
  <2>5. \A i \in 0 .. k : f[i] = IF i = 0 THEN n ELSE g[i - 1] \div Base
    BY <1>3, <2>1, <2>2, <2>3, <2>4
  <2> HIDE DEF step
  <2> QED
    BY <2>5
<1>6. s = [i \in 0 .. k |-> IF i = 0 THEN n ELSE s[i - 1] \div Base]
  <2> HIDE DEF g
  <2> QED
    BY <1>5
<1>7. BytesOf(n, k) = [i \in 1 .. k |-> s[k - i] % Base]
  BY DEF BytesOf
<1> HIDE DEF s
<1>8. s[0] = n
  BY <1>6
<1>9. \A i \in 1 .. k : s[i] = s[i - 1] \div Base
  BY <1>6
<1>10. s \in [0 .. k -> Int]
  <2> DEFINE T == {i \in Nat : i <= k => s[i] \in Int}
  <2>1. 0 \in T
    BY <1>8
  <2>2. \A i \in T : i + 1 \in T
    <3> SUFFICES ASSUME NEW i \in T, i + 1 <= k PROVE s[i + 1] \in Int
      OBVIOUS
    <3>1. i + 1 \in 1 .. k /\ (i + 1) - 1 = i /\ s[i] \in Int
      OBVIOUS
    <3>2. s[i + 1] = s[i] \div Base
      BY <1>9, <3>1
    <3> QED
      BY <3>1, <3>2, BytesAssumption, DivMod
  <2>3. T \in SUBSET Nat
    OBVIOUS
  <2>4. T = Nat
    <3> HIDE DEF T
    <3> QED
      BY <2>1, <2>2, <2>3, SetInduction
  <2>5. \A i \in 0 .. k : s[i] \in Int
    BY <2>4
  <2> QED
    BY <1>6, <2>5
<1> QED
  BY <1>7, <1>8, <1>9, <1>10

Top(byte) == IF byte < Base \div 2 THEN byte ELSE byte - Base

LEMMA ReadBytes ==
    ASSUME NEW bytes \in Seq(ByteValues), bytes # <<>>
    PROVE  \E r \in [1 .. Len(bytes) -> Int] :
              /\ r[1] = Top(bytes[1])
              /\ \A i \in 1 .. Len(bytes) - 1 : r[i + 1] = Base * r[i] + bytes[i + 1]
              /\ Signed(bytes) = r[Len(bytes)]
<1> DEFINE top == IF bytes[1] < Base \div 2 THEN bytes[1] ELSE bytes[1] - Base
           step == [i \in Nat |-> [x \in Int |->
                      IF i + 2 <= Len(bytes) THEN Base * x + bytes[i + 2] ELSE x]]
           r[i \in 1 .. Len(bytes)] ==
              IF i = 1 THEN top ELSE Base * r[i - 1] + bytes[i]
<1>1. /\ Len(bytes) \in Nat \ {0} /\ Base \in Nat
      /\ \A i \in 1 .. Len(bytes) : bytes[i] \in Int
  BY BytesAssumption DEF ByteValues
<1>2. top \in Int
  BY <1>1
<1>3. step \in [Nat -> [Int -> Int]]
  <2>1. ASSUME NEW i \in Nat, NEW x \in Int, i + 2 <= Len(bytes)
        PROVE  Base * x + bytes[i + 2] \in Int
    BY <1>1, <2>1
  <2> QED
    BY <1>1, <2>1
<1>4. \E f \in [Nat -> Int] : f[0] = top /\ \A i \in Nat : f[i + 1] = step[i][f[i]]
  <2> HIDE DEF step, top
  <2>1. Recursive(Int)
    BY Recursion
  <2> QED
    BY <1>2, <1>3, <2>1 DEF Recursive
<1>5. PICK f \in [Nat -> Int] : f[0] = top /\ \A i \in Nat : f[i + 1] = step[i][f[i]]
  BY <1>4
<1>6. \A i \in Nat : i + 2 <= Len(bytes) => f[i + 1] = Base * f[i] + bytes[i + 2]
  BY <1>5
<1> HIDE DEF step, top
<1> DEFINE g == [i \in 1 .. Len(bytes) |-> f[i - 1]]
<1>7. g = [i \in 1 .. Len(bytes) |-> IF i = 1 THEN top ELSE Base * g[i - 1] + bytes[i]]
  <2>1. \A i \in 2 .. Len(bytes) : f[i - 1] = Base * f[i - 2] + bytes[i]
    <3> TAKE i \in 2 .. Len(bytes)
    <3>1. i - 2 \in Nat /\ (i - 2) + 1 = i - 1 /\ (i - 2) + 2 = i
      BY <1>1
    <3> QED
      BY <1>6, <3>1
  <2>2. \A i \in 2 .. Len(bytes) : i - 1 \in 1 .. Len(bytes) /\ (i - 1) - 1 = i - 2
    BY <1>1
  <2>3. \A i \in 2 .. Len(bytes) : g[i - 1] = f[i - 2]
    BY <2>2
  <2>4. \A i \in 1 .. Len(bytes) : i = 1 \/ i \in 2 .. Len(bytes)
    BY <1>1
  <2>5. \A i \in 1 .. Len(bytes) : f[i - 1] = IF i = 1 THEN top ELSE Base * g[i - 1] + bytes[i]
    <3> TAKE i \in 1 .. Len(bytes)
    <3>1. CASE i = 1
      BY <1>5, <3>1
    <3>2. CASE i \in 2 .. Len(bytes)
      <4> HIDE DEF g
      <4> QED
        BY SMTT(30), <1>1, <2>1, <2>3, <3>2
    <3> QED
      BY <2>4, <3>1, <3>2
  <2> QED
    BY <2>5
<1>8. r = [i \in 1 .. Len(bytes) |-> IF i = 1 THEN top ELSE Base * r[i - 1] + bytes[i]]
  <2> HIDE DEF g
  <2> QED
    BY <1>7
<1>9. Signed(bytes) = r[Len(bytes)]
  BY DEF Signed, top
<1> HIDE DEF r
<1>10. r[1] = Top(bytes[1])
  BY <1>1, <1>8 DEF Top, top
<1>11. \A i \in 1 .. Len(bytes) - 1 : r[i + 1] = Base * r[i] + bytes[i + 1]
  <2> TAKE i \in 1 .. Len(bytes) - 1
  <2>1. i + 1 \in 1 .. Len(bytes) /\ i + 1 # 1 /\ (i + 1) - 1 = i
    BY <1>1
  <2> QED
    BY <1>8, <2>1
<1>12. r \in [1 .. Len(bytes) -> Int]
  <2> DEFINE T == {i \in Nat : i + 1 <= Len(bytes) => r[i + 1] \in Int}
  <2>1. 0 \in T
    BY <1>1, <1>2, <1>8
  <2>2. \A i \in T : i + 1 \in T
    <3> SUFFICES ASSUME NEW i \in T, (i + 1) + 1 <= Len(bytes) PROVE r[(i + 1) + 1] \in Int
      OBVIOUS
    <3>1. i + 1 \in 1 .. Len(bytes) - 1 /\ r[i + 1] \in Int
      BY <1>1
    <3>2. r[(i + 1) + 1] = Base * r[i + 1] + bytes[(i + 1) + 1]
      BY <1>11, <3>1
    <3>3. bytes[(i + 1) + 1] \in Int
      BY <1>1
    <3> QED
      BY SMTT(30), <1>1, <3>1, <3>2, <3>3
  <2>3. T \in SUBSET Nat
    OBVIOUS
  <2>4. T = Nat
    <3> HIDE DEF T
    <3> QED
      BY <2>1, <2>2, <2>3, SetInduction
  <2>5. \A i \in 1 .. Len(bytes) : r[i] \in Int
    <3> TAKE i \in 1 .. Len(bytes)
    <3>1. i - 1 \in Nat /\ (i - 1) + 1 = i
      BY <1>1
    <3>2. i - 1 \in T
      BY <2>4, <3>1
    <3> QED
      BY <1>1, <3>1, <3>2
  <2> QED
    BY <1>8, <2>5
<1> QED
  BY <1>9, <1>10, <1>11, <1>12

(* The bytes of an integer: as many as asked for. *)
LEMMA BytesOfType ==
    ASSUME NEW n \in Int, NEW k \in Nat
    PROVE  BytesOf(n, k) \in Seq(ByteValues) /\ Len(BytesOf(n, k)) = k
<1>1. PICK s \in [0 .. k -> Int] : BytesOf(n, k) = [i \in 1 .. k |-> s[k - i] % Base]
  BY Shifted
<1>2. \A i \in 1 .. k : s[k - i] % Base \in ByteValues
  <2> TAKE i \in 1 .. k
  <2>1. k - i \in 0 .. k
    OBVIOUS
  <2>2. s[k - i] \in Int
    BY <2>1
  <2> QED
    BY <2>2, BytesAssumption, DivMod DEF ByteValues
<1>3. [i \in 1 .. k |-> s[k - i] % Base] \in [1 .. k -> ByteValues]
  BY <1>2
<1>4. BytesOf(n, k) \in [1 .. k -> ByteValues]
  BY <1>1, <1>3
<1> QED
  BY <1>4

(* One byte more: cut the rest, and put the byte behind it. *)
LEMMA CutOneMore ==
    ASSUME NEW x \in Int, NEW i \in Nat \ {0}
    PROVE  CutTo(x, i + 1) = Base * CutTo(x \div Base, i) + (x % Base)
<1> DEFINE V == Values[i]
           h == V \div 2
           q == x \div Base
           b == x % Base
           p == q \div V
           r == q % V
<1>1. Base \in Nat \ {0} /\ V \in Nat \ {0} /\ Values[i + 1] = Base * V
  BY BytesAssumption, ValuesFacts
<1>2. q \in Int /\ b \in 0 .. Base - 1 /\ x = Base * q + b
  BY <1>1, DivMod
<1>3. p \in Int /\ r \in 0 .. V - 1 /\ q = V * p + r
  <2> HIDE DEF V, q
  <2> QED
    BY <1>1, <1>2, DivMod
<1>4. h \in Nat /\ V = 2 * h
  <2>1. i - 1 \in Nat /\ (i - 1) + 1 = i
    OBVIOUS
  <2>2. V = Base * Values[i - 1] /\ Values[i - 1] \in Nat
    BY <2>1, ValuesFacts
  <2>3. PICK c \in Nat : Base = 2 * c
    <3>1. Base \div 2 \in Nat /\ Base = 2 * (Base \div 2)
      BY BytesAssumption
    <3> QED
      BY <3>1
  <2>4. V = 2 * (c * Values[i - 1])
    BY <2>2, <2>3
  <2>5. c * Values[i - 1] \in Nat
    BY <2>2
  <2> HIDE DEF V
  <2> QED
    BY <1>1, <2>4, <2>5
<1>5. CutTo(q, i) = IF r < h THEN r ELSE r - V
  BY DEF CutTo
<1> HIDE DEF V, q, b, p, r, h
<1>6. x = (Base * V) * p + (Base * r + b)
  <2>1. Base * (V * p + r) = (Base * V) * p + Base * r
    BY <1>1, <1>3
  <2> QED
    BY <1>1, <1>2, <1>3, <2>1
<1>7. Base * r + b \in 0 .. (Base * V) - 1
  <2>1. r + 1 <= V
    BY <1>1, <1>3
  <2>2. Base * (r + 1) <= Base * V
    BY <1>1, <1>3, <2>1
  <2>3. Base * (r + 1) = Base * r + Base /\ Base * r \in Nat
    BY <1>1, <1>3
  <2> QED
    BY <1>1, <1>2, <2>2, <2>3
<1>8. Base * V \in Nat \ {0}
  BY <1>1
<1>9. x % (Base * V) = Base * r + b
  BY <1>3, <1>6, <1>7, <1>8, ModUnique
<1>10. (Base * V) \div 2 = Base * h
  <2>1. Base * V = 2 * (Base * h) /\ Base * h \in Nat
    BY <1>1, <1>4
  <2> QED
    BY <2>1
<1>11. r < h <=> Base * r + b < Base * h
  <2>1. CASE r < h
    <3>1. r + 1 <= h
      BY <1>1, <1>3, <1>4, <2>1
    <3>2. Base * (r + 1) <= Base * h
      BY <1>1, <1>3, <1>4, <3>1
    <3>3. Base * (r + 1) = Base * r + Base /\ Base * r \in Nat /\ Base * h \in Nat
      BY <1>1, <1>3, <1>4
    <3> QED
      BY <1>1, <1>2, <2>1, <3>2, <3>3
  <2>2. CASE h <= r
    <3>1. Base * h <= Base * r /\ Base * r \in Nat /\ Base * h \in Nat
      BY <1>1, <1>3, <1>4, <2>2
    <3>2. ~(r < h)
      BY <1>1, <1>3, <1>4, <2>2
    <3> QED
      BY <1>1, <1>2, <3>1, <3>2
  <2> QED
    BY <1>1, <1>3, <1>4, <2>1, <2>2
<1>12. CutTo(x, i + 1) = IF Base * r + b < Base * h THEN Base * r + b
                         ELSE (Base * r + b) - Base * V
  BY <1>1, <1>9, <1>10 DEF CutTo
<1>13. Base * (r - V) + b = (Base * r + b) - Base * V
  <2>1. Base * (r - V) = Base * r - Base * V
    BY <1>1, <1>3
  <2>2. Base * r \in Int /\ Base * V \in Int
    BY <1>1, <1>3
  <2> QED
    BY <1>2, <2>1, <2>2
<1>14. CutTo(x, i + 1) = Base * CutTo(q, i) + b
  BY <1>5, <1>11, <1>12, <1>13
<1> QED
  BY <1>14 DEF q, b

(* What Signed reads of what BytesOf wrote is the integer cut to as many   *)
(* bytes (BinaryEncoder and BinaryDecoder, whatever the width).            *)
THEOREM IntegerBytes ==
    ASSUME NEW n \in Int, NEW k \in Nat \ {0}
    PROVE  Signed(BytesOf(n, k)) = CutTo(n, k)
<1> DEFINE bytes == BytesOf(n, k)
<1>1. bytes \in Seq(ByteValues) /\ Len(bytes) = k
  BY BytesOfType
<1>2. PICK s \in [0 .. k -> Int] :
         /\ s[0] = n
         /\ \A i \in 1 .. k : s[i] = s[i - 1] \div Base
         /\ bytes = [i \in 1 .. k |-> s[k - i] % Base]
  BY Shifted
<1>3. \A i \in 1 .. k : bytes[i] = s[k - i] % Base
  BY <1>2
<1> HIDE DEF bytes
<1>4. bytes # <<>>
  BY <1>1
<1>5. PICK r \in [1 .. k -> Int] :
         /\ r[1] = Top(bytes[1])
         /\ \A i \in 1 .. k - 1 : r[i + 1] = Base * r[i] + bytes[i + 1]
         /\ Signed(bytes) = r[k]
  BY <1>1, <1>4, ReadBytes
<1> DEFINE T == {i \in Nat : i + 1 <= k => r[i + 1] = CutTo(s[k - (i + 1)], i + 1)}
<1>6. 0 \in T
  <2>1. 1 \in 1 .. k /\ k - 1 \in 0 .. k
    OBVIOUS
  <2>2. s[k - 1] \in Int /\ bytes[1] = s[k - 1] % Base
    BY <1>3, <2>1
  <2>3. Values[1] = Base
    <3>1. Values[0 + 1] = Base * Values[0] /\ Values[0] = 1
      BY ValuesFacts
    <3> QED
      BY <3>1, BytesAssumption
  <2>4. CutTo(s[k - 1], 1) = Top(s[k - 1] % Base)
    BY <2>3 DEF CutTo, Top
  <2>5. r[1] = CutTo(s[k - 1], 1)
    BY <1>5, <2>2, <2>4
  <2> QED
    BY <2>5
<1>7. \A i \in T : i + 1 \in T
  <2> SUFFICES ASSUME NEW i \in T, (i + 1) + 1 <= k
               PROVE  r[(i + 1) + 1] = CutTo(s[k - ((i + 1) + 1)], (i + 1) + 1)
    BY SMTT(30)
  <2> DEFINE j == i + 1
             x == s[k - (j + 1)]
  <2>1. j \in 1 .. k - 1 /\ j \in Nat \ {0} /\ k - (j + 1) \in 0 .. k /\ k - j \in 1 .. k
        /\ (k - j) - 1 = k - (j + 1) /\ j + 1 \in 1 .. k
    OBVIOUS
  <2>2. r[j] = CutTo(s[k - j], j)
    OBVIOUS
  <2> HIDE DEF j
  <2>3. r[j + 1] = Base * r[j] + bytes[j + 1]
    BY <1>5, <2>1
  <2>4. s[k - j] = x \div Base
    BY <1>2, <2>1
  <2>5. bytes[j + 1] = x % Base
    BY <1>3, <2>1
  <2>6. x \in Int
    BY <2>1
  <2>7. CutTo(x, j + 1) = Base * CutTo(x \div Base, j) + (x % Base)
    BY <2>1, <2>6, CutOneMore
  <2>8. r[j + 1] = CutTo(x, j + 1)
    BY <2>2, <2>3, <2>4, <2>5, <2>7
  <2> QED
    BY <2>8 DEF j
<1>8. T = Nat
  <2>1. T \in SUBSET Nat
    OBVIOUS
  <2> HIDE DEF T
  <2> QED
    BY <1>6, <1>7, <2>1, SetInduction
<1>9. k - 1 \in T /\ (k - 1) + 1 = k /\ k - k = 0
  <2>1. k - 1 \in Nat /\ (k - 1) + 1 = k /\ k - k = 0
    OBVIOUS
  <2> HIDE DEF T
  <2> QED
    BY <1>8, <2>1
<1>10. r[k] = CutTo(s[0], k)
  BY <1>9
<1> QED
  BY <1>2, <1>5, <1>10 DEF bytes

-----------------------------------------------------------------------------
(* What arrives, in the middle of a packet *)

InMiddle(packet, before, bytes, after) ==
    /\ packet \in Seq(Int)
    /\ Len(packet) = Len(before) + Len(bytes) + Len(after)
    /\ Take(packet, Len(before), Len(bytes)) = bytes

LEMMA Middle ==
    ASSUME NEW before \in Seq(Int), NEW bytes \in Seq(Int), NEW after \in Seq(Int)
    PROVE  InMiddle(before \o bytes \o after, before, bytes, after)
<1> DEFINE packet == before \o bytes \o after
           n == Len(before)
           k == Len(bytes)
           taken == SubSeq(packet, n + 1, n + k)
<1>1. n \in Nat /\ k \in Nat /\ Len(after) \in Nat
  OBVIOUS
<1>2. packet \in Seq(Int) /\ Len(packet) = n + k + Len(after)
  OBVIOUS
<1>3. \A i \in 1 .. k : packet[n + i] = bytes[i]
  OBVIOUS
<1>4. taken \in Seq(Int) /\ Len(taken) = k
  BY <1>1, <1>2
<1>5. \A i \in 1 .. k : taken[i] = bytes[i]
  <2> TAKE i \in 1 .. k
  <2>1. taken[i] = packet[(n + 1) + i - 1]
    BY <1>1, <1>2
  <2>2. (n + 1) + i - 1 = n + i
    BY <1>1
  <2> QED
    BY <1>3, <2>1, <2>2
<1>6. taken = bytes
  <2> HIDE DEF taken
  <2> QED
    BY <1>4, <1>5, SeqEqual
<1> QED
  BY <1>2, <1>6 DEF Take, InMiddle

LEMMA BytesArrive ==
    ASSUME NEW before \in Seq(Int), NEW after \in Seq(Int), NEW n \in Int, NEW k \in Nat \ {0}
    PROVE  DecodeBytes(before \o BytesOf(n, k) \o after, Len(before), k)
              = Result(CutTo(n, k), Len(before) + k)
<1> DEFINE bytes == BytesOf(n, k)
           packet == before \o bytes \o after
<1>1. bytes \in Seq(ByteValues) /\ Len(bytes) = k
  BY BytesOfType
<1>2. bytes \in Seq(Int)
  <2>1. ByteValues \subseteq Int
    BY BytesAssumption DEF ByteValues
  <2> HIDE DEF bytes
  <2> QED
    BY <1>1, <2>1, SeqMonotonic
<1>3. Signed(bytes) = CutTo(n, k)
  BY IntegerBytes
<1> HIDE DEF bytes
<1>4. Len(packet) = Len(before) + k + Len(after) /\ Take(packet, Len(before), k) = bytes
  <2>1. InMiddle(before \o bytes \o after, before, bytes, after)
    BY <1>2, Middle
  <2> QED
    BY <1>1, <2>1 DEF InMiddle
<1>5. ~(Len(before) + k > Len(packet))
  <2>1. Len(before) \in Nat /\ Len(after) \in Nat
    OBVIOUS
  <2> QED
    BY <1>4, <2>1
<1>6. DecodeBytes(packet, Len(before), k) = Result(CutTo(n, k), Len(before) + k)
  <2> HIDE DEF packet
  <2> QED
    BY <1>3, <1>4, <1>5 DEF DecodeBytes
<1> QED
  BY <1>6 DEF bytes

(* An integer of 32 or 64 bits arrives wherever it is in a packet, and the *)
(* decoder is behind it then (decodeInteger, decodeInteger64).             *)
THEOREM IntegersArrive ==
    ASSUME NEW before \in Seq(Int), NEW after \in Seq(Int), NEW n \in Int
    PROVE  /\ DecodeInteger(before \o EncodeInteger(n) \o after, Len(before))
                 = Result(CutTo(n, 4), Len(before) + 4)
           /\ DecodeInteger64(before \o EncodeInteger64(n) \o after, Len(before))
                 = Result(CutTo(n, 8), Len(before) + 8)
<1>1. 4 \in Nat \ {0} /\ 8 \in Nat \ {0}
  OBVIOUS
<1>2. DecodeBytes(before \o BytesOf(n, 4) \o after, Len(before), 4)
         = Result(CutTo(n, 4), Len(before) + 4)
  BY <1>1, BytesArrive
<1>3. DecodeBytes(before \o BytesOf(n, 8) \o after, Len(before), 8)
         = Result(CutTo(n, 8), Len(before) + 8)
  BY <1>1, BytesArrive
<1> QED
  BY <1>2, <1>3 DEF DecodeInteger, DecodeInteger64, EncodeInteger, EncodeInteger64

LEMMA EncodeIntegerType ==
    ASSUME NEW n \in Int
    PROVE  EncodeInteger(n) \in Seq(Int) /\ Len(EncodeInteger(n)) = 4
<1>1. ByteValues \subseteq Int
  BY BytesAssumption DEF ByteValues
<1>2. EncodeInteger(n) \in Seq(ByteValues) /\ Len(EncodeInteger(n)) = 4
  <2>1. 4 \in Nat
    OBVIOUS
  <2> QED
    BY <2>1, BytesOfType DEF EncodeInteger
<1> QED
  BY <1>1, <1>2, SeqMonotonic

Regrouped(a, b, c, d) ==
    /\ a \o (b \o c) \o d = a \o b \o (c \o d)
    /\ a \o (b \o c) \o d = (a \o b) \o c \o d

LEMMA FourParts ==
    ASSUME NEW a \in Seq(Int), NEW b \in Seq(Int), NEW c \in Seq(Int), NEW d \in Seq(Int)
    PROVE  Regrouped(a, b, c, d)
<1>1. a \o (b \o c) = (a \o b) \o c
  BY SMTT(30)
<1>2. a \o b \in Seq(Int)
  OBVIOUS
<1> DEFINE ab == a \o b
<1>3. (ab \o c) \o d = ab \o (c \o d)
  <2>1. ab \in Seq(Int)
    BY <1>2
  <2> HIDE DEF ab
  <2> QED
    BY <2>1
<1> QED
  BY <1>1, <1>3 DEF Regrouped

(* A string arrives wherever it is in a packet, whatever its bytes and its *)
(* length, the empty one and those with zeros included, as long as four    *)
(* bytes hold the length (decodeString, decodeBinary).                     *)
THEOREM StringsArrive ==
    ASSUME NEW before \in Seq(Int), NEW after \in Seq(Int), NEW s \in Seq(Int),
           Len(s) < Values[4] \div 2
    PROVE  DecodeString(before \o EncodeString(s) \o after, Len(before))
              = Result(s, Len(before) + 4 + Len(s))
<1> DEFINE packet == before \o EncodeString(s) \o after
           length == DecodeInteger(packet, Len(before))
<1>1. Len(s) \in Nat /\ Len(before) \in Nat /\ Len(after) \in Nat
  OBVIOUS
<1>2. PICK size \in Seq(Int) : size = EncodeInteger(Len(s)) /\ Len(size) = 4
  <2>1. Len(s) \in Int
    BY <1>1
  <2> QED
    BY <2>1, EncodeIntegerType
<1>3. EncodeString(s) = size \o s
  BY <1>2 DEF EncodeString
<1>4. CutTo(Len(s), 4) = Len(s)
  <2>1. Values[4] \in Nat \ {0}
    BY ValuesFacts
  <2>2. -(Values[4] \div 2) <= Len(s)
    BY <1>1, <2>1
  <2> QED
    BY <1>1, <2>2, NotCut
<1>4a. Regrouped(before, size, s, after)
  BY FourParts
<1>5. packet = before \o size \o (s \o after)
  BY <1>3, <1>4a DEF Regrouped
<1>6. length = Result(Len(s), Len(before) + 4)
  <2>1. s \o after \in Seq(Int)
    OBVIOUS
  <2>2. DecodeInteger(before \o size \o (s \o after), Len(before))
           = Result(CutTo(Len(s), 4), Len(before) + 4)
    <3>1. Len(s) \in Int
      BY <1>1
    <3> QED
      BY <1>2, <2>1, <3>1, IntegersArrive
  <2> QED
    BY <1>4, <1>5, <2>2
<1>7. packet = (before \o size) \o s \o after
  BY <1>3, <1>4a DEF Regrouped
<1>8. before \o size \in Seq(Int) /\ Len(before \o size) = Len(before) + 4
  <2>1. before \o size \in Seq(Int) /\ Len(before \o size) = Len(before) + Len(size)
    OBVIOUS
  <2> QED
    BY <1>2, <2>1
<1>9. /\ Len(packet) = (Len(before) + 4) + Len(s) + Len(after)
      /\ Take(packet, Len(before) + 4, Len(s)) = s
  <2>1. InMiddle((before \o size) \o s \o after, before \o size, s, after)
    BY <1>8, Middle
  <2> HIDE DEF packet
  <2> QED
    BY <1>7, <1>8, <2>1 DEF InMiddle
<1>10. length.value = Len(s) /\ length.position = Len(before) + 4
  BY <1>6 DEF Result
<1> HIDE DEF packet, length
<1>11. DecodeString(packet, Len(before)) =
          IF (Len(before) + 4) + Len(s) > Len(packet) \/ Len(s) = 0
          THEN Result(<<>>, Len(before) + 4)
          ELSE Result(Take(packet, Len(before) + 4, Len(s)), (Len(before) + 4) + Len(s))
  BY <1>10 DEF DecodeString, length
<1>12. ~((Len(before) + 4) + Len(s) > Len(packet))
  BY <1>1, <1>9
<1>13. CASE Len(s) = 0
  <2>1. s = <<>> /\ (Len(before) + 4) + Len(s) = Len(before) + 4
    BY <1>1, <1>13
  <2> QED
    BY <1>11, <1>13, <2>1 DEF packet
<1>14. CASE Len(s) # 0
  BY <1>9, <1>11, <1>12, <1>14 DEF packet
<1> QED
  BY <1>13, <1>14

(* A truth value arrives wherever it is in a packet (decodeBoolean). *)
THEOREM BooleansArrive ==
    ASSUME NEW before \in Seq(Int), NEW after \in Seq(Int), NEW b \in BOOLEAN
    PROVE  DecodeBoolean(before \o EncodeBoolean(b) \o after, Len(before))
              = Result(b, Len(before) + 1)
<1> DEFINE byte == IF b THEN 1 ELSE 0
           packet == before \o <<byte>> \o after
<1>1. EncodeBoolean(b) = <<byte>>
  BY DEF EncodeBoolean
<1>2. byte \in Int /\ ((byte # 0) <=> b)
  OBVIOUS
<1> HIDE DEF byte
<1>3. /\ Len(before) \in Nat /\ Len(after) \in Nat
      /\ Len(packet) = Len(before) + 1 + Len(after)
      /\ packet[Len(before) + 1] = byte
  BY <1>2
<1>4. ~(Len(before) + 1 > Len(packet))
  BY <1>3
<1>5. (packet[Len(before) + 1] # 0) = b
  BY <1>2, <1>3
<1> HIDE DEF packet
<1>6. DecodeBoolean(packet, Len(before)) = Result(b, Len(before) + 1)
  BY <1>4, <1>5 DEF DecodeBoolean
<1> QED
  BY <1>1, <1>6 DEF packet
=============================================================================
