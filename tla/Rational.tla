------------------------------ MODULE Rational ------------------------------
(* Exact fractions in lowest terms, small enough for TLC's integers.  They *)
(* stand for the doubles of the code, without the noise of their 53 bits,  *)
(* which is below the 31 bits of the RPC format but not always below the   *)
(* 15 decimals of JSON.                                                    *)
EXTENDS Integers

Gcd[a, b \in Nat] == IF b = 0 THEN a ELSE Gcd[b, a % b]

Abs(n) == IF n < 0 THEN -n ELSE n

Fraction(n, d) ==
    LET g == Gcd[Abs(n), d] IN [num |-> n \div g, den |-> d \div g]

Whole(n) == [num |-> n, den |-> 1]
Zero == Whole(0)

IsWhole(x) == x.den = 1

(* b^k, for negative k as well. *)
Power(b, k) == IF k >= 0 THEN Whole(b ^ k) ELSE [num |-> 1, den |-> b ^ (-k)]

(* Reduced before it is multiplied, so that the products stay small. *)
Times(x, y) ==
    LET a == Fraction(x.num, y.den)
        b == Fraction(y.num, x.den)
    IN  [num |-> a.num * b.num, den |-> a.den * b.den]

Less(x, y) == x.num * y.den < y.num * x.den

(* floor(x + 1/2) *)
FloorHalf(x) == (2 * x.num + x.den) \div (2 * x.den)

(* std::lround: to the nearest, halves away from zero. *)
Lround(x) ==
    LET size == Abs(x.num)
        n == size \div x.den + (2 * (size % x.den)) \div x.den
    IN  IF x.num < 0 THEN -n ELSE n

(* To the nearest, halves to the even number. *)
RoundEven(x) ==
    LET n == x.num \div x.den
        half == 2 * (x.num % x.den)
    IN  IF half > x.den \/ (half = x.den /\ n % 2 = 1) THEN n + 1 ELSE n

(* The fractions that are not negative. *)
NonNegative == [num : Nat, den : Nat \ {0}]

(* floor(log10(x) + 1) for x > 0, the digits before the point. *)
Magnitude[x \in NonNegative] ==
    CASE x.num \div 10 >= x.den -> 1 + Magnitude[Fraction(x.num \div 10, x.den)]
      [] x.num >= x.den /\ x.num \div 10 < x.den -> 1
      [] x.num < x.den /\ 10 * x.num >= x.den -> 0
      [] OTHER -> Magnitude[Times(x, Whole(10))] - 1
=============================================================================
