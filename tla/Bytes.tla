------------------------------- MODULE Bytes --------------------------------
(***************************************************************************)
(* Integers as bytes, most significant first.  A byte has Base values, 256 *)
(* in the code; TLC's own integers are 32 bits wide, so that the checks    *)
(* take 16 where integers of eight bytes occur.                            *)
(***************************************************************************)
EXTENDS Integers, Sequences

CONSTANT Base

(* A byte has bits, so that Base is even: the first of them is the sign of *)
(* an integer.                                                             *)
ASSUME BytesAssumption == Base \in Nat \ {0} /\ Base % 2 = 0

(* The number of integers of k bytes. *)
Values[k \in Nat] == IF k = 0 THEN 1 ELSE Base * Values[k - 1]

(* The least k bytes of an integer in two's complement: the integer is     *)
(* shifted to the right by one byte after the other.                       *)
BytesOf(n, k) ==
    LET shifted[i \in 0 .. k] == IF i = 0 THEN n ELSE shifted[i - 1] \div Base
    IN  [i \in 1 .. k |-> shifted[k - i] % Base]

(* The integer whose bytes these are. *)
Signed(bytes) ==
    LET top == IF bytes[1] < Base \div 2 THEN bytes[1] ELSE bytes[1] - Base
        read[i \in 1 .. Len(bytes)] ==
            IF i = 1 THEN top ELSE Base * read[i - 1] + bytes[i]
    IN  read[Len(bytes)]

(* The conversion of an integer to one of k bytes. *)
CutTo(n, k) ==
    LET r == n % Values[k] IN IF r < Values[k] \div 2 THEN r ELSE r - Values[k]

Int32(n) == CutTo(n, 4)
=============================================================================
