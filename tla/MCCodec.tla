------------------------------ MODULE MCCodec -------------------------------
(* An instance of Codec for TLC, with integers of 16 and 32 bits. *)
EXTENDS JsonCodec, Conversions

Base64(s) == [FromString(s) EXCEPT !.type = tBase64]

(* Numbers, truth values, what JSON escapes, characters of one and two     *)
(* units, stray bytes, a zero, bytes that look like a character, daggers.  *)
MCStrings == {<<>>, <<48>>, <<102>>, <<102, 97, 108, 115, 101>>, <<45, 52, 50>>, <<52, 108, 50>>,
              <<48, 120, 49, 69>>, <<49, 120>>, <<34, 92, 10, 31, 127>>, <<233, 8364, 128512>>,
              <<-228, 65, -129>>, <<49, 0, 50>>, <<65, -192, -128>>, <<8225, 8224, 1234>>}

MCFloats == {Fraction(n, 10^k) : n \in {m \in 1 .. 999 : m % 13 = 1 \/ m > 990}, k \in {1, 3}}
            \cup {Whole(n) : n \in {0, 1, 5, 511, 512, 999, -1, -512, 20000, 15000}}
            \cup {Fraction(-5, 2), Fraction(-3, 16), Fraction(-8191, 16),
                  Fraction(-999, 10), Fraction(9998, 1000), Fraction(1111, 10000)}

MCScalars ==
    {Void}
    \cup {FromInteger(n) : n \in {-32768, -32767, -256, -1, 0, 1, 255, 256, 32767,
                                  32768, 65535}}
    \cup {FromInteger64(n) : n \in {-2147483647, -65536, -1, 0, 32768, 65535, 65536,
                                    214748364, 2147483639, 2147483640, 2147483647}}
    \cup {FromBoolean(b) : b \in BOOLEAN}
    \cup {FromString(s) : s \in MCStrings} \cup {Base64(s) : s \in MCStrings}
    \cup {FromFloat(x) : x \in MCFloats}
    \cup {FromBinary(b) : b \in {<<>>, <<7>>, <<1, 2, 3, 255>>}}

MCCompanions == {Null, Void, FromInteger(65535), FromString(<<102>>)}

MCNames == {<<>>, Undefined, FaultCode, FaultString, <<34>>}
MCMethods == {<<1, 2, 3>>}
MCHeaders == {<<1, 2, 3, 4, 5>>}
=============================================================================
