------------------------------- MODULE Codec --------------------------------
(***************************************************************************)
(* RpcEncoder, BinaryRpc and RpcDecoder put together: the properties send  *)
(* the Variable of Application through encoder, parser and decoder.        *)
(***************************************************************************)
EXTENDS Application, RpcDecoder

CONSTANTS
    Methods,      \* the names of methods
    Headers       \* the authorizations, not empty

Parser == INSTANCE BinaryRpc

-----------------------------------------------------------------------------
(* What is lost on the way                                                 *)

(* The floats that are not: of the positive ones those with a digit less   *)
(* than what the decoder rounds to, since the mantissa is hardly longer    *)
(* than that; of the negative ones, which are not rounded to so many       *)
(* digits but to so many decimals, those that the mantissa holds.          *)
Exact(x) ==
    IF x.num >= 0
    THEN \E d \in -Digits .. Digits :
            LET y == Times(x, Power(10, d)) IN IsWhole(y) /\ y.num < 10^(Digits - 1)
    ELSE Abs(x.num) < FloatOne /\ \E d \in 0 .. Digits : x.den = 2^d

(* The names under which members travel: an empty one gets a name that     *)
(* another member may have already, which is then the one that is lost.    *)
Renamed(members) ==
    [name \in {NameOf(n) : n \in DOMAIN members} |->
        IF name = Undefined /\ <<>> \in DOMAIN members THEN members[<<>>] ELSE members[name]]

(* What arrives of a value: null pointers as void, integers with the value *)
(* of their 32 bits (FromInteger of a uint32_t keeps more in the other     *)
(* members), errors as the name of the members says.                       *)
RECURSIVE Arrived(_, _)

Arrived(v, w) ==
    LET members == Renamed(v.structValue)
    IN  CASE v = Null -> Void
          [] v # Null /\ v.type = tInteger ->
                IF w THEN FromInteger64(v.integerValue) ELSE FromInteger(v.integerValue)
          [] v # Null /\ v.type = tArray ->
                FromArray([i \in DOMAIN v.arrayValue |-> Arrived(v.arrayValue[i], w)])
          [] v # Null /\ v.type = tStruct ->
                [FromStruct([n \in DOMAIN members |-> Arrived(members[n], w)])
                    EXCEPT !.errorStruct = IsFault(members)]
          [] OTHER -> v

(* No float in the value is rounded. *)
FloatsIn(v) == {w.floatValue : w \in {u \in AllParts(v) \ {Null} : u.type = tFloat}}
Faithful(v) == \A x \in FloatsIn(v) : Exact(x)

(* The overloads for uint8_t reverse the sign of the floats whose exponent *)
(* is one less than the bits of an int.                                    *)
Shiftable(v) == \A x \in FloatsIn(v) : x # Zero => Power(2, Exponent(x)) # Whole(Base^4 \div 2)

-----------------------------------------------------------------------------
(* Properties                                                              *)

Back(v, char) == DecodeResponse(EncodeResponse(v, wide), char)
Unmarked(v) == [v EXCEPT !.errorStruct = FALSE]

(* A response arrives as it was sent, in every member the decoder sets, at *)
(* every depth, apart from what Arrived says and the floats the overloads  *)
(* for uint8_t do not shift right; and decodeResponse in place, which uses *)
(* those, agrees with them.                                                *)
ResponseRoundTrip ==
    Faithful(value) =>
        /\ \A char \in BOOLEAN : char \/ Shiftable(value) =>
              Unmarked(Back(value, char)) = Unmarked(Arrived(value, wide))
        /\ value.type # tBinary =>
              [DecodeInPlace(EncodeResponse(value, wide)) EXCEPT !.binaryValue = <<>>]
                 = Back(value, FALSE)

(* An error arrives as one, and what is no error does not, with the        *)
(* exceptions of the code: a structure of just the members of an error     *)
(* always is one; and an error with more members is none for a decoder of  *)
(* signed chars, in which 0xFF is negative.                                *)
ErrorsTold ==
    LET fault == value.type = tStruct /\ IsFault(Renamed(value.structValue))
    IN  /\ Back(value, TRUE).errorStruct = (fault \/ (value.errorStruct /\ ~SignedChar))
        /\ Back(value, FALSE).errorStruct = (fault \/ value.errorStruct)

(* The elements of an array as parameters, any other value as one. *)
Parameters == IF value.type = tArray THEN value.arrayValue ELSE <<value>>

ArrivesAs(packet, sent, header) ==
    DecodeRequest(packet, TRUE) = sent /\ DecodeHeader(packet) = header

HeaderInserted(bare, packet, sent, header) ==
    /\ ArrivesAs(bare, sent, <<>>) /\ ArrivesAs(packet, sent, header)
    /\ insertHeader(bare, header) = packet

(* A request arrives as it was sent: method, parameters (up to the number  *)
(* the decoder accepts, beyond which there are none) and header; and it    *)
(* does not matter whether the header was there when the request was       *)
(* encoded or was inserted afterwards.                                     *)
RequestRoundTrip ==
    Faithful(value) => \A method \in Methods, header \in Headers :
        LET sent == [methodName |-> method,
                     parameters |-> IF Len(Parameters) > MaxParameters THEN <<>>
                                    ELSE [i \in DOMAIN Parameters |->
                                             Arrived(Parameters[i], wide)]]
        IN  HeaderInserted(EncodeRequest(method, Parameters, <<>>, wide),
                           EncodeRequest(method, Parameters, <<header>>, wide), sent, header)

(* What BinaryRpc makes of a packet and what follows it. *)
Framed(o, packet, type, rest) ==
    /\ ~o.threw /\ o.parser.finished /\ o.parser.type = type
    /\ o.parser.data = packet /\ o.rest = rest

AllFramed(request, response, header) ==
    LET framed(packet, type) ==
            Framed(Parser!Process(Parser!Fresh, packet \o request), packet, type, request)
    IN  /\ framed(request, "request")
        /\ framed(insertHeader(request, header), "request")
        /\ framed(response, "response")
        /\ value.errorStruct \/ framed(insertHeader(response, header), "response")

(* The packets of the encoder are packets to BinaryRpc: when one is        *)
(* followed by others, the parser stops at its end, knows what it is and   *)
(* leaves the rest.  An error with a header inserted would not be one: its *)
(* type byte has no room for the flag.                                     *)
PacketsFramed ==
    \A method \in Methods, header \in Headers :
        AllFramed(EncodeRequest(method, Parameters, <<>>, wide),
                  EncodeResponse(value, wide), header)

(* A copy has the members of the original, and both it and what arrives    *)
(* of a value whose integers are not widened and whose members all have    *)
(* names are equal to the original by operator==; with one exception at    *)
(* any depth: a void equals nothing, not even itself.                      *)
CopiesEqual ==
    LET all == AllParts(value)
        named == \A v \in all \ {Null} : <<>> \notin DOMAIN v.structValue
        noVoid == \A v \in all : v.type # tVoid
    IN  Null \notin all =>
            /\ Copy(value) = value
            /\ Equal(value, Copy(value)) = noVoid
            /\ (Faithful(value) /\ named /\ ~wide) => Equal(value, Back(value, TRUE)) = noVoid
=============================================================================
