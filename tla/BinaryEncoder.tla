--------------------------- MODULE BinaryEncoder ----------------------------
(***************************************************************************)
(* BinaryEncoder: the bytes of integers, strings and truth values.  Those  *)
(* of floats are in RpcEncoder.  The overloads for vectors of char and of  *)
(* uint8_t do the same.                                                    *)
(***************************************************************************)
EXTENDS Bytes

EncodeInteger(n) == BytesOf(n, 4)
EncodeInteger64(n) == BytesOf(n, 8)
EncodeString(s) == EncodeInteger(Len(s)) \o s
EncodeBoolean(b) == IF b THEN <<1>> ELSE <<0>>
=============================================================================
