--------------------------- MODULE BinaryDecoder ----------------------------
(***************************************************************************)
(* BinaryDecoder: integers, strings and truth values from their bytes.     *)
(* Floats are in RpcDecoder.  A decoder reads at a position, counted from  *)
(* 0, and moves it: an operator returns what it has read and the position  *)
(* behind it.                                                              *)
(***************************************************************************)
EXTENDS Bytes

Result(value, position) == [value |-> value, position |-> position]

Take(packet, position, n) == SubSeq(packet, position + 1, position + n)

DecodeBytes(packet, position, k) ==
    IF position + k > Len(packet) THEN Result(0, position)
    ELSE Result(Signed(Take(packet, position, k)), position + k)

DecodeInteger(packet, position) == DecodeBytes(packet, position, 4)
DecodeInteger64(packet, position) == DecodeBytes(packet, position, 8)

(* decodeString and decodeBinary *)
DecodeString(packet, position) ==
    LET length == DecodeInteger(packet, position)
        end == length.position + length.value
    IN  IF end > Len(packet) \/ length.value = 0 THEN Result(<<>>, length.position)
        ELSE Result(Take(packet, length.position, length.value), end)

DecodeBoolean(packet, position) ==
    IF position + 1 > Len(packet) THEN Result(FALSE, position)
    ELSE Result(packet[position + 1] # 0, position + 1)
=============================================================================
