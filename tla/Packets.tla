------------------------------ MODULE Packets -------------------------------
(***************************************************************************)
(* RpcEncoder around the data: the packet that holds them, and its header. *)
(* What the data are is in RpcEncoder.                                     *)
(***************************************************************************)
EXTENDS BinaryEncoder

(* "Bin" and the type byte. *)
PacketStart(type) == <<66, 105, 110, type>>
RequestType == 0
ResponseType == 1
ErrorType == 255
HeaderFlag == 64

(* |= 0x40 *)
WithHeaderFlag(packet) ==
    IF (packet[4] \div HeaderFlag) % 2 = 1 THEN packet
    ELSE [packet EXCEPT ![4] = @ + HeaderFlag]

(* The bytes and then the bytes inserted at a position counted from 0. *)
InsertBytes(packet, position, bytes) ==
    SubSeq(packet, 1, position) \o bytes \o SubSeq(packet, position + 1, Len(packet))

(* The name of the only field of a header, and the header: its size, the   *)
(* number of fields and the field.  There is none without authorization.   *)
Authorization == <<97>>

Fields(authorization) ==
    EncodeInteger(1) \o EncodeString(Authorization) \o EncodeString(authorization)

(* Mutation: the size of the header counts its own four bytes. *)
EncodeHeaderCounted(authorization) ==
    IF authorization = <<>> THEN <<>>
    ELSE EncodeInteger(Len(Fields(authorization)) + 4) \o Fields(authorization)

EncodeHeader(authorization) ==
    IF authorization = <<>> THEN <<>>
    ELSE EncodeInteger(Len(Fields(authorization))) \o Fields(authorization)

(* The packet of a request.  header is <<>> for none, or <<authorization>>.*)
(* headerSize counts the four bytes of the header's own size, whether they *)
(* are there or not.                                                       *)
RequestPacket(data, header) ==
    LET encoded == IF header = <<>> THEN <<>> ELSE EncodeHeader(header[1])
        headerSize == IF header = <<>> THEN 0
                      ELSE IF encoded = <<>> THEN 4 ELSE Len(encoded)
        start == PacketStart(RequestType) \o encoded
        packet == (IF headerSize > 0 THEN WithHeaderFlag(start) ELSE start) \o data
        dataSize == Len(packet) - 4 - headerSize
    IN  InsertBytes(packet, 4 + headerSize, EncodeInteger(dataSize))

(* The packet of a response. *)
ResponsePacket(data, error) ==
    PacketStart(IF error THEN ErrorType ELSE ResponseType) \o EncodeInteger(Len(data)) \o data

(* Mutation: the header is put behind the size of the data. *)
InsertHeaderLate(packet, authorization) ==
    IF authorization = <<>> THEN packet
    ELSE InsertBytes(WithHeaderFlag(packet), 8, EncodeHeader(authorization))

insertHeader(packet, authorization) ==
    IF authorization = <<>> THEN packet
    ELSE InsertBytes(WithHeaderFlag(packet), 4, EncodeHeader(authorization))
=============================================================================
