--------------------------- MODULE MCPacketReader ---------------------------
(* Instances of PacketReader for TLC. *)
EXTENDS PacketReader

MCPackets == {
    <<66, 105, 110, 0, 0, 0, 0, 1, 7>>,                      \* request
    <<66, 105, 110, 1, 0, 0, 0, 2, 7, 8>>,                   \* response
    <<66, 105, 110, 255, 0, 0, 0, 1, 7>>,                    \* error response
    <<66, 105, 110, 64, 0, 0, 0, 1, 5, 0, 0, 0, 2, 7, 8>>,   \* request with header
    <<66, 105, 110, 65, 0, 0, 0, 2, 5, 6, 0, 0, 0, 0>> }     \* header, no data
=============================================================================
