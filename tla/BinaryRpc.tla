----------------------------- MODULE BinaryRpc -----------------------------
(***************************************************************************)
(* BinaryRpc, the parser that cuts the byte stream of the socket into      *)
(* packets.  A packet is                                                   *)
(*      B i n  type  size:4  data           or, with type 0x40 and 0x41,   *)
(*      B i n  type  headerSize:4  header  dataSize:4  data                *)
(* A parser is a record of the members that outlive a call; a byte is a    *)
(* number, and those of a size have Base values (see Bytes).  Sizes of     *)
(* 2^31 and more are outside the model (they are larger than both limits,  *)
(* and no sender of this library writes them).                             *)
(***************************************************************************)
EXTENDS Bytes

Magic == <<66, 105, 110>>
MaxHeaderSize == 10485760
MaxDataSize == 104857600

Fresh == [data |-> <<>>, finished |-> FALSE, type |-> "unknown", headerSize |-> 0,
          dataSize |-> 0]

BigEndian(bytes) ==
    ((bytes[1] * Base + bytes[2]) * Base + bytes[3]) * Base + bytes[4]

BytesAt(data, i) == SubSeq(data, i + 1, i + 4)

(* Mutation: a packet that is just complete is taken for short. *)
FillLate(data, chunk, size) ==
    LET n == IF Len(data) + Len(chunk) <= size THEN Len(chunk) ELSE size - Len(data)
    IN  [data  |-> data \o SubSeq(chunk, 1, n),
         rest  |-> IF n > 0 THEN SubSeq(chunk, n + 1, Len(chunk)) ELSE chunk,
         short |-> Len(data) + Len(chunk) <= size]

(* Move bytes from the chunk to the data until the data has size bytes. *)
Fill(data, chunk, size) ==
    LET n == IF Len(data) + Len(chunk) < size THEN Len(chunk) ELSE size - Len(data)
    IN  [data  |-> data \o SubSeq(chunk, 1, n),
         rest  |-> IF n > 0 THEN SubSeq(chunk, n + 1, Len(chunk)) ELSE chunk,
         short |-> Len(data) + Len(chunk) < size]

(* Type and sizes as the first eight bytes give them. *)
HasHeader(data) == data[4] \in {64, 65}

ReadSizes(s, data) ==
    LET size == BigEndian(BytesAt(data, 4))
        s1 == [s EXCEPT !.data = data,
                        !.type = IF data[4] % 2 = 1 THEN "response" ELSE "request"]
    IN  IF HasHeader(data) THEN [s1 EXCEPT !.headerSize = size]
        ELSE [s1 EXCEPT !.dataSize = size]

(* What a call of process comes to: the parser, the bytes not processed,   *)
(* and whether it threw.                                                   *)
Outcome(s, rest, threw) == [parser |-> s, rest |-> rest, threw |-> threw]

(* The sizes are known and s.dataSize counts everything after byte 8. *)
ProcessData(s, chunk) ==
    LET filled == Fill(s.data, chunk, 8 + s.dataSize)
    IN  Outcome([s EXCEPT !.data = filled.data, !.finished = ~filled.short],
                filled.rest, FALSE)

(* Mutation: the four bytes of the second size are not counted. *)
ProcessHeaderOnly(s, chunk) ==
    LET filled == Fill(s.data, chunk, 8 + s.headerSize + 4)
        size == BigEndian(BytesAt(filled.data, 8 + s.headerSize)) + s.headerSize
        s1 == [s EXCEPT !.data = filled.data]
    IN  IF filled.short THEN Outcome(s1, <<>>, FALSE)
        ELSE ProcessData([s1 EXCEPT !.dataSize = size], filled.rest)

(* The packet has a header, of which the second size is not known yet. *)
ProcessHeader(s, chunk) ==
    LET filled == Fill(s.data, chunk, 8 + s.headerSize + 4)
        size == BigEndian(BytesAt(filled.data, 8 + s.headerSize)) + s.headerSize + 4
        s1 == [s EXCEPT !.data = filled.data]
    IN  IF filled.short THEN Outcome(s1, <<>>, FALSE)
        ELSE IF size > MaxDataSize THEN Outcome([s1 EXCEPT !.dataSize = size], <<>>, TRUE)
        ELSE ProcessData([s1 EXCEPT !.dataSize = size], filled.rest)

Process(s, chunk) ==
    LET filled == Fill(s.data, chunk, 8)
        s1 == ReadSizes(s, filled.data)
        fail == [s1 EXCEPT !.finished = TRUE]
    IN  IF chunk = <<>> \/ s.finished THEN Outcome(s, chunk, FALSE)
        ELSE IF filled.short THEN Outcome([s EXCEPT !.data = filled.data], <<>>, FALSE)
        ELSE IF SubSeq(filled.data, 1, 3) # Magic THEN Outcome(fail, <<>>, TRUE)
        ELSE IF \/ HasHeader(filled.data) /\ s1.headerSize > MaxHeaderSize
                \/ ~HasHeader(filled.data) /\ s1.dataSize > MaxDataSize
             THEN Outcome(s1, <<>>, TRUE)
        ELSE IF s1.dataSize = 0 /\ s1.headerSize = 0 THEN Outcome(fail, <<>>, TRUE)
        ELSE IF s1.dataSize = 0 THEN ProcessHeader(s1, filled.rest)
        ELSE ProcessData(s1, filled.rest)
=============================================================================
