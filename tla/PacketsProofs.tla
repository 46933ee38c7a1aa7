--------------------------- MODULE PacketsProofs ----------------------------
(***************************************************************************)
(* Proofs about the packets of RpcEncoder: they are what the parser of the *)
(* reader takes, whatever data and header are in them, so that what is     *)
(* proved of the reader for well-formed packets holds for them.            *)
(***************************************************************************)
EXTENDS PacketReaderProofs, BytesProofs, Packets

(* A byte less is a factor of Base less. *)
LEMMA QuotientBound ==
    ASSUME NEW q \in Int, NEW b \in 0 .. Base - 1, NEW v \in Nat,
           0 <= Base * q + b, Base * q + b < Base * v
    PROVE  0 <= q /\ q < v
<1>1. Base \in Nat \ {0} /\ b \in Int /\ 0 <= b /\ b < Base
  BY BytesAssumption
<1>2. 0 <= q
  <2> SUFFICES ASSUME q <= -1 PROVE FALSE
    OBVIOUS
  <2>1. Base * q <= -Base
    BY <1>1
  <2> QED
    BY <1>1, <2>1
<1>3. q < v
  <2> SUFFICES ASSUME v <= q PROVE FALSE
    OBVIOUS
  <2>1. Base * v <= Base * q
    BY <1>1
  <2> QED
    BY <1>1, <2>1
<1> QED
  BY <1>2, <1>3

(* The sizes of a packet are read as they were written. *)
LEMMA SizeRead ==
    ASSUME NEW n \in Nat, n < Values[4]
    PROVE  BigEndian(EncodeInteger(n)) = n
<1> DEFINE b == EncodeInteger(n)
<1>1. PICK s \in [0 .. 4 -> Int] :
         /\ s[0] = n
         /\ \A i \in 1 .. 4 : s[i] = s[i - 1] \div Base
         /\ BytesOf(n, 4) = [i \in 1 .. 4 |-> s[4 - i] % Base]
  <2>1. n \in Int /\ 4 \in Nat
    OBVIOUS
  <2> QED
    BY <2>1, Shifted
<1>2. /\ b[1] = s[3] % Base /\ b[2] = s[2] % Base
      /\ b[3] = s[1] % Base /\ b[4] = s[0] % Base
  BY <1>1 DEF EncodeInteger
<1> HIDE DEF b
<1>3. /\ s[1] = s[0] \div Base /\ s[2] = s[1] \div Base
      /\ s[3] = s[2] \div Base /\ s[4] = s[3] \div Base
  BY <1>1
<1>4. \A i \in 0 .. 4 : s[i] \in Int
  BY <1>1
<1>5. /\ s[0] \in Int /\ s[1] \in Int /\ s[2] \in Int /\ s[3] \in Int /\ s[4] \in Int
      /\ Base \in Nat \ {0}
  BY <1>4, BytesAssumption
<1>6. /\ s[0] = Base * s[1] + b[4] /\ b[4] \in 0 .. Base - 1
      /\ s[1] = Base * s[2] + b[3] /\ b[3] \in 0 .. Base - 1
      /\ s[2] = Base * s[3] + b[2] /\ b[2] \in 0 .. Base - 1
      /\ s[3] = Base * s[4] + b[1] /\ b[1] \in 0 .. Base - 1
  BY <1>2, <1>3, <1>5, DivMod
<1>7. s[4] = 0
  <2>1. /\ Values[1] = Base /\ Values[2] = Base * Values[1]
        /\ Values[3] = Base * Values[2] /\ Values[4] = Base * Values[3]
    <3>1. \A k \in Nat : Values[k + 1] = Base * Values[k]
      BY ValuesFacts
    <3>2. /\ Values[0 + 1] = Base * Values[0] /\ Values[1 + 1] = Base * Values[1]
          /\ Values[2 + 1] = Base * Values[2] /\ Values[3 + 1] = Base * Values[3]
      BY <3>1
    <3> QED
      BY <3>2, ValuesFacts, BytesAssumption
  <2>2. Values[1] \in Nat /\ Values[2] \in Nat /\ Values[3] \in Nat
    BY ValuesFacts
  <2>3. 0 <= s[1] /\ s[1] < Values[3]
    <3>1. s[0] = n /\ 0 <= n /\ n < Values[4]
      BY <1>1
    <3>2. 0 <= Base * s[1] + b[4] /\ Base * s[1] + b[4] < Base * Values[3]
      BY <1>6, <2>1, <3>1
    <3> QED
      BY <1>5, <1>6, <2>2, <3>2, QuotientBound
  <2>4. 0 <= s[2] /\ s[2] < Values[2]
    BY <1>5, <1>6, <2>1, <2>2, <2>3, QuotientBound
  <2>5. 0 <= s[3] /\ s[3] < Values[1]
    BY <1>5, <1>6, <2>1, <2>2, <2>4, QuotientBound
  <2>6. 0 <= s[4] /\ s[4] < 1
    <3>1. Values[1] = Base * 1 /\ 1 \in Nat
      BY <1>5, <2>1
    <3> QED
      BY <1>5, <1>6, <2>5, <3>1, QuotientBound
  <2> QED
    BY <1>5, <2>6
<1>8. b[1] = s[3]
  BY <1>5, <1>6, <1>7
<1>9. ((b[1] * Base + b[2]) * Base + b[3]) * Base + b[4] = n
  <2>1. b[1] * Base + b[2] = s[2]
    BY <1>5, <1>6, <1>8
  <2>2. s[2] * Base + b[3] = s[1]
    BY <1>5, <1>6
  <2>3. s[1] * Base + b[4] = s[0]
    BY <1>5, <1>6
  <2> QED
    BY <1>1, <2>1, <2>2, <2>3
<1> QED
  BY <1>9 DEF BigEndian, b

-----------------------------------------------------------------------------
(* Putting a packet together *)

(* Bytes inserted between two parts are between them. *)
Inserted(a, b, c) == InsertBytes(a \o c, Len(a), b) = a \o b \o c

LEMMA Insertion ==
    ASSUME NEW a \in Seq(Int), NEW b \in Seq(Int), NEW c \in Seq(Int)
    PROVE  Inserted(a, b, c)
<1> DEFINE ac == a \o c
           first == SubSeq(ac, 1, Len(a))
           second == SubSeq(ac, Len(a) + 1, Len(ac))
<1>1. /\ Len(a) \in Nat /\ Len(c) \in Nat
      /\ ac \in Seq(Int) /\ Len(ac) = Len(a) + Len(c)
      /\ \A i \in 1 .. Len(a) : ac[i] = a[i]
      /\ \A i \in 1 .. Len(c) : ac[Len(a) + i] = c[i]
  OBVIOUS
<1> HIDE DEF ac
<1>2. first = a
  <2>1. first \in Seq(Int) /\ Len(first) = Len(a)
    BY <1>1
  <2>2. \A i \in 1 .. Len(a) : first[i] = ac[1 + i - 1] /\ 1 + i - 1 = i
    BY <1>1
  <2> HIDE DEF first
  <2> QED
    BY <1>1, <2>1, <2>2, SeqEqual
<1>3. second = c
  <2>1. second \in Seq(Int) /\ Len(second) = Len(c)
    BY <1>1
  <2>2. \A i \in 1 .. Len(c) : second[i] = ac[(Len(a) + 1) + i - 1]
                               /\ (Len(a) + 1) + i - 1 = Len(a) + i
    BY <1>1
  <2> HIDE DEF second
  <2> QED
    BY <1>1, <2>1, <2>2, SeqEqual
<1> QED
  BY <1>2, <1>3 DEF Inserted, InsertBytes, ac

Associative(a, b, c) == a \o (b \o c) = a \o b \o c

LEMMA Association ==
    ASSUME NEW a \in Seq(Int), NEW b \in Seq(Int), NEW c \in Seq(Int)
    PROVE  Associative(a, b, c) /\ a \o b \in Seq(Int)
BY SMTT(30) DEF Associative

Joined(a, b) ==
    /\ a \o b \in Seq(Int)
    /\ Len(a) \in Nat /\ Len(b) \in Nat /\ Len(a \o b) = Len(a) + Len(b)
    /\ \A i \in 1 .. Len(a) : (a \o b)[i] = a[i]
    /\ \A i \in 1 .. Len(b) : (a \o b)[Len(a) + i] = b[i]

LEMMA Joining ==
    ASSUME NEW a \in Seq(Int), NEW b \in Seq(Int)
    PROVE  Joined(a, b)
BY DEF Joined

LEMMA Concatenation ==
    ASSUME NEW a \in Seq(Int), NEW b \in Seq(Int)
    PROVE  \E c \in Seq(Int) : c = a \o b /\ Joined(a, b)
<1>1. a \o b \in Seq(Int)
  OBVIOUS
<1>2. Joined(a, b)
  BY Joining
<1> WITNESS a \o b \in Seq(Int)
<1> QED
  BY <1>2

(* The packets, without and with a header. *)
Bare(type, data) == PacketStart(type) \o EncodeInteger(Len(data)) \o data

Headed(type, fields, data) ==
    PacketStart(type) \o (EncodeInteger(Len(fields)) \o fields)
        \o EncodeInteger(Len(data)) \o data

LEMMA Start ==
    ASSUME NEW type \in Int
    PROVE  PacketStart(type) \in Seq(Int) /\ Len(PacketStart(type)) = 4
BY DEF PacketStart

LEMMA FieldsType ==
    ASSUME NEW h \in Seq(Int)
    PROVE  Fields(h) \in Seq(Int) /\ Len(Fields(h)) = 13 + Len(h)
<1>1. /\ EncodeInteger(1) \in Seq(Int) /\ Len(EncodeInteger(1)) = 4
      /\ EncodeInteger(Len(h)) \in Seq(Int) /\ Len(EncodeInteger(Len(h))) = 4
      /\ Len(h) \in Nat
  <2>1. 1 \in Int /\ Len(h) \in Int /\ Len(h) \in Nat
    OBVIOUS
  <2> QED
    BY <2>1, EncodeIntegerType
<1>2. Authorization \in Seq(Int) /\ Len(Authorization) = 1
  BY DEF Authorization
<1>3. EncodeInteger(Len(Authorization)) = EncodeInteger(1)
  BY <1>2
<1> DEFINE one == EncodeInteger(1)
           size == EncodeInteger(Len(h))
           name == Authorization
<1>4. Fields(h) = one \o (one \o name) \o (size \o h)
  BY <1>3 DEF Fields, EncodeString
<1> HIDE DEF one, size, name
<1>5. one \in Seq(Int) /\ Len(one) = 4 /\ size \in Seq(Int) /\ Len(size) = 4
      /\ name \in Seq(Int) /\ Len(name) = 1
  BY <1>1, <1>2 DEF one, size, name
<1>6. Joined(one, name) /\ Joined(size, h)
  BY <1>5, Joining
<1>7. Joined(one, one \o name)
  BY <1>5, <1>6, Joining DEF Joined
<1>8. Joined(one \o (one \o name), size \o h)
  <2>1. one \o (one \o name) \in Seq(Int) /\ size \o h \in Seq(Int)
    BY <1>6, <1>7 DEF Joined
  <2> QED
    BY <2>1, Joining
<1>9. /\ Len((one \o (one \o name)) \o (size \o h)) = 13 + Len(h)
      /\ (one \o (one \o name)) \o (size \o h) \in Seq(Int)
  BY <1>1, <1>5, <1>6, <1>7, <1>8 DEF Joined
<1> QED
  BY <1>4, <1>9

(* encodeRequest without a header. *)
LEMMA BareRequest ==
    ASSUME NEW data \in Seq(Int)
    PROVE  RequestPacket(data, <<>>) = Bare(RequestType, data)
<1> DEFINE start == PacketStart(RequestType)
           packet == start \o data
<1>1. start \in Seq(Int) /\ Len(start) = 4
  BY Start DEF RequestType
<1>2. start \o <<>> = start
  BY <1>1
<1> HIDE DEF start
<1>3. Len(packet) = 4 + Len(data) /\ Len(data) \in Nat
  <2>1. Joined(start, data)
    BY <1>1, Joining
  <2> QED
    BY <1>1, <2>1 DEF Joined
<1>4. Len(packet) - 4 - 0 = Len(data) /\ ~(0 > 0) /\ 4 + 0 = Len(start)
  BY <1>1, <1>3
<1>5. RequestPacket(data, <<>>) = InsertBytes(packet, Len(start), EncodeInteger(Len(data)))
  BY <1>2, <1>4 DEF RequestPacket, start
<1>6. EncodeInteger(Len(data)) \in Seq(Int)
  <2>1. Len(data) \in Int
    BY <1>3
  <2> QED
    BY <2>1, EncodeIntegerType
<1>7. Inserted(start, EncodeInteger(Len(data)), data)
  BY <1>1, <1>6, Insertion
<1> QED
  BY <1>5, <1>7 DEF Inserted, Bare, start

(* The flag is set in the type byte, and nothing else changes. *)
LEMMA Flagging ==
    ASSUME NEW type \in {RequestType, ResponseType}, NEW rest \in Seq(Int),
           NEW first \in Seq(Int), first = PacketStart(type), Len(first) = 4,
           NEW flagged \in Seq(Int), flagged = PacketStart(type + HeaderFlag),
           Len(flagged) = 4
    PROVE  /\ WithHeaderFlag(first \o rest) = flagged \o rest
           /\ Len(first \o rest) = 4 + Len(rest)
           /\ Len(flagged \o rest) = 4 + Len(rest)
<1>1. PICK bare \in Seq(Int) : bare = first \o rest /\ Joined(first, rest)
  BY Concatenation
<1>2. PICK start \in Seq(Int) : start = flagged \o rest /\ Joined(flagged, rest)
  BY Concatenation
<1>3. type \in {0, 1} /\ HeaderFlag = 64 /\ Len(rest) \in Nat
  BY DEF RequestType, ResponseType, HeaderFlag
<1>4. /\ Len(bare) = 4 + Len(rest)
      /\ \A i \in 1 .. 4 : bare[i] = first[i]
      /\ \A i \in 1 .. Len(rest) : bare[4 + i] = rest[i]
  BY <1>1 DEF Joined
<1>5. /\ Len(start) = 4 + Len(rest)
      /\ \A i \in 1 .. 4 : start[i] = flagged[i]
      /\ \A i \in 1 .. Len(rest) : start[4 + i] = rest[i]
  BY <1>2 DEF Joined
<1>6. /\ first[4] = type /\ flagged[4] = type + 64
      /\ first[1] = flagged[1] /\ first[2] = flagged[2] /\ first[3] = flagged[3]
  BY <1>3 DEF PacketStart
<1>7. ASSUME NEW i \in 1 .. 4 + Len(rest), i # 4 PROVE start[i] = bare[i]
  <2>1. CASE i = 1 \/ i = 2 \/ i = 3
    <3>1. i \in 1 .. 4
      BY <2>1
    <3>2. bare[i] = first[i] /\ start[i] = flagged[i]
      BY <1>4, <1>5, <3>1
    <3> QED
      BY <1>6, <2>1, <3>2
  <2>2. CASE i > 4
    <3>1. PICK j \in 1 .. Len(rest) : i = 4 + j
      <4>1. i - 4 \in 1 .. Len(rest) /\ i = 4 + (i - 4)
        BY <1>3, <2>2
      <4> QED
        BY <4>1
    <3> QED
      BY <1>4, <1>5, <3>1
  <2> QED
    BY <1>3, <1>7, <2>1, <2>2
<1>8. bare[4] = type /\ start[4] = type + 64
  <2>1. 4 \in 1 .. 4
    OBVIOUS
  <2>2. bare[4] = first[4] /\ start[4] = flagged[4]
    BY <1>4, <1>5, <2>1
  <2> QED
    BY <1>6, <2>2
<1>9. WithHeaderFlag(bare) = [bare EXCEPT ![4] = @ + 64]
  <2>1. (bare[4] \div HeaderFlag) % 2 # 1
    <3>1. (0 \div 64) % 2 # 1 /\ (1 \div 64) % 2 # 1
      OBVIOUS
    <3> QED
      BY <1>3, <1>8, <3>1
  <2> QED
    BY <1>3, <2>1 DEF WithHeaderFlag
<1>10. PICK changed : changed = [bare EXCEPT ![4] = @ + 64]
  OBVIOUS
<1>11. changed \in Seq(Int) /\ Len(changed) = 4 + Len(rest)
       /\ \A i \in 1 .. 4 + Len(rest) : changed[i] = IF i = 4 THEN bare[4] + 64 ELSE bare[i]
  BY <1>3, <1>4, <1>8, <1>10
<1>12. changed = start
  <2>1. \A i \in 1 .. Len(changed) : changed[i] = start[i]
    BY <1>3, <1>7, <1>8, <1>11
  <2> QED
    BY SMTT(30), <1>5, <1>11, <2>1, SeqEqual
<1> QED
  BY <1>1, <1>2, <1>4, <1>5, <1>9, <1>10, <1>12

(* encodeRequest with a header. *)
LEMMA HeadedRequest ==
    ASSUME NEW data \in Seq(Int), NEW h \in Seq(Int), h # <<>>
    PROVE  RequestPacket(data, <<h>>) = Headed(RequestType + HeaderFlag, Fields(h), data)
<1>1. PICK fields \in Seq(Int) : fields = Fields(h) /\ Len(fields) = 13 + Len(h)
  BY FieldsType
<1>2. PICK length \in Seq(Int) : length = EncodeInteger(Len(fields)) /\ Len(length) = 4
  <2>1. Len(fields) \in Int
    OBVIOUS
  <2> QED
    BY <2>1, EncodeIntegerType
<1>3. PICK size \in Seq(Int) : size = EncodeInteger(Len(data))
  <2>1. Len(data) \in Int
    OBVIOUS
  <2> QED
    BY <2>1, EncodeIntegerType
<1>4. PICK encoded \in Seq(Int) : encoded = length \o fields /\ Joined(length, fields)
  BY Concatenation
<1>5. Len(encoded) = 17 + Len(h) /\ Len(encoded) \in Nat /\ Len(h) \in Nat /\ encoded # <<>>
  <2>1. Len(encoded) = Len(length) + Len(fields) /\ Len(h) \in Nat
    BY <1>4 DEF Joined
  <2>2. Len(encoded) = 17 + Len(h)
    BY <1>1, <1>2, <2>1
  <2>3. Len(<<>>) = 0
    OBVIOUS
  <2> QED
    BY <2>1, <2>2, <2>3
<1>6. EncodeHeader(h) = encoded
  BY <1>1, <1>2, <1>4 DEF EncodeHeader
<1>7. PICK first \in Seq(Int) : first = PacketStart(RequestType) /\ Len(first) = 4
  BY Start DEF RequestType
<1>8. PICK flagged \in Seq(Int) :
        flagged = PacketStart(RequestType + HeaderFlag) /\ Len(flagged) = 4
  BY Start DEF RequestType, HeaderFlag
<1>9. PICK bare \in Seq(Int) : bare = first \o encoded /\ Joined(first, encoded)
  BY Concatenation
<1>10. PICK start \in Seq(Int) : start = flagged \o encoded /\ Joined(flagged, encoded)
  BY Concatenation
<1>11. Len(start) = 4 + Len(encoded) /\ WithHeaderFlag(bare) = start
  <2>1. RequestType \in {RequestType, ResponseType}
    OBVIOUS
  <2>2. /\ WithHeaderFlag(first \o encoded) = flagged \o encoded
        /\ Len(flagged \o encoded) = 4 + Len(encoded)
    BY <1>7, <1>8, <2>1, Flagging
  <2> QED
    BY <1>9, <1>10, <2>2
<1>12. PICK packet \in Seq(Int) : packet = start \o data /\ Joined(start, data)
  BY Concatenation
<1>13. Len(packet) - 4 - Len(encoded) = Len(data) /\ Len(encoded) > 0
  BY <1>5, <1>11, <1>12 DEF Joined
<1>14. RequestPacket(data, <<h>>) = InsertBytes(packet, Len(start), size)
  <2>1. <<h>> # <<>> /\ <<h>>[1] = h
    OBVIOUS
  <2> QED
    BY <1>3, <1>5, <1>6, <1>7, <1>9, <1>11, <1>12, <1>13, <2>1 DEF RequestPacket
<1>15. Inserted(start, size, data)
  BY Insertion
<1> QED
  BY <1>1, <1>2, <1>3, <1>4, <1>8, <1>10, <1>12, <1>14, <1>15 DEF Inserted, Headed

-----------------------------------------------------------------------------
(* The packets are well-formed                                             *)

(* A packet starts with the magic bytes and its type. *)
Starts(p, type) == SubSeq(p, 1, 3) = Magic /\ p[4] = type

LEMMA StartsWith ==
    ASSUME NEW type \in Int, NEW first \in Seq(Int), NEW rest \in Seq(Int),
           first = PacketStart(type), Len(first) = 4
    PROVE  Starts(first \o rest, type)
<1>1. PICK p \in Seq(Int) : p = first \o rest /\ Joined(first, rest)
  BY Concatenation
<1>2. Len(p) = 4 + Len(rest) /\ Len(rest) \in Nat
      /\ \A i \in 1 .. 4 : p[i] = first[i]
  BY <1>1 DEF Joined
<1>3. p[1] = first[1] /\ p[2] = first[2] /\ p[3] = first[3] /\ p[4] = first[4]
  <2>1. 1 \in 1 .. 4 /\ 2 \in 1 .. 4 /\ 3 \in 1 .. 4 /\ 4 \in 1 .. 4
    OBVIOUS
  <2> QED
    BY <1>2, <2>1
<1>4. first[1] = 66 /\ first[2] = 105 /\ first[3] = 110 /\ first[4] = type
  BY DEF PacketStart
<1>5. PICK s : s = SubSeq(p, 1, 3)
  OBVIOUS
<1>6. s \in Seq(Int) /\ Len(s) = 3 /\ s[1] = p[1] /\ s[2] = p[2] /\ s[3] = p[3]
  BY <1>2, <1>5
<1>7. s = Magic
  <2>1. Magic \in Seq(Int) /\ Len(Magic) = 3
        /\ Magic[1] = 66 /\ Magic[2] = 105 /\ Magic[3] = 110
    BY DEF Magic
  <2> HIDE DEF Magic
  <2>2. ASSUME NEW i \in 1 .. Len(s) PROVE s[i] = Magic[i]
    <3>1. i = 1 \/ i = 2 \/ i = 3
      BY <1>6
    <3> QED
      BY SMTT(30), <1>3, <1>4, <1>6, <2>1, <3>1
  <2> QED
    <3>1. Len(s) = Len(Magic)
      BY <1>6, <2>1
    <3> QED
      BY <1>6, <2>1, <2>2, <3>1, SeqEqual
<1> QED
  BY <1>1, <1>3, <1>4, <1>5, <1>7 DEF Starts

(* What a byte of the encoder is to the reader. *)
EightBits == Base <= 256

LEMMA EncodedBytes ==
    ASSUME EightBits, NEW n \in Nat
    PROVE  EncodeInteger(n) \in Seq(Byte)
<1>1. ByteValues \subseteq Byte
  BY BytesAssumption DEF EightBits, ByteValues, Byte
<1>2. EncodeInteger(n) \in Seq(ByteValues)
  <2>1. 4 \in Nat /\ n \in Int
    OBVIOUS
  <2> QED
    BY <2>1, BytesOfType DEF EncodeInteger
<1> QED
  BY <1>1, <1>2, SeqMonotonic

LEMMA StartBytes ==
    ASSUME NEW type \in Byte
    PROVE  PacketStart(type) \in Seq(Byte)
BY DEF PacketStart, Byte

LEMMA BytesAreIntegers == Seq(Byte) \subseteq Seq(Int) /\ Byte \subseteq Int
<1>1. Byte \subseteq Int
  BY DEF Byte
<1> QED
  BY <1>1, SeqMonotonic

(* The sizes the format can express and the parser accepts. *)
Sizes(limit) == {n \in 1 .. limit : n < Values[4]}

LEMMA BareWellFormed ==
    ASSUME EightBits, NEW type \in {0, 1, 255}, NEW data \in Seq(Byte),
           Len(data) \in Sizes(MaxDataSize)
    PROVE  Bare(type, data) \in WellFormedPackets /\ Bare(type, data)[4] = type
<1>1. /\ Len(data) \in Nat /\ Len(data) < Values[4] /\ Len(data) \in 1 .. MaxDataSize
      /\ data \in Seq(Int) /\ type \in Byte /\ type \in Int
  BY BytesAreIntegers DEF Sizes, Byte
<1>2. PICK first \in Seq(Int) : first = PacketStart(type) /\ Len(first) = 4 /\ first \in Seq(Byte)
  BY <1>1, Start, StartBytes
<1>3. PICK size \in Seq(Int) :
        size = EncodeInteger(Len(data)) /\ Len(size) = 4 /\ size \in Seq(Byte)
  BY <1>1, EncodeIntegerType, EncodedBytes
<1>4. BigEndian(size) = Len(data)
  BY <1>1, <1>3, SizeRead
<1>5. PICK rest \in Seq(Int) : rest = size \o data
  BY <1>1, Concatenation
<1>6. PICK p : p = first \o size \o data
  OBVIOUS
<1>7. p = first \o rest
  <2>1. Associative(first, size, data)
    BY <1>1, Association
  <2> QED
    BY <1>5, <1>6, <2>1 DEF Associative
<1>8. SubSeq(p, 1, 3) = Magic /\ p[4] = type
  <2>1. Starts(p, type)
    BY <1>1, <1>2, <1>7, StartsWith
  <2> QED
    BY <2>1 DEF Starts
<1>9. Len(p) = 8 + Len(data) /\ Take(p, 4, 4) = size
  <2>1. InMiddle(p, first, size, data)
    BY <1>1, <1>6, Middle
  <2> QED
    BY <1>1, <1>2, <1>3, <2>1 DEF InMiddle
<1>10. SizeOf(p) = Len(data)
  <2>1. BytesAt(p, 4) = size
    BY <1>9 DEF Take, BytesAt
  <2> QED
    BY <1>4, <2>1 DEF SizeOf
<1>11. ~HasHeader(p)
  BY <1>8 DEF HasHeader
<1>12. p \in Seq(Byte)
  <2>1. first \o size \in Seq(Byte)
    BY <1>2, <1>3
  <2> QED
    BY <1>6, <2>1
<1>13. Len(p) >= 8
  BY <1>1, <1>9
<1>14. WellFormed(p)
  BY <1>1, <1>8, <1>9, <1>10, <1>11, <1>13 DEF WellFormed
<1> QED
  BY <1>2, <1>3, <1>6, <1>8, <1>12, <1>14 DEF Bare, WellFormedPackets

LEMMA HeadedWellFormed ==
    ASSUME EightBits, NEW type \in {64, 65}, NEW data \in Seq(Byte), NEW fields \in Seq(Byte),
           Len(data) \in Sizes(MaxDataSize), Len(fields) \in Sizes(MaxHeaderSize),
           4 + Len(fields) + Len(data) <= MaxDataSize
    PROVE  Headed(type, fields, data) \in WellFormedPackets
           /\ Headed(type, fields, data)[4] = type
<1>1. /\ Len(data) \in Nat /\ Len(data) < Values[4]
      /\ Len(fields) \in Nat /\ Len(fields) < Values[4] /\ Len(fields) \in 1 .. MaxHeaderSize
      /\ data \in Seq(Int) /\ fields \in Seq(Int) /\ type \in Byte /\ type \in Int
  BY BytesAreIntegers DEF Sizes, Byte
<1>2. PICK first \in Seq(Int) : first = PacketStart(type) /\ Len(first) = 4 /\ first \in Seq(Byte)
  BY <1>1, Start, StartBytes
<1>3. PICK size \in Seq(Int) :
        size = EncodeInteger(Len(data)) /\ Len(size) = 4 /\ size \in Seq(Byte)
  BY <1>1, EncodeIntegerType, EncodedBytes
<1>4. PICK length \in Seq(Int) :
        length = EncodeInteger(Len(fields)) /\ Len(length) = 4 /\ length \in Seq(Byte)
  BY <1>1, EncodeIntegerType, EncodedBytes
<1>5. BigEndian(size) = Len(data) /\ BigEndian(length) = Len(fields)
  BY <1>1, <1>3, <1>4, SizeRead
<1>6. PICK header \in Seq(Int) : header = length \o fields /\ Joined(length, fields)
  BY <1>1, Concatenation
<1>7. PICK before \in Seq(Int) : before = first \o header /\ Joined(first, header)
  BY Concatenation
<1>8. Len(before) = 8 + Len(fields)
  BY <1>1, <1>2, <1>4, <1>6, <1>7 DEF Joined
<1>9. PICK end \in Seq(Int) : end = size \o data
  BY <1>1, Concatenation
<1>10. PICK rest \in Seq(Int) : rest = fields \o end
  BY <1>1, Concatenation
<1>11. PICK tail \in Seq(Int) : tail = header \o end
  BY Concatenation
<1>12. PICK p : p = before \o size \o data
  OBVIOUS
<1>13. p = before \o end
  <2>1. Associative(before, size, data)
    BY <1>1, Association
  <2> QED
    BY <1>9, <1>12, <2>1 DEF Associative
<1>14. p = first \o tail
  <2>1. Associative(first, header, end)
    BY Association
  <2> QED
    BY <1>7, <1>11, <1>13, <2>1 DEF Associative
<1>15. p = first \o length \o rest
  <2>1. tail = length \o rest
    <3>1. Associative(length, fields, end)
      BY <1>1, Association
    <3> QED
      BY <1>6, <1>10, <1>11, <3>1 DEF Associative
  <2>2. Associative(first, length, rest)
    BY Association
  <2> QED
    BY <1>14, <2>1, <2>2 DEF Associative
<1>16. SubSeq(p, 1, 3) = Magic /\ p[4] = type
  <2>1. Starts(p, type)
    BY <1>1, <1>2, <1>14, StartsWith
  <2> QED
    BY <2>1 DEF Starts
<1>17. Take(p, 4, 4) = length
  <2>1. InMiddle(p, first, length, rest)
    BY <1>15, Middle
  <2> QED
    BY <1>2, <1>4, <2>1 DEF InMiddle
<1>18. Len(p) = 12 + Len(fields) + Len(data) /\ Take(p, 8 + Len(fields), 4) = size
  <2>1. InMiddle(p, before, size, data)
    BY <1>1, <1>12, Middle
  <2> QED
    BY <1>1, <1>3, <1>8, <2>1 DEF InMiddle
<1>19. SizeOf(p) = Len(fields)
  <2>1. BytesAt(p, 4) = length
    BY <1>17 DEF Take, BytesAt
  <2> QED
    BY <1>5, <2>1 DEF SizeOf
<1>20. BigEndian(BytesAt(p, 8 + SizeOf(p))) = Len(data)
  <2>1. BytesAt(p, 8 + Len(fields)) = size
    BY <1>18 DEF Take, BytesAt
  <2> QED
    BY <1>5, <1>19, <2>1
<1>21. HasHeader(p)
  BY <1>16 DEF HasHeader
<1>22. p \in Seq(Byte)
  <2>1. header \in Seq(Byte)
    BY <1>4, <1>6
  <2>2. before \in Seq(Byte)
    BY <1>2, <1>7, <2>1
  <2>3. before \o size \in Seq(Byte)
    BY <1>3, <2>2
  <2> QED
    BY <1>12, <2>3
<1>23. WellFormed(p)
  <2>1. Len(p) >= 8 /\ Len(p) >= 12 + SizeOf(p) /\ Len(p) <= 8 + MaxDataSize
        /\ Len(p) = 12 + SizeOf(p) + BigEndian(BytesAt(p, 8 + SizeOf(p)))
    <3>1. MaxDataSize \in Int
      BY SMT DEF MaxDataSize
    <3>2. Len(p) = 12 + SizeOf(p) + Len(data)
      BY <1>18, <1>19
    <3>3. Len(p) >= 8 /\ Len(p) >= 12 + SizeOf(p) /\ Len(p) <= 8 + MaxDataSize
      BY SMTT(30), <1>1, <1>19, <3>1, <3>2
    <3> QED
      BY <1>20, <3>2, <3>3
  <2> QED
    BY <1>1, <1>16, <1>19, <1>21, <2>1 DEF WellFormed
<1> QED
  BY <1>2, <1>3, <1>4, <1>6, <1>7, <1>12, <1>16, <1>22, <1>23 DEF Headed, WellFormedPackets

-----------------------------------------------------------------------------
(* Requests, responses, and headers inserted in them                       *)

(* insertHeader in a packet without a header. *)
LEMMA HeaderPutIn ==
    ASSUME NEW type \in {RequestType, ResponseType}, NEW data \in Seq(Int),
           NEW h \in Seq(Int), h # <<>>
    PROVE  insertHeader(Bare(type, data), h) = Headed(type + HeaderFlag, Fields(h), data)
<1>1. PICK fields \in Seq(Int) : fields = Fields(h) /\ Len(fields) = 13 + Len(h)
  BY FieldsType
<1>2. PICK length \in Seq(Int) : length = EncodeInteger(Len(fields)) /\ Len(length) = 4
  <2>1. Len(fields) \in Int
    OBVIOUS
  <2> QED
    BY <2>1, EncodeIntegerType
<1>3. PICK size \in Seq(Int) : size = EncodeInteger(Len(data))
  <2>1. Len(data) \in Int
    OBVIOUS
  <2> QED
    BY <2>1, EncodeIntegerType
<1>4. PICK encoded \in Seq(Int) : encoded = length \o fields
  BY Concatenation
<1>5. EncodeHeader(h) = encoded
  BY <1>1, <1>2, <1>4 DEF EncodeHeader
<1>6. type \in Int /\ type + HeaderFlag \in Int
  BY DEF RequestType, ResponseType, HeaderFlag
<1>7. PICK first \in Seq(Int) : first = PacketStart(type) /\ Len(first) = 4
  BY <1>6, Start
<1>8. PICK flagged \in Seq(Int) : flagged = PacketStart(type + HeaderFlag) /\ Len(flagged) = 4
  BY <1>6, Start
<1>9. PICK rest \in Seq(Int) : rest = size \o data
  BY Concatenation
<1>10. Bare(type, data) = first \o rest
  <2>1. Associative(first, size, data)
    BY Association
  <2> QED
    BY <1>3, <1>7, <1>9, <2>1 DEF Associative, Bare
<1>11. WithHeaderFlag(Bare(type, data)) = flagged \o rest
  <2>1. WithHeaderFlag(first \o rest) = flagged \o rest
    BY <1>7, <1>8, Flagging
  <2> QED
    BY <1>10, <2>1
<1>12. insertHeader(Bare(type, data), h) = InsertBytes(flagged \o rest, Len(flagged), encoded)
  BY <1>5, <1>8, <1>11 DEF insertHeader
<1>13. Inserted(flagged, encoded, rest)
  BY Insertion
<1>14. PICK before \in Seq(Int) : before = flagged \o encoded
  BY Concatenation
<1>15. Associative(before, size, data)
  BY Association
<1> QED
  BY <1>1, <1>2, <1>3, <1>4, <1>8, <1>9, <1>12, <1>13, <1>14, <1>15
  DEF Inserted, Headed, Associative

LEMMA ResponseIsBare ==
    ASSUME NEW data \in Seq(Int)
    PROVE  /\ ResponsePacket(data, FALSE) = Bare(ResponseType, data)
           /\ ResponsePacket(data, TRUE) = Bare(ErrorType, data)
BY DEF ResponsePacket, Bare

(* It does not matter whether the header was there when the request was    *)
(* encoded (RpcEncoder::encodeRequest) or is inserted afterwards           *)
(* (RpcEncoder::insertHeader): the packets are the same, byte for byte.    *)
THEOREM HeaderInsertedLater ==
    ASSUME NEW data \in Seq(Int), NEW h \in Seq(Int), h # <<>>
    PROVE  insertHeader(RequestPacket(data, <<>>), h) = RequestPacket(data, <<h>>)
<1>1. RequestType \in {RequestType, ResponseType}
  OBVIOUS
<1> QED
  BY <1>1, BareRequest, HeadedRequest, HeaderPutIn

(* The packets the encoder makes of data and an authorization. *)
SentRequests(data, h) ==
    {RequestPacket(data, <<>>), RequestPacket(data, <<h>>),
     insertHeader(RequestPacket(data, <<>>), h)}

SentResponses(data, h) ==
    {ResponsePacket(data, FALSE), ResponsePacket(data, TRUE),
     insertHeader(ResponsePacket(data, FALSE), h)}

(* Data and authorization of a length the format and the parser allow. *)
Sendable(data, h) ==
    /\ data \in Seq(Byte) /\ h \in Seq(Byte) /\ h # <<>>
    /\ Len(data) \in Sizes(MaxDataSize)
    /\ 13 + Len(h) \in Sizes(MaxHeaderSize)
    /\ 4 + (13 + Len(h)) + Len(data) <= MaxDataSize

LEMMA FieldsBytes ==
    ASSUME EightBits, NEW h \in Seq(Byte)
    PROVE  Fields(h) \in Seq(Byte)
<1>1. Authorization \in Seq(Byte) /\ Len(Authorization) \in Nat /\ Len(h) \in Nat
  BY DEF Authorization, Byte
<1>2. PICK one \in Seq(Byte) : one = EncodeInteger(1)
  <2>1. 1 \in Nat
    OBVIOUS
  <2> QED
    BY <2>1, EncodedBytes
<1>3. PICK length \in Seq(Byte) : length = EncodeInteger(Len(Authorization))
  BY <1>1, EncodedBytes
<1>4. PICK size \in Seq(Byte) : size = EncodeInteger(Len(h))
  BY <1>1, EncodedBytes
<1>5. PICK name \in Seq(Byte) : name = Authorization
  BY <1>1
<1>6. one \o (length \o name) \o (size \o h) \in Seq(Byte)
  <2>1. length \o name \in Seq(Byte) /\ size \o h \in Seq(Byte)
    OBVIOUS
  <2>2. one \o (length \o name) \in Seq(Byte)
    BY <2>1
  <2> QED
    BY <2>1, <2>2
<1> QED
  BY <1>2, <1>3, <1>4, <1>5, <1>6 DEF Fields, EncodeString

(* What the encoder makes is well-formed, and the type says what it is. *)
LEMMA SentWellFormed ==
    ASSUME EightBits, NEW data, NEW h, Sendable(data, h)
    PROVE  /\ \A p \in SentRequests(data, h) :
                 p \in WellFormedPackets /\ KindOf(p) = "request"
           /\ \A p \in SentResponses(data, h) :
                 p \in WellFormedPackets /\ KindOf(p) = "response"
<1>1. /\ data \in Seq(Byte) /\ data \in Seq(Int) /\ Len(data) \in Sizes(MaxDataSize)
      /\ h \in Seq(Byte) /\ h \in Seq(Int) /\ h # <<>>
  BY BytesAreIntegers DEF Sendable
<1>2. PICK fields \in Seq(Byte) : fields = Fields(h) /\ Len(fields) = 13 + Len(h)
  BY <1>1, FieldsBytes, FieldsType
<1>3. /\ Len(fields) \in Sizes(MaxHeaderSize)
      /\ 4 + Len(fields) + Len(data) <= MaxDataSize
  BY <1>2 DEF Sendable
<1>4. ASSUME NEW type \in {0, 1, 255}
      PROVE  Bare(type, data) \in WellFormedPackets
             /\ KindOf(Bare(type, data)) = IF type = 0 THEN "request" ELSE "response"
  <2>1. Bare(type, data) \in WellFormedPackets /\ Bare(type, data)[4] = type
    BY <1>1, BareWellFormed
  <2>2. (type % 2) = IF type = 0 THEN 0 ELSE 1
    OBVIOUS
  <2> QED
    BY <2>1, <2>2 DEF KindOf
<1>5. ASSUME NEW type \in {64, 65}
      PROVE  Headed(type, fields, data) \in WellFormedPackets
             /\ KindOf(Headed(type, fields, data)) = IF type = 64 THEN "request" ELSE "response"
  <2>1. Headed(type, fields, data) \in WellFormedPackets
        /\ Headed(type, fields, data)[4] = type
    BY <1>1, <1>3, HeadedWellFormed
  <2>2. (type % 2) = IF type = 64 THEN 0 ELSE 1
    OBVIOUS
  <2> QED
    BY <2>1, <2>2 DEF KindOf
<1>6. RequestType = 0 /\ ResponseType = 1 /\ ErrorType = 255
      /\ RequestType + HeaderFlag = 64 /\ ResponseType + HeaderFlag = 65
  BY DEF RequestType, ResponseType, ErrorType, HeaderFlag
<1>7. /\ RequestPacket(data, <<>>) = Bare(0, data)
      /\ RequestPacket(data, <<h>>) = Headed(64, fields, data)
      /\ insertHeader(RequestPacket(data, <<>>), h) = Headed(64, fields, data)
  BY <1>1, <1>2, <1>6, BareRequest, HeadedRequest, HeaderInsertedLater
<1>8. /\ ResponsePacket(data, FALSE) = Bare(1, data)
      /\ ResponsePacket(data, TRUE) = Bare(255, data)
      /\ insertHeader(ResponsePacket(data, FALSE), h) = Headed(65, fields, data)
  <2>1. /\ ResponsePacket(data, FALSE) = Bare(ResponseType, data)
        /\ ResponsePacket(data, TRUE) = Bare(ErrorType, data)
    BY <1>1, ResponseIsBare
  <2>2. ResponseType \in {RequestType, ResponseType}
    OBVIOUS
  <2>3. insertHeader(Bare(ResponseType, data), h)
           = Headed(ResponseType + HeaderFlag, Fields(h), data)
    BY <1>1, <2>2, HeaderPutIn
  <2> QED
    BY <1>2, <1>6, <2>1, <2>3
<1>9. Bare(0, data) \in WellFormedPackets /\ KindOf(Bare(0, data)) = "request"
  BY <1>4
<1>10. /\ Bare(1, data) \in WellFormedPackets /\ KindOf(Bare(1, data)) = "response"
       /\ Bare(255, data) \in WellFormedPackets /\ KindOf(Bare(255, data)) = "response"
  BY <1>4
<1>11. /\ Headed(64, fields, data) \in WellFormedPackets
       /\ KindOf(Headed(64, fields, data)) = "request"
       /\ Headed(65, fields, data) \in WellFormedPackets
       /\ KindOf(Headed(65, fields, data)) = "response"
  BY <1>5
<1>12. SentRequests(data, h) = {Bare(0, data), Headed(64, fields, data)}
  BY <1>7 DEF SentRequests
<1>13. SentResponses(data, h) = {Bare(1, data), Bare(255, data), Headed(65, fields, data)}
  BY <1>8 DEF SentResponses
<1>14. \A p \in SentRequests(data, h) : p \in WellFormedPackets /\ KindOf(p) = "request"
  BY <1>9, <1>11, <1>12
<1>15. \A p \in SentResponses(data, h) : p \in WellFormedPackets /\ KindOf(p) = "response"
  BY <1>10, <1>11, <1>13
<1> QED
  BY <1>14, <1>15

(* What BinaryRpc makes of a packet and what follows it. *)
Parsed(o, packet, type, rest) ==
    /\ o.threw = FALSE /\ o.parser.finished = TRUE /\ o.parser.type = type
    /\ o.parser.data = packet /\ o.rest = rest

LEMMA WellFormedParsed ==
    ASSUME NEW packet \in WellFormedPackets, NEW rest \in Seq(Byte)
    PROVE  Parsed(Process(Fresh, packet \o rest), packet, KindOf(packet), rest)
<1>1. PICK s \in Seq(Byte) : s = packet \o rest
  <2>1. packet \in Seq(Byte)
    BY DEF WellFormedPackets
  <2>2. packet \o rest \in Seq(Byte)
    BY <2>1
  <2> QED
    BY <2>2
<1>2. packet \in Seq(Byte) /\ Len(packet) \in Nat /\ Len(packet) > 8
  BY PacketIs
<1>3. Len(s) = Len(packet) + Len(rest) /\ Len(rest) \in Nat /\ Len(s) \in Nat
  BY <1>1, <1>2
<1>4. Slice(s, 0, Len(packet)) = packet /\ Slice(s, Len(packet), Len(s)) = rest
      /\ Slice(s, 0, Len(s)) = s
  <2>1. SubSeq(packet \o rest, 1, Len(packet)) = packet
    BY <1>2
  <2>2. SubSeq(packet \o rest, Len(packet) + 1, Len(packet) + Len(rest)) = rest
    BY <1>2
  <2>3. SubSeq(s, 1, Len(s)) = s
    BY <1>3
  <2> QED
    BY <1>1, <1>3, <2>1, <2>2, <2>3 DEF Slice
<1>5. Heads(packet, s)
  BY <1>2, <1>3, <1>4 DEF Heads
<1>6. Advanced(Process(Partial(packet, 0), Slice(s, 0, Len(s))), packet, s, Len(s))
  <2>1. 0 \in Nat /\ 0 < Len(packet) /\ 0 < Len(s)
    BY <1>2, <1>3
  <2> QED
    BY <1>3, <1>5, <2>1, ProcessAdvances
<1>7. Advanced(Process(Fresh, s), packet, s, Len(s))
  BY <1>4, <1>6, PartialFresh
<1>8. ~(Len(s) < Len(packet))
  BY <1>2, <1>3
<1> QED
  BY <1>1, <1>4, <1>7, <1>8 DEF Advanced, Parsed

(* The packets of the encoder are packets to BinaryRpc: when one comes in  *)
(* together with what follows it, the parser stops at its end, knows       *)
(* whether it is a request or a response, and leaves the rest.  Requests   *)
(* and responses, with and without a header, that was encoded or inserted, *)
(* and errors: whatever the data.                                          *)
THEOREM SentPacketsParsed ==
    ASSUME EightBits, NEW data, NEW h, Sendable(data, h), NEW rest \in Seq(Byte)
    PROVE  /\ \A p \in SentRequests(data, h) :
                 Parsed(Process(Fresh, p \o rest), p, "request", rest)
           /\ \A p \in SentResponses(data, h) :
                 Parsed(Process(Fresh, p \o rest), p, "response", rest)
BY SentWellFormed, WellFormedParsed
=============================================================================
