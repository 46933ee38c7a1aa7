------------------------- MODULE PacketReaderProofs -------------------------
(***************************************************************************)
(* Proofs about PacketReader: for every set of well-formed packets, every  *)
(* size of the read buffer and every way the stream is cut into chunks,    *)
(* the packets that come out are those that went in.  A connection breaks  *)
(* between two packets here (CutAnywhere = FALSE); the run reader_break    *)
(* shows what a break inside a packet does.                                *)
(*                                                                         *)
(* The argument looks at the bytes of all packets sent as one stream.  The *)
(* parser, the chunk and the wire hold three adjacent parts of it, and the *)
(* parser's part begins where a packet begins.                             *)
(***************************************************************************)
EXTENDS PacketReader, SequenceTheorems, TLAPS

Byte == 0 .. 255

(* The elements of s after the first x, up to the one at y. *)
Slice(s, x, y) == SubSeq(s, x + 1, y)

(* The parser when it has n bytes of a packet and has read the type and    *)
(* the first size; dataSize is 0 while a second size has not been read.    *)
KindOf(packet) == IF packet[4] % 2 = 1 THEN "response" ELSE "request"

WithSizes(packet, n, dataSize) ==
    [data |-> Slice(packet, 0, n), finished |-> FALSE, type |-> KindOf(packet),
     headerSize |-> IF HasHeader(packet) THEN SizeOf(packet) ELSE 0,
     dataSize |-> dataSize]

(* The parser after the first n bytes of a packet that is longer than that. *)
Partial(packet, n) ==
    IF n < 8 THEN [Fresh EXCEPT !.data = Slice(packet, 0, n)]
    ELSE IF HasHeader(packet) /\ n < 12 + SizeOf(packet) THEN WithSizes(packet, n, 0)
    ELSE WithSizes(packet, n, Len(packet) - 8)

(* The stream consists of the packets sent, the i-th of which ends at      *)
(* ends[i].                                                                *)
Framed(stream, ends) ==
    /\ ends[0] = 0
    /\ ends[Len(sent)] = Len(stream)
    /\ \A i, j \in 0 .. Len(sent) : i <= j => ends[i] <= ends[j]
    /\ \A i \in 1 .. Len(sent) :
          /\ ends[i] = ends[i - 1] + Len(sent[i])
          /\ sent[i] = Slice(stream, ends[i - 1], ends[i])

(* The packets received end at from; the parser has what follows up to x,  *)
(* the chunk what follows up to y, the wire the rest.                      *)
Held(stream, from, x, y) ==
    /\ from <= x /\ x <= y /\ y <= Len(stream)
    /\ parser.data = Slice(stream, from, x)
    /\ chunk = Slice(stream, x, y)
    /\ wire = Slice(stream, y, Len(stream))

(* The packet the parser is in has not come in completely. *)
Unfinished(n) ==
    IF Len(received) < Len(sent)
    THEN LET packet == sent[Len(received) + 1] IN
            n < Len(packet) /\ parser = Partial(packet, n)
    ELSE parser = Fresh

Taken(stream, ends, x, y) ==
    /\ Framed(stream, ends)
    /\ Held(stream, ends[Len(received)], x, y)
    /\ Unfinished(x - ends[Len(received)])

Typed ==
    /\ sent \in Seq(Packets)
    /\ received \in Seq([queue : {0, 1}, packet : Packets, stored : BOOLEAN])
    /\ threw = FALSE

Streamed ==
    \E stream \in Seq(Byte) :
        \E ends \in [0 .. Len(sent) -> Nat], x \in Nat, y \in Nat :
            Taken(stream, ends, x, y)

Whole == Typed /\ PacketsIntact /\ Streamed

-----------------------------------------------------------------------------
(* Slices of a sequence of bytes                                           *)

(* A slice is a sequence: its length and its elements.                     *)
LEMMA SliceIs ==
    ASSUME NEW s \in Seq(Byte), NEW x \in Nat, NEW y \in Nat,
           x <= y, y <= Len(s)
    PROVE  /\ Slice(s, x, y) \in Seq(Byte)
           /\ Len(Slice(s, x, y)) = y - x
           /\ \A k \in 1 .. y - x : Slice(s, x, y)[k] = s[x + k]
  BY SubSeqProperties DEF Slice

(* Two sequences of one length that agree everywhere are the same.         *)
LEMMA SameSequence ==
    ASSUME NEW s \in Seq(Byte), NEW t \in Seq(Byte), Len(s) = Len(t),
           \A k \in 1 .. Len(s) : s[k] = t[k]
    PROVE  s = t
  BY SeqEqual

LEMMA SliceAll ==
    ASSUME NEW s \in Seq(Byte)
    PROVE  Slice(s, 0, Len(s)) = s
<1>1. 0 + 1 = 1
  OBVIOUS
<1>2. SubSeq(s, 1, Len(s)) = s
  BY SubSeqFull
<1> QED
  BY <1>1, <1>2 DEF Slice

(* Adjacent slices join.                                                   *)
LEMMA SlicesJoin ==
    ASSUME NEW s \in Seq(Byte), NEW x \in Nat, NEW y \in Nat, NEW z \in Nat,
           x <= y, y <= z, z <= Len(s)
    PROVE  Slice(s, x, y) \o Slice(s, y, z) = Slice(s, x, z)
<1>1. x + 1 \in 1 .. Len(s) + 1 /\ y \in (x + 1) - 1 .. Len(s) /\ z \in y .. Len(s)
  BY LenProperties
<1> QED
  BY <1>1, ConcatAdjacentSubSeq DEF Slice

(* A slice of a slice.                                                     *)
LEMMA SliceOfSlice ==
    ASSUME NEW s \in Seq(Byte), NEW x \in Nat, NEW y \in Nat,
           x <= y, y <= Len(s),
           NEW i \in Nat, NEW j \in Nat, i <= j, j <= y - x
    PROVE  Slice(Slice(s, x, y), i, j) = Slice(s, x + i, x + j)
<1> DEFINE a == Slice(s, x, y)
<1>1. a \in Seq(Byte) /\ Len(a) = y - x /\ \A k \in 1 .. y - x : a[k] = s[x + k]
  BY SliceIs
<1> HIDE DEF a
<1> DEFINE b == Slice(a, i, j)
           c == Slice(s, x + i, x + j)
<1>2. b \in Seq(Byte) /\ Len(b) = j - i /\ \A k \in 1 .. j - i : b[k] = a[i + k]
  <2>1. a \in Seq(Byte) /\ j <= Len(a)
    BY <1>1
  <2> QED
    BY <2>1, SliceIs
<1>3. c \in Seq(Byte) /\ Len(c) = j - i /\ \A k \in 1 .. j - i : c[k] = s[x + i + k]
  <2>1. /\ x + i \in Nat /\ x + j \in Nat /\ x + i <= x + j /\ x + j <= Len(s)
        /\ (x + j) - (x + i) = j - i
    BY LenProperties
  <2>2. /\ c \in Seq(Byte) /\ Len(c) = (x + j) - (x + i)
        /\ \A k \in 1 .. (x + j) - (x + i) : c[k] = s[(x + i) + k]
    BY <2>1, SliceIs
  <2> QED
    BY <2>1, <2>2
<1> HIDE DEF b, c
<1>4. \A k \in 1 .. j - i : i + k \in 1 .. y - x /\ a[i + k] = s[x + i + k]
  BY <1>1
<1>5. b = c
  BY <1>2, <1>3, <1>4, SameSequence
<1> QED
  BY <1>5 DEF a, b, c

LEMMA SliceWithin ==
    ASSUME NEW s \in Seq(Byte), NEW x \in Nat, NEW y \in Nat, NEW u \in Nat,
           NEW v \in Nat, x <= u, u <= v, v <= y, y <= Len(s)
    PROVE  Slice(Slice(s, x, y), u - x, v - x) = Slice(s, u, v)
<1>1. /\ u - x \in Nat /\ v - x \in Nat /\ u - x <= v - x /\ v - x <= y - x
      /\ x <= y
  OBVIOUS
<1>2. Slice(Slice(s, x, y), u - x, v - x) = Slice(s, x + (u - x), x + (v - x))
  BY <1>1, SliceOfSlice
<1>3. x + (u - x) = u /\ x + (v - x) = v
  OBVIOUS
<1> QED
  BY <1>2, <1>3

(* What is appended to a sequence changes none of the slices it has.       *)
LEMMA SliceOfLonger ==
    ASSUME NEW s \in Seq(Byte), NEW t \in Seq(Byte), NEW x \in Nat, NEW y \in Nat,
           x <= y, y <= Len(s)
    PROVE  Slice(s \o t, x, y) = Slice(s, x, y)
<1>1. /\ s \o t \in Seq(Byte) /\ Len(s \o t) = Len(s) + Len(t)
      /\ \A k \in 1 .. Len(s) : (s \o t)[k] = s[k]
  BY ConcatProperties
<1> DEFINE u == s \o t
<1>2. u \in Seq(Byte) /\ y <= Len(u) /\ \A k \in 1 .. Len(s) : u[k] = s[k]
  BY <1>1, LenProperties
<1> HIDE DEF u
<1> DEFINE a == Slice(u, x, y)
           b == Slice(s, x, y)
<1>3. /\ a \in Seq(Byte) /\ Len(a) = y - x /\ \A k \in 1 .. y - x : a[k] = u[x + k]
      /\ b \in Seq(Byte) /\ Len(b) = y - x /\ \A k \in 1 .. y - x : b[k] = s[x + k]
  BY <1>2, SliceIs
<1> HIDE DEF a, b
<1>4. \A k \in 1 .. y - x : x + k \in 1 .. Len(s)
  BY LenProperties
<1>5. a = b
  BY <1>2, <1>3, <1>4, SameSequence
<1> QED
  BY <1>5 DEF a, b, u

(* What is appended is the last slice.                                     *)
LEMMA LastSlice ==
    ASSUME NEW s \in Seq(Byte), NEW t \in Seq(Byte), NEW x \in Nat, x <= Len(s)
    PROVE  Slice(s \o t, x, Len(s) + Len(t)) = Slice(s, x, Len(s)) \o t
<1> DEFINE u == s \o t
<1>1. /\ u \in Seq(Byte) /\ Len(u) = Len(s) + Len(t)
      /\ \A k \in 1 .. Len(u) : u[k] = IF k <= Len(s) THEN s[k] ELSE t[k - Len(s)]
  BY ConcatProperties
<1>2. Len(s) \in Nat /\ Len(t) \in Nat
  BY LenProperties
<1> HIDE DEF u
<1> DEFINE a == Slice(u, Len(s), Len(s) + Len(t))
<1>3. a \in Seq(Byte) /\ Len(a) = Len(t) /\ \A k \in 1 .. Len(t) : a[k] = u[Len(s) + k]
  <2>1. Len(s) + Len(t) \in Nat
    BY <1>2
  <2>2. PICK n \in Nat, top \in Nat : n = Len(s) /\ top = Len(s) + Len(t)
    BY <1>2, <2>1
  <2>3. n <= top /\ top <= Len(u) /\ top - n = Len(t) /\ u \in Seq(Byte)
    BY <1>1, <1>2, <2>2
  <2>4. a = Slice(u, n, top)
    BY <2>2
  <2> HIDE DEF a
  <2>5. /\ Slice(u, n, top) \in Seq(Byte) /\ Len(Slice(u, n, top)) = top - n
        /\ \A k \in 1 .. top - n : Slice(u, n, top)[k] = u[n + k]
    BY <2>3, SliceIs
  <2> QED
    BY <2>2, <2>3, <2>4, <2>5
<1> HIDE DEF a
<1>4. \A k \in 1 .. Len(t) : a[k] = t[k]
  <2> TAKE k \in 1 .. Len(t)
  <2>1. Len(s) + k \in 1 .. Len(u) /\ ~(Len(s) + k <= Len(s)) /\ (Len(s) + k) - Len(s) = k
    BY <1>1, <1>2
  <2> QED
    BY <1>1, <1>3, <2>1
<1>5. a = t
  BY <1>3, <1>4, SameSequence
<1>6. Slice(u, x, Len(s)) \o a = Slice(u, x, Len(s) + Len(t))
  BY <1>1, <1>2, SlicesJoin DEF a
<1>7. Slice(u, x, Len(s)) = Slice(s, x, Len(s))
  BY <1>2, SliceOfLonger DEF u
<1> QED
  BY <1>5, <1>6, <1>7 DEF u

-----------------------------------------------------------------------------
(* What Fill and Process do to a stream                                    *)

Later(m, n) == IF m < n THEN n ELSE m

(* Fill moves the border between the data and the chunk and changes no     *)
(* byte of the stream.                                                     *)
LEMMA FillStream ==
    ASSUME NEW s \in Seq(Byte), NEW n \in Nat, NEW m \in Nat,
           n <= m, m <= Len(s), NEW size \in Nat
    PROVE  Fill(Slice(s, 0, n), Slice(s, n, m), size) =
               IF m < size
               THEN [data |-> Slice(s, 0, m), rest |-> <<>>, short |-> TRUE]
               ELSE [data |-> Slice(s, 0, Later(n, size)),
                     rest |-> Slice(s, Later(n, size), m), short |-> FALSE]
<1> DEFINE d == Slice(s, 0, n)
           c == Slice(s, n, m)
           moved == IF Len(d) + Len(c) < size THEN Len(c) ELSE size - Len(d)
           data == d \o SubSeq(c, 1, moved)
           rest == IF moved > 0 THEN SubSeq(c, moved + 1, Len(c)) ELSE c
<1>1. /\ d \in Seq(Byte) /\ Len(d) = n
      /\ c \in Seq(Byte) /\ Len(c) = m - n
  <2>1. 0 <= n /\ n <= Len(s) /\ n - 0 = n
    BY LenProperties
  <2> QED
    BY <2>1, SliceIs
<1>2. Fill(d, c, size) = [data |-> data, rest |-> rest, short |-> Len(d) + Len(c) < size]
  BY DEF Fill
<1>3. (Len(d) + Len(c) < size) <=> m < size
  BY <1>1
<1>4. CASE m < size
  <2>1. moved = m - n
    BY <1>1, <1>4
  <2>2. SubSeq(c, 1, m - n) = c
    BY <1>1, SubSeqFull
  <2>3. d \o c = Slice(s, 0, m)
    BY SlicesJoin
  <2>4. rest = <<>>
    <3>1. CASE m - n > 0
      <4>1. SubSeq(c, (m - n) + 1, m - n) = <<>>
        BY SubSeqEmpty
      <4> QED
        BY <1>1, <2>1, <3>1, <4>1
    <3>2. CASE ~(m - n > 0)
      <4>1. Len(c) = 0
        BY <1>1, <3>2
      <4>2. c = <<>>
        BY <1>1, <4>1, EmptySeq
      <4> QED
        BY <2>1, <3>2, <4>2
    <3> QED
      BY <3>1, <3>2
  <2> HIDE DEF d, c, moved, rest
  <2>5. data = Slice(s, 0, m)
    BY <2>1, <2>2, <2>3
  <2>6. Fill(d, c, size) = [data |-> Slice(s, 0, m), rest |-> <<>>, short |-> TRUE]
    BY <1>2, <1>3, <1>4, <2>4, <2>5
  <2> QED
    BY <1>4, <2>6 DEF d, c
<1>5. CASE ~(m < size) /\ n < size
  <2>1. moved = size - n /\ size - n \in Nat /\ size - n > 0 /\ size - n <= m - n
    <3>1. size - n \in Nat /\ size - n > 0 /\ size - n <= m - n
      BY <1>5
    <3>2. ~(Len(d) + Len(c) < size) /\ size - Len(d) = size - n
      BY <1>1, <1>3, <1>5
    <3> HIDE DEF d, c
    <3>3. moved = size - n
      BY <3>2
    <3> QED
      BY <3>1, <3>3
  <2>2. SubSeq(c, 1, size - n) = Slice(s, n, size)
    <3>1. Slice(c, n - n, size - n) = Slice(s, n, size)
      BY <1>5, SliceWithin
    <3>2. (n - n) + 1 = 1
      OBVIOUS
    <3> QED
      BY <3>1, <3>2 DEF Slice
  <2>3. d \o Slice(s, n, size) = Slice(s, 0, size)
    BY <1>5, SlicesJoin
  <2>4. SubSeq(c, (size - n) + 1, m - n) = Slice(s, size, m)
    <3>1. Slice(c, size - n, m - n) = Slice(s, size, m)
      BY <1>5, SliceWithin
    <3> QED
      BY <3>1 DEF Slice
  <2>5. rest = Slice(s, size, m)
    BY <1>1, <2>1, <2>4
  <2> HIDE DEF d, c, moved, rest
  <2>6. data = Slice(s, 0, size)
    BY <2>1, <2>2, <2>3
  <2>7. Later(n, size) = size
    BY <1>5 DEF Later
  <2>8. Fill(d, c, size) = [data |-> Slice(s, 0, size), rest |-> Slice(s, size, m),
                            short |-> FALSE]
    <3>1. (Len(d) + Len(c) < size) = FALSE
      BY <1>3, <1>5
    <3> HIDE DEF data
    <3> QED
      BY <1>2, <2>5, <2>6, <3>1, Zenon
  <2> QED
    BY <1>5, <2>7, <2>8 DEF d, c
<1>6. CASE ~(m < size) /\ ~(n < size)
  <2>1. moved = size - n /\ size - n \in Int /\ size - n < 1
    BY <1>1, <1>6
  <2>2. SubSeq(c, 1, size - n) = <<>>
    BY <2>1, SubSeqEmpty
  <2>3. d \o <<>> = d
    BY <1>1, ConcatEmptySeq
  <2>4. rest = c
    <3> HIDE DEF moved, c
    <3>1. ~(moved > 0)
      BY <2>1
    <3> QED
      BY <3>1
  <2>5. Later(n, size) = n
    BY <1>6 DEF Later
  <2> HIDE DEF d, c, moved, rest
  <2>6. data = d
    BY <2>1, <2>2, <2>3
  <2>7. Fill(d, c, size) = [data |-> d, rest |-> c, short |-> FALSE]
    <3>1. (Len(d) + Len(c) < size) = FALSE
      BY <1>3, <1>6
    <3> HIDE DEF data
    <3> QED
      BY <1>2, <2>4, <2>6, <3>1, Zenon
  <2> QED
    BY <1>6, <2>5, <2>7 DEF d, c
<1> QED
  BY <1>4, <1>5, <1>6

(* A packet at the head of a stream and the stream have the same prefixes. *)
Heads(packet, stream) ==
    /\ Len(packet) <= Len(stream)
    /\ packet = Slice(stream, 0, Len(packet))

LEMMA SamePrefix ==
    ASSUME NEW s \in Seq(Byte), NEW packet \in Seq(Byte), Heads(packet, s),
           NEW k \in Nat, k <= Len(packet)
    PROVE  Slice(s, 0, k) = Slice(packet, 0, k)
<1>1. Len(packet) \in Nat /\ 0 <= k
  BY LenProperties
<1>2. Slice(Slice(s, 0, Len(packet)), 0 - 0, k - 0) = Slice(s, 0, k)
  BY <1>1, SliceWithin DEF Heads
<1>3. 0 - 0 = 0 /\ k - 0 = k
  OBVIOUS
<1> QED
  BY <1>2, <1>3 DEF Heads

(* Four bytes within a prefix are those of the packet.                     *)
LEMMA BytesInPrefix ==
    ASSUME NEW packet \in Seq(Byte), NEW k \in Nat, k <= Len(packet),
           NEW i \in Nat, i + 4 <= k
    PROVE  BytesAt(Slice(packet, 0, k), i) = BytesAt(packet, i)
<1>1. i + 4 \in Nat /\ 0 <= i /\ i <= i + 4
  OBVIOUS
<1>2. Slice(Slice(packet, 0, k), i - 0, (i + 4) - 0) = Slice(packet, i, i + 4)
  BY <1>1, SliceWithin
<1>3. i - 0 = i /\ (i + 4) - 0 = i + 4
  OBVIOUS
<1> QED
  BY <1>2, <1>3 DEF BytesAt, Slice

(* The first eight bytes of a prefix are those of the packet.              *)
LEMMA FirstEight ==
    ASSUME NEW packet \in Seq(Byte), NEW k \in Nat, 8 <= k, k <= Len(packet)
    PROVE  /\ SubSeq(Slice(packet, 0, k), 1, 3) = SubSeq(packet, 1, 3)
           /\ Slice(packet, 0, k)[4] = packet[4]
           /\ BytesAt(Slice(packet, 0, k), 4) = BytesAt(packet, 4)
<1>1. SubSeq(Slice(packet, 0, k), 1, 3) = SubSeq(packet, 1, 3)
  <2>1. Slice(Slice(packet, 0, k), 0 - 0, 3 - 0) = Slice(packet, 0, 3)
    BY SliceWithin
  <2>2. 0 - 0 = 0 /\ 3 - 0 = 3 /\ 0 + 1 = 1
    OBVIOUS
  <2> QED
    BY <2>1, <2>2 DEF Slice
<1>2. Slice(packet, 0, k)[4] = packet[4]
  <2>1. 0 <= k /\ 4 \in 1 .. k - 0 /\ 0 + 4 = 4
    OBVIOUS
  <2>2. Slice(packet, 0, k)[4] = packet[0 + 4]
    BY <2>1, SliceIs
  <2> QED
    BY <2>1, <2>2
<1>3. BytesAt(Slice(packet, 0, k), 4) = BytesAt(packet, 4)
  BY BytesInPrefix
<1> QED
  BY <1>1, <1>2, <1>3

(* A size is a number.                                                     *)
LEMMA BigEndianNat ==
    ASSUME NEW packet \in Seq(Byte), NEW i \in Nat, i + 4 <= Len(packet)
    PROVE  BigEndian(BytesAt(packet, i)) \in Nat
<1> DEFINE b == BytesAt(packet, i)
<1>1. b[1] \in Nat /\ b[2] \in Nat /\ b[3] \in Nat /\ b[4] \in Nat
  <2>1. b \in Seq(Byte) /\ Len(b) = 4
    <3>1. i + 4 \in Nat /\ i <= i + 4 /\ (i + 4) - i = 4
      OBVIOUS
    <3>2. Slice(packet, i, i + 4) \in Seq(Byte) /\ Len(Slice(packet, i, i + 4)) = 4
      BY <3>1, SliceIs
    <3> QED
      BY <3>2 DEF BytesAt, Slice
  <2> HIDE DEF b
  <2>2. b \in [1 .. 4 -> Byte]
    BY <2>1, LenProperties
  <2>3. b[1] \in Byte /\ b[2] \in Byte /\ b[3] \in Byte /\ b[4] \in Byte
    BY <2>2
  <2>4. \A e \in Byte : e \in Nat
    BY DEF Byte
  <2> QED
    BY <2>3, <2>4
<1> HIDE DEF b
<1>2. Base \in Nat
  BY ReaderAssumption
<1> DEFINE u == b[1] * Base
           v == (u + b[2]) * Base
           w == (v + b[3]) * Base
<1>3. u \in Nat
  BY <1>1, <1>2
<1> HIDE DEF u
<1>4. v \in Nat
  BY <1>1, <1>2, <1>3
<1> HIDE DEF v
<1>5. w \in Nat
  BY <1>1, <1>2, <1>4
<1> HIDE DEF w
<1>6. w + b[4] \in Nat
  BY <1>1, <1>5
<1> QED
  BY <1>6 DEF BigEndian, b, u, v, w

(* What well-formed packets are, in the terms of the proofs.               *)
WellFormedPackets == {packet \in Seq(Byte) : WellFormed(packet)}

LEMMA PacketsWellFormed == Packets \subseteq WellFormedPackets
  BY ReaderAssumption DEF WellFormedPackets, Byte

LEMMA PacketIs ==
    ASSUME NEW packet \in WellFormedPackets
    PROVE  /\ packet \in Seq(Byte)
           /\ Len(packet) \in Nat /\ Len(packet) > 8
           /\ SubSeq(packet, 1, 3) = Magic
           /\ SizeOf(packet) \in Nat /\ SizeOf(packet) > 0
           /\ ~HasHeader(packet) => /\ Len(packet) = 8 + SizeOf(packet)
                                    /\ SizeOf(packet) <= MaxDataSize
           /\ HasHeader(packet) =>
                /\ SizeOf(packet) <= MaxHeaderSize
                /\ 12 + SizeOf(packet) <= Len(packet)
                /\ BigEndian(BytesAt(packet, 8 + SizeOf(packet)))
                       = Len(packet) - (12 + SizeOf(packet))
                /\ Len(packet) - 8 <= MaxDataSize
<1>1. packet \in Seq(Byte) /\ WellFormed(packet)
  BY DEF WellFormedPackets
<1>2. Len(packet) \in Nat /\ Len(packet) >= 8
  BY <1>1, LenProperties DEF WellFormed
<1>3. SizeOf(packet) \in Nat
  <2>1. 4 \in Nat /\ 4 + 4 <= Len(packet)
    BY <1>2
  <2> QED
    BY <1>1, <2>1, BigEndianNat DEF SizeOf
<1>4. SizeOf(packet) > 0
  BY <1>1, <1>3 DEF WellFormed
<1>5. CASE ~HasHeader(packet)
  BY <1>1, <1>2, <1>3, <1>4, <1>5 DEF WellFormed
<1>6. CASE HasHeader(packet)
  <2>1. /\ SizeOf(packet) <= MaxHeaderSize
        /\ Len(packet) >= 12 + SizeOf(packet)
        /\ Len(packet) = 12 + SizeOf(packet) + BigEndian(BytesAt(packet, 8 + SizeOf(packet)))
        /\ Len(packet) <= 8 + MaxDataSize
    BY <1>1, <1>3, <1>6 DEF WellFormed
  <2>2. BigEndian(BytesAt(packet, 8 + SizeOf(packet))) \in Nat
    <3>1. 8 + SizeOf(packet) \in Nat /\ (8 + SizeOf(packet)) + 4 <= Len(packet)
      BY <1>2, <1>3, <2>1
    <3> QED
      BY <1>1, <3>1, BigEndianNat
  <2> DEFINE rest == BigEndian(BytesAt(packet, 8 + SizeOf(packet)))
  <2>3. rest \in Nat /\ Len(packet) = 12 + SizeOf(packet) + rest
    BY <2>1, <2>2
  <2> HIDE DEF rest
  <2>4. rest = Len(packet) - (12 + SizeOf(packet))
    BY <1>2, <1>3, <2>3
  <2>5. 12 + SizeOf(packet) <= Len(packet) /\ Len(packet) - 8 <= MaxDataSize
    BY <1>2, <1>3, <2>1 DEF MaxDataSize
  <2>6. SubSeq(packet, 1, 3) = Magic
    BY <1>1 DEF WellFormed
  <2>7. Len(packet) > 8
    BY <1>2, <1>3, <2>5
  <2> QED
    BY <1>1, <1>2, <1>3, <1>4, <1>6, <2>1, <2>4, <2>5, <2>6, <2>7 DEF rest
<1> QED
  BY <1>5, <1>6

(* What process comes to when the stream is read up to m: the packet is    *)
(* incomplete and the chunk used up, or the packet is finished and the     *)
(* chunk continues behind it.                                              *)
Advanced(o, packet, s, m) ==
    /\ o.threw = FALSE
    /\ IF m < Len(packet)
       THEN o.parser = Partial(packet, m) /\ o.rest = <<>>
       ELSE /\ o.parser.finished = TRUE
            /\ o.parser.data = packet
            /\ o.parser.type = KindOf(packet)
            /\ o.rest = Slice(s, Len(packet), m)

LEMMA WithSizesUpdated ==
    ASSUME NEW packet, NEW k, NEW d
    PROVE  /\ \A m : [WithSizes(packet, k, d) EXCEPT !.data = Slice(packet, 0, m)]
                        = WithSizes(packet, m, d)
           /\ \A e : [WithSizes(packet, k, d) EXCEPT !.dataSize = e]
                        = WithSizes(packet, k, e)
<1>1. ASSUME NEW m, NEW st, st = [WithSizes(packet, k, d) EXCEPT !.data = Slice(packet, 0, m)]
      PROVE  st = WithSizes(packet, m, d)
  BY <1>1 DEF WithSizes
<1>2. ASSUME NEW e, NEW st, st = [WithSizes(packet, k, d) EXCEPT !.dataSize = e]
      PROVE  st = WithSizes(packet, k, e)
  BY <1>2 DEF WithSizes
<1> QED
  BY <1>1, <1>2

(* The last stage: all sizes are known.                                    *)
LEMMA ProcessDataAdvances ==
    ASSUME NEW s \in Seq(Byte), NEW packet \in WellFormedPackets, Heads(packet, s),
           NEW k \in Nat, NEW m \in Nat, 8 <= k, k <= Len(packet),
           k <= m, m <= Len(s),
           HasHeader(packet) => 12 + SizeOf(packet) <= k
    PROVE  Advanced(ProcessData(WithSizes(packet, k, Len(packet) - 8), Slice(s, k, m)),
                    packet, s, m)
<1> DEFINE size == Len(packet)
           st == WithSizes(packet, k, size - 8)
           filled == Fill(st.data, Slice(s, k, m), 8 + st.dataSize)
           o == ProcessData(st, Slice(s, k, m))
<1>1. packet \in Seq(Byte) /\ size \in Nat /\ size > 8 /\ SizeOf(packet) \in Nat
  BY PacketIs
<1> HIDE DEF size
<1>2. /\ st.data = Slice(s, 0, k) /\ st.dataSize = size - 8
      /\ st.type = KindOf(packet)
  <2>1. Slice(packet, 0, k) = Slice(s, 0, k)
    BY <1>1, SamePrefix
  <2> QED
    BY <2>1 DEF WithSizes
<1>3. 8 + st.dataSize = size
  BY <1>1, <1>2
<1>4. filled = IF m < size
               THEN [data |-> Slice(s, 0, m), rest |-> <<>>, short |-> TRUE]
               ELSE [data |-> Slice(s, 0, Later(k, size)),
                     rest |-> Slice(s, Later(k, size), m), short |-> FALSE]
  <2>1. filled = Fill(Slice(s, 0, k), Slice(s, k, m), size)
    BY <1>2, <1>3
  <2> HIDE DEF filled, st
  <2> QED
    BY <1>1, <2>1, FillStream
<1> HIDE DEF filled, st
<1>5. o = [parser |-> [st EXCEPT !.data = filled.data, !.finished = ~filled.short],
           rest |-> filled.rest, threw |-> FALSE]
  BY DEF ProcessData, Outcome, filled, o
<1> HIDE DEF o
<1>6. CASE m < size
  <2>1. o.threw = FALSE /\ o.rest = <<>>
    BY <1>4, <1>5, <1>6
  <2>2. o.parser = [st EXCEPT !.data = Slice(s, 0, m), !.finished = FALSE]
    <3>1. filled.data = Slice(s, 0, m) /\ filled.short = TRUE
      BY <1>4, <1>6
    <3> QED
      BY <1>5, <3>1
  <2>3. Slice(s, 0, m) = Slice(packet, 0, m)
    BY <1>1, <1>6, SamePrefix DEF size
  <2>4. o.parser = WithSizes(packet, m, size - 8)
    BY <2>2, <2>3 DEF st, WithSizes
  <2>5. ~(m < 8) /\ (HasHeader(packet) => ~(m < 12 + SizeOf(packet)))
    BY <1>1
  <2>6. Partial(packet, m) = WithSizes(packet, m, size - 8)
    BY <2>5 DEF Partial, size
  <2> QED
    BY <1>6, <2>1, <2>4, <2>6 DEF Advanced, size, o, st
<1>7. CASE ~(m < size)
  <2>1. Later(k, size) = size
    BY <1>1 DEF Later, size
  <2>2. Slice(s, 0, size) = packet
    BY DEF Heads, size
  <2>3. filled.data = packet /\ filled.rest = Slice(s, size, m) /\ filled.short = FALSE
    BY <1>4, <1>7, <2>1, <2>2
  <2>4. o.parser = [st EXCEPT !.data = packet, !.finished = TRUE]
    BY <1>5, <2>3
  <2>5. /\ o.parser.data = packet /\ o.parser.finished = TRUE
        /\ o.parser.type = KindOf(packet)
    BY <2>4 DEF st, WithSizes
  <2>6. o.rest = Slice(s, size, m) /\ o.threw = FALSE
    BY <1>5, <2>3
  <2> QED
    BY <1>7, <2>5, <2>6 DEF Advanced, size, o, st
<1> QED
  BY <1>6, <1>7

(* The stage before: the packet has a header and its second size is not    *)
(* known yet.                                                              *)
LEMMA ProcessHeaderAdvances ==
    ASSUME NEW s \in Seq(Byte), NEW packet \in WellFormedPackets, Heads(packet, s),
           HasHeader(packet),
           NEW k \in Nat, NEW m \in Nat, 8 <= k, k <= 12 + SizeOf(packet),
           k <= m, m <= Len(s)
    PROVE  Advanced(ProcessHeader(WithSizes(packet, k, 0), Slice(s, k, m)), packet, s, m)
<1> DEFINE h == SizeOf(packet)
           st == WithSizes(packet, k, 0)
           filled == Fill(st.data, Slice(s, k, m), 8 + st.headerSize + 4)
           size == BigEndian(BytesAt(filled.data, 8 + st.headerSize)) + st.headerSize + 4
           s1 == [st EXCEPT !.data = filled.data]
           o == ProcessHeader(st, Slice(s, k, m))
<1>1. /\ packet \in Seq(Byte) /\ Len(packet) \in Nat /\ h \in Nat
      /\ 12 + h <= Len(packet)
      /\ BigEndian(BytesAt(packet, 8 + h)) = Len(packet) - (12 + h)
      /\ Len(packet) - 8 <= MaxDataSize
  BY PacketIs
<1> HIDE DEF h
<1>2. st.data = Slice(s, 0, k) /\ st.headerSize = h
  <2>1. k <= Len(packet)
    BY <1>1 DEF h
  <2> QED
    BY <1>1, <2>1, SamePrefix DEF WithSizes, h
<1>3. 8 + st.headerSize + 4 = 12 + h /\ 12 + h \in Nat /\ 8 + st.headerSize = 8 + h
  BY <1>1, <1>2
<1>4. filled = IF m < 12 + h
               THEN [data |-> Slice(s, 0, m), rest |-> <<>>, short |-> TRUE]
               ELSE [data |-> Slice(s, 0, Later(k, 12 + h)),
                     rest |-> Slice(s, Later(k, 12 + h), m), short |-> FALSE]
  <2>1. filled = Fill(Slice(s, 0, k), Slice(s, k, m), 12 + h)
    BY <1>2, <1>3
  <2>2. PICK size1 \in Nat : size1 = 12 + h
    BY <1>3
  <2> HIDE DEF filled, st
  <2>3. Fill(Slice(s, 0, k), Slice(s, k, m), size1) =
            IF m < size1
            THEN [data |-> Slice(s, 0, m), rest |-> <<>>, short |-> TRUE]
            ELSE [data |-> Slice(s, 0, Later(k, size1)),
                  rest |-> Slice(s, Later(k, size1), m), short |-> FALSE]
    BY FillStream
  <2> QED
    BY <2>1, <2>2, <2>3
<1> HIDE DEF filled, st
<1>5. o = IF filled.short THEN Outcome(s1, <<>>, FALSE)
          ELSE IF size > MaxDataSize THEN Outcome([s1 EXCEPT !.dataSize = size], <<>>, TRUE)
          ELSE ProcessData([s1 EXCEPT !.dataSize = size], filled.rest)
  BY DEF ProcessHeader, filled, o
<1> HIDE DEF o
<1>6. CASE m < 12 + h
  <2>1. filled.short = TRUE /\ filled.data = Slice(s, 0, m)
    BY <1>4, <1>6
  <2>2. m < Len(packet) /\ m <= Len(packet) /\ ~(m < 8)
    BY <1>1, <1>6
  <2>3. Slice(s, 0, m) = Slice(packet, 0, m)
    BY <1>1, <2>2, SamePrefix
  <2>4. s1 = WithSizes(packet, m, 0)
    <3>1. s1 = [st EXCEPT !.data = Slice(packet, 0, m)]
      BY <2>1, <2>3
    <3> HIDE DEF s1
    <3> QED
      BY <3>1, WithSizesUpdated DEF st
  <2> HIDE DEF s1, size
  <2>5. o = Outcome(WithSizes(packet, m, 0), <<>>, FALSE)
    BY <1>5, <2>1, <2>4
  <2>6. Partial(packet, m) = WithSizes(packet, m, 0)
    BY <1>6, <2>2 DEF Partial, h
  <2> QED
    BY <2>2, <2>5, <2>6 DEF Advanced, Outcome, o, st
<1>7. CASE ~(m < 12 + h)
  <2>1. Later(k, 12 + h) = 12 + h
    BY <1>1 DEF Later, h
  <2>2. Slice(s, 0, 12 + h) = Slice(packet, 0, 12 + h)
    BY <1>1, <1>3, SamePrefix
  <2>3. /\ filled.short = FALSE /\ filled.data = Slice(packet, 0, 12 + h)
        /\ filled.rest = Slice(s, 12 + h, m)
    BY <1>4, <1>7, <2>1, <2>2
  <2>4. BytesAt(filled.data, 8 + st.headerSize) = BytesAt(packet, 8 + h)
    <3>1. 8 + h \in Nat /\ (8 + h) + 4 <= 12 + h
      BY <1>1
    <3>2. BytesAt(Slice(packet, 0, 12 + h), 8 + h) = BytesAt(packet, 8 + h)
      BY <1>1, <1>3, <3>1, BytesInPrefix
    <3> QED
      BY <1>3, <2>3, <3>2
  <2>5. size = Len(packet) - 8
    <3> DEFINE second == BigEndian(BytesAt(packet, 8 + h))
    <3>1. size = second + h + 4
      BY <1>2, <2>4
    <3>2. second = Len(packet) - (12 + h)
      BY <1>1
    <3> HIDE DEF second, size
    <3> QED
      BY <1>1, <3>1, <3>2
  <2>6. ~(size > MaxDataSize)
    <3> HIDE DEF size
    <3> QED
      BY <1>1, <2>5 DEF MaxDataSize
  <2>7. [s1 EXCEPT !.dataSize = size] = WithSizes(packet, 12 + h, Len(packet) - 8)
    <3>1. s1 = [st EXCEPT !.data = Slice(packet, 0, 12 + h)]
      BY <2>3
    <3>2. s1 = WithSizes(packet, 12 + h, 0)
      <4> HIDE DEF s1
      <4> QED
        BY <3>1, WithSizesUpdated DEF st
    <3> HIDE DEF s1, size
    <3> QED
      BY <2>5, <3>2, WithSizesUpdated
  <2> HIDE DEF s1, size
  <2>8. o = ProcessData(WithSizes(packet, 12 + h, Len(packet) - 8), Slice(s, 12 + h, m))
    BY <1>5, <2>3, <2>6, <2>7
  <2>9. Advanced(ProcessData(WithSizes(packet, 12 + h, Len(packet) - 8),
                             Slice(s, 12 + h, m)), packet, s, m)
    <3>1. /\ 8 <= 12 + h /\ 12 + h <= m
          /\ HasHeader(packet) => 12 + SizeOf(packet) <= 12 + h
      BY <1>1, <1>7 DEF h
    <3> QED
      BY <1>1, <1>3, <3>1, ProcessDataAdvances
  <2> QED
    BY <2>8, <2>9 DEF o, st
<1> QED
  BY <1>6, <1>7

LEMMA PartialIs ==
    ASSUME NEW packet, NEW n \in Nat
    PROVE  /\ Partial(packet, n).finished = FALSE
           /\ Partial(packet, n).data = Slice(packet, 0, n)
<1>1. CASE n < 8
  BY <1>1 DEF Partial, Fresh
<1>2. CASE ~(n < 8) /\ HasHeader(packet) /\ n < 12 + SizeOf(packet)
  BY <1>2 DEF Partial, WithSizes
<1>3. CASE ~(n < 8) /\ ~(HasHeader(packet) /\ n < 12 + SizeOf(packet))
  BY <1>3 DEF Partial, WithSizes
<1> QED
  BY <1>1, <1>2, <1>3

(* Nothing of a packet has come in: the parser is as new.                  *)
LEMMA PartialFresh ==
    ASSUME NEW packet
    PROVE  Partial(packet, 0) = Fresh
<1>1. Slice(packet, 0, 0) = <<>>
  BY SubSeqEmpty DEF Slice
<1>2. ASSUME NEW t, t = [Fresh EXCEPT !.data = <<>>]
      PROVE  t = Fresh
  BY <1>2 DEF Fresh
<1>3. Partial(packet, 0) = [Fresh EXCEPT !.data = <<>>]
  <2> HIDE DEF Fresh
  <2> QED
    BY <1>1 DEF Partial
<1> QED
  BY <1>2, <1>3

(* The parser after the sizes are read.                                    *)
IsParser(s, data, type, header, size) ==
    s = [data |-> data, finished |-> FALSE, type |-> type, headerSize |-> header,
         dataSize |-> size]

LEMMA ReadSizesIs ==
    ASSUME NEW s, NEW old, NEW type, NEW header, NEW size, NEW data,
           IsParser(s, old, type, header, size)
    PROVE  /\ HasHeader(data) =>
                 IsParser(ReadSizes(s, data), data, KindOf(data), SizeOf(data), size)
           /\ ~HasHeader(data) =>
                 IsParser(ReadSizes(s, data), data, KindOf(data), header, SizeOf(data))
<1>1. s = [data |-> old, finished |-> FALSE, type |-> type,
           headerSize |-> header, dataSize |-> size]
  BY DEF IsParser
<1> DEFINE kind == IF data[4] % 2 = 1 THEN "response" ELSE "request"
           first == BigEndian(BytesAt(data, 4))
           both == [s EXCEPT !.data = data, !.type = kind]
<1>2. ReadSizes(s, data) = IF HasHeader(data) THEN [both EXCEPT !.headerSize = first]
                           ELSE [both EXCEPT !.dataSize = first]
  BY DEF ReadSizes
<1> HIDE DEF kind, first
<1>3. both = [data |-> data, finished |-> FALSE, type |-> kind,
              headerSize |-> header, dataSize |-> size]
  <2>1. ASSUME NEW t, t = both
        PROVE  t = [data |-> data, finished |-> FALSE, type |-> kind,
                    headerSize |-> header, dataSize |-> size]
    BY <1>1, <2>1
  <2> QED
    BY <2>1
<1> HIDE DEF both
<1>4. ASSUME NEW t, t = [both EXCEPT !.headerSize = first]
      PROVE  t = [data |-> data, finished |-> FALSE, type |-> kind,
                  headerSize |-> first, dataSize |-> size]
  BY <1>3, <1>4
<1>5. ASSUME NEW t, t = [both EXCEPT !.dataSize = first]
      PROVE  t = [data |-> data, finished |-> FALSE, type |-> kind,
                  headerSize |-> header, dataSize |-> first]
  BY <1>3, <1>5
<1> QED
  BY <1>2, <1>4, <1>5 DEF kind, first, KindOf, SizeOf, IsParser

(* The whole of process: fed with the next part of a stream that begins    *)
(* with a packet, a parser that has the first n bytes of that packet goes  *)
(* on to where the part ends, or finishes the packet.                      *)
LEMMA ProcessAdvances ==
    ASSUME NEW s \in Seq(Byte), NEW packet \in WellFormedPackets, Heads(packet, s),
           NEW n \in Nat, NEW m \in Nat, n < Len(packet), n < m, m <= Len(s)
    PROVE  Advanced(Process(Partial(packet, n), Slice(s, n, m)), packet, s, m)
<1> DEFINE p == Partial(packet, n)
           c == Slice(s, n, m)
           h == SizeOf(packet)
           filled == Fill(p.data, c, 8)
           s1 == ReadSizes(p, filled.data)
           o == Process(p, c)
<1>1. /\ packet \in Seq(Byte) /\ Len(packet) \in Nat /\ Len(packet) > 8
      /\ h \in Nat /\ h > 0
      /\ SubSeq(packet, 1, 3) = Magic
  BY PacketIs
<1>2. /\ ~HasHeader(packet) => Len(packet) = 8 + h /\ ~(h > MaxDataSize)
      /\ HasHeader(packet) => ~(h > MaxHeaderSize) /\ 12 + h <= Len(packet)
  BY PacketIs DEF MaxDataSize, MaxHeaderSize
<1> HIDE DEF h
<1>3. c # <<>>
  <2>1. c \in Seq(Byte) /\ Len(c) = m - n
    BY SliceIs
  <2>2. Len(c) # 0
    BY <2>1
  <2> QED
    BY <2>2, EmptySeq
<1>4. p.finished = FALSE /\ p.data = Slice(s, 0, n)
  <2>1. Slice(s, 0, n) = Slice(packet, 0, n)
    BY <1>1, SamePrefix
  <2> QED
    BY <2>1, PartialIs
<1>5. filled = IF m < 8
               THEN [data |-> Slice(s, 0, m), rest |-> <<>>, short |-> TRUE]
               ELSE [data |-> Slice(s, 0, Later(n, 8)),
                     rest |-> Slice(s, Later(n, 8), m), short |-> FALSE]
  <2>1. filled = Fill(Slice(s, 0, n), Slice(s, n, m), 8)
    BY <1>4
  <2> HIDE DEF filled, p, c
  <2> QED
    BY <2>1, FillStream
<1> HIDE DEF p, c, filled, s1
<1>6. o = IF filled.short THEN Outcome([p EXCEPT !.data = filled.data], <<>>, FALSE)
          ELSE IF SubSeq(filled.data, 1, 3) # Magic
               THEN Outcome([s1 EXCEPT !.finished = TRUE], <<>>, TRUE)
          ELSE IF \/ HasHeader(filled.data) /\ s1.headerSize > MaxHeaderSize
                  \/ ~HasHeader(filled.data) /\ s1.dataSize > MaxDataSize
               THEN Outcome(s1, <<>>, TRUE)
          ELSE IF s1.dataSize = 0 /\ s1.headerSize = 0
               THEN Outcome([s1 EXCEPT !.finished = TRUE], <<>>, TRUE)
          ELSE IF s1.dataSize = 0 THEN ProcessHeader(s1, filled.rest)
          ELSE ProcessData(s1, filled.rest)
  BY <1>3, <1>4 DEF Process, filled, s1, o
<1> HIDE DEF o
<1>7. CASE m < 8
  <2>1. filled.short = TRUE /\ filled.data = Slice(s, 0, m)
    BY <1>5, <1>7
  <2>2. o = Outcome([p EXCEPT !.data = Slice(s, 0, m)], <<>>, FALSE)
    BY <1>6, <2>1
  <2>3. p = [Fresh EXCEPT !.data = Slice(packet, 0, n)]
    <3>1. n < 8
      BY <1>7
    <3> QED
      BY <3>1 DEF p, Partial
  <2>4. ASSUME NEW st, st = [p EXCEPT !.data = Slice(packet, 0, m)]
        PROVE  st = Partial(packet, m)
    <3>1. ASSUME NEW t, t = [Fresh EXCEPT !.data = Slice(packet, 0, m)]
          PROVE  st = t
      BY <2>3, <2>4, <3>1 DEF Fresh
    <3> QED
      BY <1>7, <3>1 DEF Partial
  <2>5. Slice(s, 0, m) = Slice(packet, 0, m)
    <3>1. m <= Len(packet)
      BY <1>1, <1>7
    <3> QED
      BY <1>1, <3>1, SamePrefix
  <2>6. o.parser = Partial(packet, m) /\ o.rest = <<>> /\ o.threw = FALSE
    BY <2>2, <2>4, <2>5 DEF Outcome
  <2>7. m < Len(packet)
    BY <1>1, <1>7
  <2> QED
    BY <2>6, <2>7 DEF Advanced, o, p, c
<1>8. CASE ~(m < 8)
  <2> DEFINE k == Later(n, 8)
  <2>1. /\ k \in Nat /\ 8 <= k /\ n <= k /\ k <= m /\ k <= Len(packet)
        /\ n < 8 => k = 8
        /\ ~(n < 8) => k = n
    BY <1>1, <1>8 DEF Later
  <2> HIDE DEF k
  <2>2. Slice(s, 0, k) = Slice(packet, 0, k)
    BY <1>1, <2>1, SamePrefix
  <2>3. filled.short = FALSE /\ filled.data = Slice(packet, 0, k) /\ filled.rest = Slice(s, k, m)
    BY <1>5, <1>8, <2>2 DEF k
  <2>4. /\ SubSeq(filled.data, 1, 3) = Magic
        /\ filled.data[4] = packet[4]
        /\ SizeOf(filled.data) = h
    <3> DEFINE data == Slice(packet, 0, k)
    <3>1. /\ SubSeq(data, 1, 3) = SubSeq(packet, 1, 3)
          /\ data[4] = packet[4]
          /\ BytesAt(data, 4) = BytesAt(packet, 4)
      BY <1>1, <2>1, FirstEight
    <3>2. filled.data = data
      BY <2>3
    <3> HIDE DEF data
    <3> QED
      BY <1>1, <3>1, <3>2 DEF h, SizeOf
  <2>5. /\ HasHeader(filled.data) <=> HasHeader(packet)
        /\ KindOf(filled.data) = KindOf(packet)
    BY <2>4 DEF HasHeader, KindOf
  <2>6. PICK type, header, size :
            /\ p = [data |-> Slice(packet, 0, n), finished |-> FALSE, type |-> type,
                    headerSize |-> header, dataSize |-> size]
            /\ ~HasHeader(packet) => header = 0
            /\ HasHeader(packet) /\ n < 12 + h => size = 0
            /\ HasHeader(packet) /\ ~(n < 12 + h) => size = Len(packet) - 8
    <3>1. CASE n < 8
      <4>1. p = [data |-> Slice(packet, 0, n), finished |-> FALSE, type |-> "unknown",
                 headerSize |-> 0, dataSize |-> 0]
        <5>1. ASSUME NEW t, t = [Fresh EXCEPT !.data = Slice(packet, 0, n)]
              PROVE  t = [data |-> Slice(packet, 0, n), finished |-> FALSE,
                          type |-> "unknown", headerSize |-> 0, dataSize |-> 0]
          BY <5>1 DEF Fresh
        <5> QED
          BY <3>1, <5>1 DEF p, Partial
      <4>2. n < 12 + h
        BY <1>1, <3>1
      <4> QED
        BY <4>1, <4>2
    <3>2. CASE ~(n < 8) /\ HasHeader(packet) /\ n < 12 + h
      <4>1. p = WithSizes(packet, n, 0)
        BY <3>2 DEF p, Partial, h
      <4> QED
        BY <3>2, <4>1 DEF WithSizes
    <3>3. CASE ~(n < 8) /\ ~(HasHeader(packet) /\ n < 12 + h)
      <4>1. p = WithSizes(packet, n, Len(packet) - 8)
        BY <3>3 DEF p, Partial, h
      <4> QED
        BY <3>3, <4>1 DEF WithSizes
    <3> QED
      BY <3>1, <3>2, <3>3
  <2>7. /\ HasHeader(packet) =>
              IsParser(s1, filled.data, KindOf(packet), h, size)
        /\ ~HasHeader(packet) =>
              IsParser(s1, filled.data, KindOf(packet), header, h)
    <3>1. IsParser(p, Slice(packet, 0, n), type, header, size)
      BY <2>6 DEF IsParser
    <3> DEFINE data == filled.data
    <3>2. s1 = ReadSizes(p, data)
      BY DEF s1
    <3> HIDE DEF data
    <3>3. /\ HasHeader(data) =>
                IsParser(s1, data, KindOf(data), SizeOf(data), size)
          /\ ~HasHeader(data) =>
                IsParser(s1, data, KindOf(data), header, SizeOf(data))
      BY <3>1, <3>2, ReadSizesIs
    <3> QED
      BY <2>4, <2>5, <3>3 DEF data
  <2>8. CASE ~HasHeader(packet)
    <3>1. s1 = WithSizes(packet, k, Len(packet) - 8)
      <4>1. IsParser(s1, filled.data, KindOf(packet), 0, h)
        BY <2>6, <2>7, <2>8
      <4>2. h = Len(packet) - 8
        BY <1>1, <1>2, <2>8
      <4> QED
        BY <2>3, <2>8, <4>1, <4>2 DEF WithSizes, IsParser
    <3>2. s1.dataSize = h /\ s1.headerSize = 0
      <4>1. h = Len(packet) - 8
        BY <1>1, <1>2, <2>8
      <4> QED
        BY <2>8, <3>1, <4>1 DEF WithSizes
    <3>3. ~(s1.dataSize > MaxDataSize) /\ s1.dataSize # 0
      BY <1>1, <1>2, <2>8, <3>2
    <3>4. o = ProcessData(WithSizes(packet, k, Len(packet) - 8), Slice(s, k, m))
      BY <1>6, <2>3, <2>4, <2>5, <2>8, <3>1, <3>3
    <3>5. Advanced(ProcessData(WithSizes(packet, k, Len(packet) - 8), Slice(s, k, m)),
                   packet, s, m)
      BY <2>1, <2>8, ProcessDataAdvances
    <3> QED
      BY <3>4, <3>5 DEF o, p, c
  <2>9. CASE HasHeader(packet) /\ n < 12 + h
    <3>1. s1 = WithSizes(packet, k, 0)
      <4>1. IsParser(s1, filled.data, KindOf(packet), h, 0)
        BY <2>6, <2>7, <2>9
      <4> QED
        BY <2>3, <2>9, <4>1 DEF WithSizes, IsParser, h
    <3>2. s1.dataSize = 0 /\ s1.headerSize = h
      BY <2>9, <3>1 DEF WithSizes, h
    <3>3. ~(s1.headerSize > MaxHeaderSize) /\ s1.headerSize # 0
      BY <1>1, <1>2, <2>9, <3>2
    <3>4. o = ProcessHeader(WithSizes(packet, k, 0), Slice(s, k, m))
      BY <1>6, <2>3, <2>4, <2>5, <2>9, <3>1, <3>2, <3>3
    <3>5. Advanced(ProcessHeader(WithSizes(packet, k, 0), Slice(s, k, m)), packet, s, m)
      <4>1. k <= 12 + SizeOf(packet)
        BY <1>1, <2>1, <2>9 DEF h
      <4> QED
        BY <2>1, <2>9, <4>1, ProcessHeaderAdvances
    <3> QED
      BY <3>4, <3>5 DEF o, p, c
  <2>10. CASE HasHeader(packet) /\ ~(n < 12 + h)
    <3>1. s1 = WithSizes(packet, k, Len(packet) - 8)
      <4>1. IsParser(s1, filled.data, KindOf(packet), h, Len(packet) - 8)
        BY <2>6, <2>7, <2>10
      <4> QED
        BY <2>3, <2>10, <4>1 DEF WithSizes, IsParser, h
    <3>2. s1.dataSize = Len(packet) - 8 /\ s1.headerSize = h
      BY <2>10, <3>1 DEF WithSizes, h
    <3>3. ~(s1.headerSize > MaxHeaderSize) /\ s1.dataSize # 0
      <4>1. Len(packet) - 8 # 0
        <5> DEFINE length == Len(packet)
        <5>1. length \in Nat /\ length > 8
          BY <1>1
        <5> HIDE DEF length
        <5>2. length - 8 # 0
          BY <5>1
        <5> QED
          BY <5>2 DEF length
      <4>2. ~(s1.headerSize > MaxHeaderSize)
        BY <1>2, <2>10, <3>2
      <4> QED
        BY <3>2, <4>1, <4>2
    <3>4. o = ProcessData(WithSizes(packet, k, Len(packet) - 8), Slice(s, k, m))
      BY <1>6, <2>3, <2>4, <2>5, <2>10, <3>1, <3>3
    <3>5. Advanced(ProcessData(WithSizes(packet, k, Len(packet) - 8), Slice(s, k, m)),
                   packet, s, m)
      <4>1. 12 + SizeOf(packet) <= k
        BY <1>1, <2>1, <2>10 DEF h
      <4> QED
        BY <2>1, <4>1, ProcessDataAdvances
    <3> QED
      BY <3>4, <3>5 DEF o, p, c
  <2> QED
    BY <2>8, <2>9, <2>10
<1> QED
  BY <1>7, <1>8

-----------------------------------------------------------------------------
(* What the invariant says of a state                                      *)

LEMMA SliceEmpty ==
    ASSUME NEW s, NEW x \in Nat
    PROVE  Slice(s, x, x) = <<>>
  BY SubSeqEmpty DEF Slice

LEMMA Lengths ==
    ASSUME Typed, PacketsIntact
    PROVE  /\ Len(received) \in Nat /\ Len(sent) \in Nat
           /\ Len(received) <= Len(sent)
           /\ \A i \in 1 .. Len(sent) : sent[i] \in Packets
           /\ sent \in [1 .. Len(sent) -> Packets]
  BY LenProperties DEF Typed, PacketsIntact

(* Where the parser, the chunk and the wire begin and end.                 *)
LEMMA Borders ==
    ASSUME Typed, PacketsIntact, NEW stream \in Seq(Byte),
           NEW ends \in [0 .. Len(sent) -> Nat], NEW x \in Nat, NEW y \in Nat,
           Taken(stream, ends, x, y)
    PROVE  /\ ends[Len(received)] \in Nat
           /\ ends[Len(received)] <= x /\ x <= y /\ y <= Len(stream)
           /\ Len(stream) \in Nat
           /\ Len(chunk) = y - x /\ Len(wire) = Len(stream) - y
           /\ chunk \in Seq(Byte) /\ wire \in Seq(Byte)
<1>1. Len(received) \in 0 .. Len(sent)
  BY Lengths
<1>2. /\ ends[Len(received)] <= x /\ x <= y /\ y <= Len(stream)
      /\ chunk = Slice(stream, x, y) /\ wire = Slice(stream, y, Len(stream))
  BY DEF Taken, Held
<1>3. Len(stream) \in Nat
  BY LenProperties
<1>4. ends[Len(received)] \in Nat
  BY <1>1
<1>5. /\ Slice(stream, x, y) \in Seq(Byte) /\ Len(Slice(stream, x, y)) = y - x
  BY <1>2, SliceIs
<1>6. /\ Slice(stream, y, Len(stream)) \in Seq(Byte)
      /\ Len(Slice(stream, y, Len(stream))) = Len(stream) - y
  <2>1. Len(stream) <= Len(stream)
    BY <1>3
  <2> QED
    BY <1>2, <1>3, <2>1, SliceIs
<1> QED
  BY <1>2, <1>3, <1>4, <1>5, <1>6

(* Packets have been sent that were not received: the parser is in the     *)
(* first of them, all of which is in the stream.                           *)
LEMMA Pending ==
    ASSUME Typed, PacketsIntact, NEW stream \in Seq(Byte),
           NEW ends \in [0 .. Len(sent) -> Nat], NEW x \in Nat, NEW y \in Nat,
           Taken(stream, ends, x, y), Len(received) < Len(sent)
    PROVE  LET packet == sent[Len(received) + 1]
               from == ends[Len(received)]
           IN  /\ packet \in Packets
               /\ ends[Len(received) + 1] = from + Len(packet)
               /\ from + Len(packet) <= Len(stream)
               /\ packet = Slice(stream, from, from + Len(packet))
               /\ x - from < Len(packet)
               /\ parser = Partial(packet, x - from)
<1> DEFINE packet == sent[Len(received) + 1]
           from == ends[Len(received)]
<1>1. /\ Len(received) + 1 \in 1 .. Len(sent) /\ (Len(received) + 1) - 1 = Len(received)
      /\ Len(received) + 1 \in 0 .. Len(sent) /\ Len(sent) \in 0 .. Len(sent)
      /\ Len(received) + 1 <= Len(sent)
  BY Lengths
<1>2. packet \in Packets
  BY <1>1, Lengths
<1>3. /\ ends[Len(received) + 1] = from + Len(packet)
      /\ packet = Slice(stream, from, ends[Len(received) + 1])
  BY <1>1 DEF Taken, Framed
<1>4. ends[Len(received) + 1] <= ends[Len(sent)] /\ ends[Len(sent)] = Len(stream)
  BY <1>1 DEF Taken, Framed
<1>5. x - from < Len(packet) /\ parser = Partial(packet, x - from)
  BY DEF Taken, Unfinished
<1> QED
  BY <1>2, <1>3, <1>4, <1>5

(* All packets were received: nothing is left of the stream.               *)
LEMMA NothingPending ==
    ASSUME Typed, PacketsIntact, NEW stream \in Seq(Byte),
           NEW ends \in [0 .. Len(sent) -> Nat], NEW x \in Nat, NEW y \in Nat,
           Taken(stream, ends, x, y), ~(Len(received) < Len(sent))
    PROVE  /\ Len(received) = Len(sent)
           /\ ends[Len(received)] = Len(stream)
           /\ x = Len(stream) /\ y = Len(stream)
           /\ parser = Fresh
<1>1. Len(received) = Len(sent)
  BY Lengths
<1>2. ends[Len(received)] = Len(stream)
  BY <1>1 DEF Taken, Framed
<1>3. x = Len(stream) /\ y = Len(stream)
  BY <1>2, Borders
<1>4. parser = Fresh
  BY DEF Taken, Unfinished
<1> QED
  BY <1>1, <1>2, <1>3, <1>4

(* The second property follows from the invariant.                         *)
LEMMA WholeWithheld == Whole => NothingWithheld
<1> SUFFICES ASSUME Whole, wire = <<>>, chunk = <<>>
             PROVE  Len(received) = Len(sent) /\ parser = Fresh
  BY DEF NothingWithheld
<1>1. Typed /\ PacketsIntact
  BY DEF Whole
<1>2. PICK stream \in Seq(Byte) :
          \E ends \in [0 .. Len(sent) -> Nat], x \in Nat, y \in Nat :
              Taken(stream, ends, x, y)
  BY DEF Whole, Streamed
<1>3. PICK ends \in [0 .. Len(sent) -> Nat], x \in Nat, y \in Nat :
          Taken(stream, ends, x, y)
  BY <1>2
<1>4. x = Len(stream)
  <2>1. Len(chunk) = 0 /\ Len(wire) = 0
    BY EmptySeq
  <2>2. 0 = y - x /\ 0 = Len(stream) - y /\ Len(stream) \in Nat
    BY <1>1, <1>3, <2>1, Borders
  <2> QED
    BY <2>2
<1>5. ~(Len(received) < Len(sent))
  <2> SUFFICES ASSUME Len(received) < Len(sent) PROVE FALSE
    OBVIOUS
  <2> DEFINE packet == sent[Len(received) + 1]
             from == ends[Len(received)]
  <2>1. /\ packet \in Packets /\ from + Len(packet) <= Len(stream)
        /\ x - from < Len(packet)
    BY <1>1, <1>3, Pending
  <2>2. from \in Nat
    BY <1>1, <1>3, Borders
  <2> HIDE DEF packet, from
  <2>3. Len(packet) \in Nat
    BY <2>1, PacketIs, PacketsWellFormed
  <2> QED
    BY <1>4, <2>1, <2>2, <2>3
<1> QED
  BY <1>1, <1>3, <1>5, NothingPending

(* Initially the stream is empty.                                          *)
LEMMA WholeInit == Init => Whole
<1> SUFFICES ASSUME Init PROVE Whole
  OBVIOUS
<1>1. /\ sent = <<>> /\ received = <<>> /\ wire = <<>> /\ chunk = <<>>
      /\ threw = FALSE /\ parser = Fresh
  BY DEF Init
<1>2. Len(sent) = 0 /\ Len(received) = 0
  BY <1>1, EmptySeq
<1>3. Typed
  BY <1>1, EmptySeq DEF Typed
<1>4. PacketsIntact
  BY <1>2 DEF PacketsIntact
<1> DEFINE ends == [i \in 0 .. 0 |-> 0]
<1>5. <<>> \in Seq(Byte) /\ Len(<<>>) = 0
  BY EmptySeq
<1>6. ends \in [0 .. Len(sent) -> Nat] /\ ends[0] = 0
  BY <1>2
<1> HIDE DEF ends
<1>7. Framed(<<>>, ends)
  <2>1. \A i, j \in 0 .. Len(sent) : i = 0 /\ j = 0
    BY <1>2
  <2>2. 1 .. Len(sent) = {}
    BY <1>2
  <2> QED
    BY <1>2, <1>5, <1>6, <2>1, <2>2 DEF Framed
<1>8. Held(<<>>, ends[Len(received)], 0, 0)
  <2>1. Slice(<<>>, 0, 0) = <<>>
    BY SliceEmpty
  <2>2. parser.data = <<>>
    BY <1>1 DEF Fresh
  <2> QED
    BY <1>1, <1>2, <1>5, <1>6, <2>1, <2>2 DEF Held
<1>9. Unfinished(0 - ends[Len(received)])
  BY <1>1, <1>2 DEF Unfinished
<1>10. Streamed
  BY <1>5, <1>6, <1>7, <1>8, <1>9 DEF Streamed, Taken
<1> QED
  BY <1>3, <1>4, <1>10 DEF Whole

-----------------------------------------------------------------------------
(* Every step keeps the invariant                                          *)

(* A packet written makes the stream, and the wire, longer.                *)
LEMMA WriteStep ==
    ASSUME Whole, NEW packet \in Packets, Write(packet)
    PROVE  Whole'
<1>1. Typed /\ PacketsIntact
  BY DEF Whole
<1>2. PICK stream \in Seq(Byte), ends \in [0 .. Len(sent) -> Nat], x \in Nat, y \in Nat :
          Taken(stream, ends, x, y)
  BY DEF Whole, Streamed
<1>3. Len(sent) \in Nat
  BY <1>1, Lengths
<1>4. PICK l \in Nat : l = Len(sent)
  BY <1>3
<1>5. /\ sent' = Append(sent, packet) /\ wire' = wire \o packet
      /\ parser' = parser /\ chunk' = chunk /\ received' = received /\ threw' = threw
  BY DEF Write
<1>6. packet \in Seq(Byte) /\ Len(packet) \in Nat /\ Len(packet) > 8
  BY PacketIs, PacketsWellFormed
<1>7. l \in Nat /\ Len(received) \in Nat /\ Len(received) <= l
  BY <1>1, <1>4, Lengths
<1>8. /\ sent' \in Seq(Packets) /\ Len(sent') = l + 1
      /\ sent'[l + 1] = packet
      /\ \A i \in 1 .. l : sent'[i] = sent[i]
  BY <1>1, <1>5, <1>4, AppendProperties DEF Typed
<1>9. Typed'
  BY <1>1, <1>5, <1>8 DEF Typed
<1>10. PacketsIntact'
  <2>1. Len(received') <= Len(sent')
    BY <1>5, <1>7, <1>8
  <2>2. ASSUME NEW i \in 1 .. Len(received')
        PROVE  /\ received'[i].packet = sent'[i]
               /\ received'[i].queue = QueueOf(sent'[i])
    <3>1. i \in 1 .. Len(received) /\ i \in 1 .. l
      BY <1>5, <1>7
    <3> QED
      BY <1>1, <1>5, <1>8, <3>1 DEF PacketsIntact
  <2> QED
    BY <2>1, <2>2 DEF PacketsIntact
<1>11. Len(stream) \in Nat /\ Len(stream) + Len(packet) \in Nat
  BY <1>6, LenProperties
<1>12. PICK top \in Nat : top = Len(stream) + Len(packet)
  BY <1>11
<1>13. Len(stream) <= top /\ Len(stream) \in Nat
  BY <1>6, <1>11, <1>12
<1>14. stream \o packet \in Seq(Byte) /\ Len(stream \o packet) = Len(stream) + Len(packet)
  BY <1>6, ConcatProperties
<1>15. PICK stream1 \in Seq(Byte) : stream1 = stream \o packet
  BY <1>14
<1>16. Len(stream1) = top
  BY <1>12, <1>14, <1>15
<1>17. /\ ends[0] = 0 /\ ends[l] = Len(stream)
       /\ \A i, j \in 0 .. l : i <= j => ends[i] <= ends[j]
       /\ \A i \in 1 .. l : /\ ends[i] = ends[i - 1] + Len(sent[i])
                            /\ sent[i] = Slice(stream, ends[i - 1], ends[i])
  BY <1>2, <1>4 DEF Taken, Framed
<1>18. \A i \in 0 .. l : ends[i] \in Nat /\ ends[i] <= Len(stream)
  <2> TAKE i \in 0 .. l
  <2>1. l \in 0 .. l /\ i <= l
    BY <1>7
  <2>2. ends[i] \in Nat
    BY <1>4
  <2> QED
    BY <1>17, <2>1, <2>2
<1>19. PICK ends1 \in [0 .. l + 1 -> Nat] :
           /\ ends1[l + 1] = top
           /\ \A i \in 0 .. l : ends1[i] = ends[i]
  <2> DEFINE longer == [i \in 0 .. l + 1 |-> IF i = l + 1 THEN top ELSE ends[i]]
  <2>1. longer \in [0 .. l + 1 -> Nat]
    <3>1. \A i \in 0 .. l + 1 : i # l + 1 => i \in 0 .. l
      BY <1>7
    <3> QED
      BY <1>13, <1>18, <3>1
  <2>2. longer[l + 1] = top
    <3>1. l + 1 \in 0 .. l + 1
      BY <1>7
    <3> QED
      BY <3>1
  <2>3. \A i \in 0 .. l : longer[i] = ends[i]
    <3>1. \A i \in 0 .. l : i \in 0 .. l + 1 /\ i # l + 1
      BY <1>7
    <3> QED
      BY <3>1
  <2> HIDE DEF longer
  <2> QED
    BY <2>1, <2>2, <2>3
<1>20. \A a, b \in Nat : a <= b /\ b <= Len(stream) => Slice(stream1, a, b) = Slice(stream, a, b)
  BY <1>6, <1>15, SliceOfLonger
<1>21. Framed(stream1, ends1)'
  <2>1. ends1[0] = 0
    <3>1. 0 \in 0 .. l
      BY <1>7
    <3> QED
      BY <1>17, <1>19, <3>1
  <2>2. ends1[Len(sent')] = Len(stream1)
    BY <1>8, <1>16, <1>19
  <2>3. \A i, j \in 0 .. Len(sent') : i <= j => ends1[i] <= ends1[j]
    <3> SUFFICES ASSUME NEW i \in 0 .. l + 1, NEW j \in 0 .. l + 1, i <= j
                 PROVE  ends1[i] <= ends1[j]
      BY <1>8
    <3>1. CASE j = l + 1
      <4>1. CASE i = l + 1
        BY <1>13, <1>19, <3>1, <4>1
      <4>2. CASE i # l + 1
        <5>1. i \in 0 .. l
          BY <1>7, <4>2
        <5> QED
          BY <1>13, <1>18, <1>19, <3>1, <5>1
      <4> QED
        BY <4>1, <4>2
    <3>2. CASE j # l + 1
      <4>1. i \in 0 .. l /\ j \in 0 .. l
        BY <1>7, <3>2
      <4> QED
        BY <1>17, <1>19, <4>1
    <3> QED
      BY <3>1, <3>2
  <2>4. ASSUME NEW i \in 1 .. Len(sent')
        PROVE  /\ ends1[i] = ends1[i - 1] + Len(sent'[i])
               /\ sent'[i] = Slice(stream1, ends1[i - 1], ends1[i])
    <3>1. CASE i = l + 1
      <4>1. i - 1 = l /\ l \in 0 .. l
        BY <1>7, <3>1
      <4>2. ends1[i - 1] = Len(stream) /\ ends1[i] = top /\ sent'[i] = packet
        BY <1>8, <1>17, <1>19, <3>1, <4>1
      <4>3. Slice(stream1, Len(stream), top) = packet
        <5>1. Slice(stream \o packet, Len(stream), Len(stream) + Len(packet))
                  = Slice(stream, Len(stream), Len(stream)) \o packet
          <6>1. Len(stream) <= Len(stream)
            BY <1>13
          <6> QED
            BY <1>6, <1>13, <6>1, LastSlice
        <5>2. Slice(stream, Len(stream), Len(stream)) = <<>>
          BY <1>13, SliceEmpty
        <5>3. <<>> \o packet = packet
          BY <1>6, ConcatEmptySeq
        <5> QED
          BY <5>1, <5>2, <5>3, <1>12, <1>15
      <4> QED
        BY <4>2, <4>3, <1>12
    <3>2. CASE i # l + 1
      <4>1. i \in 1 .. l /\ i \in 0 .. l /\ i - 1 \in 0 .. l /\ i - 1 <= i
        BY <1>7, <1>8, <3>2
      <4>2. /\ ends1[i] = ends[i] /\ ends1[i - 1] = ends[i - 1] /\ sent'[i] = sent[i]
        BY <1>8, <1>19, <4>1
      <4>3. Slice(stream1, ends[i - 1], ends[i]) = Slice(stream, ends[i - 1], ends[i])
        BY <1>17, <1>18, <1>20, <4>1
      <4> QED
        BY <1>17, <4>1, <4>2, <4>3
    <3> QED
      BY <3>1, <3>2
  <2> QED
    BY <2>1, <2>2, <2>3, <2>4 DEF Framed
<1>22. ends1[Len(received)] = ends[Len(received)] /\ ends[Len(received)] \in Nat
  <2>1. Len(received) \in 0 .. l
    BY <1>7
  <2> QED
    BY <1>18, <1>19, <2>1
<1>23. /\ ends[Len(received)] <= x /\ x <= y /\ y <= Len(stream)
       /\ parser.data = Slice(stream, ends[Len(received)], x)
       /\ chunk = Slice(stream, x, y)
       /\ wire = Slice(stream, y, Len(stream))
  BY <1>2 DEF Taken, Held
<1>24. Held(stream1, ends1[Len(received)], x, y)'
  <2>1. /\ Slice(stream1, ends[Len(received)], x) = Slice(stream, ends[Len(received)], x)
        /\ Slice(stream1, x, y) = Slice(stream, x, y)
    <3>1. x <= Len(stream)
      BY <1>13, <1>23
    <3> QED
      BY <1>20, <1>22, <1>23, <3>1
  <2>2. wire' = Slice(stream1, y, Len(stream1))
    <3>1. Slice(stream \o packet, y, Len(stream) + Len(packet))
              = Slice(stream, y, Len(stream)) \o packet
      BY <1>6, <1>23, LastSlice
    <3> QED
      BY <1>5, <1>16, <1>23, <3>1, <1>12, <1>15
  <2>3. y <= Len(stream1)
    BY <1>13, <1>16, <1>23
  <2> QED
    BY <1>5, <1>22, <1>23, <2>1, <2>2, <2>3 DEF Held
<1>25. Unfinished(x - ends1[Len(received)])'
  <2>1. CASE Len(received) < l
    <3>1. Unfinished(x - ends[Len(received)])
      BY <1>2 DEF Taken
    <3>2. Len(received) + 1 \in 1 .. l /\ Len(received) < l + 1
      BY <1>7, <2>1
    <3>3. sent'[Len(received) + 1] = sent[Len(received) + 1]
      BY <1>8, <3>2
    <3> QED
      BY <1>5, <1>8, <1>22, <2>1, <3>1, <3>2, <3>3, <1>4 DEF Unfinished
  <2>2. CASE ~(Len(received) < l)
    <3>1. Len(received) = l /\ x = ends[Len(received)] /\ parser = Fresh
      BY <1>1, <1>2, <2>2, NothingPending, <1>4
    <3>2. sent'[Len(received) + 1] = packet /\ Len(received) < l + 1
      BY <1>7, <1>8, <3>1
    <3>3. x - ends1[Len(received)] = 0 /\ 0 < Len(packet)
      BY <1>6, <1>22, <3>1
    <3> QED
      BY <1>5, <1>8, <3>1, <3>2, <3>3, PartialFresh, <1>4 DEF Unfinished
  <2> QED
    BY <2>1, <2>2
<1>26. Streamed'
  <2>1. Taken(stream1, ends1, x, y)'
    BY <1>5, <1>21, <1>24, <1>25 DEF Taken
  <2> QED
    BY <1>8, <2>1 DEF Streamed
<1> QED
  BY <1>9, <1>10, <1>26 DEF Whole

(* A read moves bytes from the wire to the chunk.                          *)
LEMMA ReadStep ==
    ASSUME Whole, NEW n \in 1 .. Len(wire), Read(n)
    PROVE  Whole'
<1>1. Typed /\ PacketsIntact
  BY DEF Whole
<1>2. PICK stream \in Seq(Byte), ends \in [0 .. Len(sent) -> Nat], x \in Nat, y \in Nat :
          Taken(stream, ends, x, y)
  BY DEF Whole, Streamed
<1>3. /\ chunk = <<>> /\ chunk' = SubSeq(wire, 1, n) /\ wire' = SubSeq(wire, n + 1, Len(wire))
      /\ parser' = parser /\ sent' = sent /\ received' = received /\ threw' = threw
  BY DEF Read
<1>4. /\ ends[Len(received)] \in Nat
      /\ ends[Len(received)] <= x /\ x <= y /\ y <= Len(stream)
      /\ Len(stream) \in Nat
      /\ Len(chunk) = y - x /\ Len(wire) = Len(stream) - y
  <2> HIDE DEF Read
  <2>1. /\ ends[Len(received)] \in Nat
        /\ ends[Len(received)] <= x /\ x <= y /\ y <= Len(stream)
        /\ Len(stream) \in Nat
    BY <1>1, <1>2, Borders
  <2>2. Len(chunk) = y - x /\ Len(wire) = Len(stream) - y
    BY <1>1, <1>2, Borders
  <2> QED
    BY <2>1, <2>2
<1>5. x = y
  <2>1. Len(chunk) = 0
    BY <1>3, EmptySeq
  <2>2. y - x = 0
    BY <1>4, <2>1
  <2> QED
    BY <2>2
<1>6. n \in Nat /\ y + n \in Nat /\ y + n <= Len(stream) /\ y <= y + n
  <2>1. n \in 1 .. Len(stream) - y
    BY <1>4
  <2> QED
    BY <1>4, <2>1
<1>7. wire = Slice(stream, y, Len(stream)) /\ parser.data = Slice(stream, ends[Len(received)], x)
  BY <1>2 DEF Taken, Held
<1>8. chunk' = Slice(stream, y, y + n)
  <2>1. Slice(wire, y - y, (y + n) - y) = Slice(stream, y, y + n)
    <3>1. PICK top \in Nat : top = Len(stream)
      BY <1>4
    <3>2. y <= y /\ y <= y + n /\ y + n <= top /\ top <= Len(stream)
      BY <1>6, <3>1
    <3>3. Slice(Slice(stream, y, top), y - y, (y + n) - y) = Slice(stream, y, y + n)
      BY <1>6, <3>2, SliceWithin
    <3> QED
      BY <1>7, <3>1, <3>3
  <2>2. (y - y) + 1 = 1 /\ (y + n) - y = n
    BY <1>6
  <2> QED
    BY <1>3, <2>1, <2>2 DEF Slice
<1>9. wire' = Slice(stream, y + n, Len(stream))
  <2>1. Slice(wire, (y + n) - y, Len(stream) - y) = Slice(stream, y + n, Len(stream))
    <3>1. PICK top \in Nat : top = Len(stream)
      BY <1>4
    <3>2. y <= y + n /\ y + n <= top /\ top <= top /\ top <= Len(stream)
      BY <1>6, <3>1
    <3>3. Slice(Slice(stream, y, top), (y + n) - y, top - y) = Slice(stream, y + n, top)
      BY <1>6, <3>2, SliceWithin
    <3> QED
      BY <1>7, <3>1, <3>3
  <2>2. (y + n) - y = n
    BY <1>6
  <2> QED
    BY <1>3, <1>4, <2>1, <2>2 DEF Slice
<1>10. Held(stream, ends[Len(received)], y, y + n)'
  BY <1>3, <1>4, <1>5, <1>6, <1>7, <1>8, <1>9 DEF Held
<1>11. Taken(stream, ends, y, y + n)'
  <2>1. Framed(stream, ends)' /\ Unfinished(y - ends[Len(received)])'
    BY <1>2, <1>3, <1>5 DEF Taken, Framed, Unfinished
  <2> QED
    BY <1>3, <1>10, <2>1 DEF Taken
<1>12. Streamed'
  BY <1>3, <1>6, <1>11 DEF Streamed
<1>13. Typed' /\ PacketsIntact'
  BY <1>1, <1>3 DEF Typed, PacketsIntact
<1> QED
  BY <1>12, <1>13 DEF Whole

LEMMA ReconnectStep ==
    ASSUME Whole, Reconnect \/ UNCHANGED vars
    PROVE  Whole'
<1>1. /\ chunk' = chunk /\ wire' = wire /\ parser' = parser /\ sent' = sent
      /\ received' = received /\ threw' = threw
  BY DEF Reconnect, vars
<1>2. PICK stream \in Seq(Byte), ends \in [0 .. Len(sent) -> Nat], x \in Nat, y \in Nat :
          Taken(stream, ends, x, y)
  BY DEF Whole, Streamed
<1>3. Framed(stream, ends)'
  BY <1>1, <1>2 DEF Taken, Framed
<1>4. Held(stream, ends[Len(received)], x, y)'
  BY <1>1, <1>2 DEF Taken, Held
<1>5. Unfinished(x - ends[Len(received)])'
  BY <1>1, <1>2 DEF Taken, Unfinished
<1>6. Taken(stream, ends, x, y)'
  BY <1>1, <1>3, <1>4, <1>5 DEF Taken
<1>7. Streamed'
  BY <1>1, <1>6 DEF Streamed
<1>8. Typed' /\ PacketsIntact'
  BY <1>1 DEF Whole, Typed, PacketsIntact
<1> QED
  BY <1>7, <1>8 DEF Whole

(* A connection that breaks between two packets takes the last packet with *)
(* it or leaves everything: the stream ends one packet earlier or goes on. *)
LEMMA BreakStep ==
    ASSUME CutAnywhere = FALSE, Whole, Break
    PROVE  Whole'
<1>1. Typed /\ PacketsIntact
  BY DEF Whole
<1>2. /\ chunk' = chunk /\ parser' = parser /\ received' = received /\ threw' = threw
  BY DEF Break
<1>3. CASE UNCHANGED <<wire, sent>>
  <2>1. PICK stream \in Seq(Byte), ends \in [0 .. Len(sent) -> Nat], x \in Nat, y \in Nat :
            Taken(stream, ends, x, y)
    BY DEF Whole, Streamed
  <2>2. wire' = wire /\ sent' = sent
    BY <1>3
  <2>3. Framed(stream, ends)'
    BY <2>1, <2>2 DEF Taken, Framed
  <2>4. Held(stream, ends[Len(received)], x, y)'
    BY <1>2, <2>1, <2>2 DEF Taken, Held
  <2>5. Unfinished(x - ends[Len(received)])'
    BY <1>2, <2>1, <2>2 DEF Taken, Unfinished
  <2>6. Taken(stream, ends, x, y)'
    BY <1>2, <2>3, <2>4, <2>5 DEF Taken
  <2>7. Streamed'
    BY <2>2, <2>6 DEF Streamed
  <2>8. Typed' /\ PacketsIntact'
    BY <1>1, <1>2, <2>2 DEF Typed, PacketsIntact
  <2> QED
    BY <2>7, <2>8 DEF Whole
<1>4. CASE ~UNCHANGED <<wire, sent>>
  <2>1. PICK stream \in Seq(Byte), ends \in [0 .. Len(sent) -> Nat], x \in Nat, y \in Nat :
            Taken(stream, ends, x, y)
    BY DEF Whole, Streamed
  <2>2. /\ sent # <<>>
        /\ Len(LastPacket) <= Len(wire)
        /\ wire' = SubSeq(wire, 1, Len(wire) - Len(LastPacket))
        /\ sent' = SubSeq(sent, 1, Len(sent) - 1)
    BY <1>4 DEF Break, Losses
  <2>3. Len(sent) \in Nat /\ Len(sent) # 0
    <3>1. sent \in Seq(Packets)
      BY <1>1 DEF Typed
    <3> QED
      BY <2>2, <3>1, EmptySeq
  <2>4. PICK l \in Nat : l = Len(sent) - 1
    BY <2>3
  <2>5. Len(sent) = l + 1 /\ l + 1 \in 1 .. Len(sent) /\ l \in 0 .. Len(sent)
        /\ l + 1 \in 0 .. Len(sent)
    BY <2>3, <2>4
  <2>6. PICK lost \in Nat : lost = Len(LastPacket) /\ lost > 8
    <3>1. LastPacket \in Packets
      BY <1>1, <2>5, Lengths DEF LastPacket
    <3> QED
      BY <3>1, PacketIs, PacketsWellFormed
  <2>7. /\ ends[0] = 0 /\ ends[l + 1] = Len(stream)
        /\ \A i, j \in 0 .. l + 1 : i <= j => ends[i] <= ends[j]
        /\ \A i \in 1 .. l + 1 : /\ ends[i] = ends[i - 1] + Len(sent[i])
                                 /\ sent[i] = Slice(stream, ends[i - 1], ends[i])
    BY <2>1, <2>5 DEF Taken, Framed
  <2>8. \A i \in 0 .. l + 1 : ends[i] \in Nat
    BY <2>5
  <2>9. PICK top \in Nat : top = ends[l]
    BY <2>5
  <2>10. Len(stream) = top + lost /\ Len(stream) \in Nat /\ top <= Len(stream)
    <3>1. l + 1 \in 1 .. l + 1 /\ (l + 1) - 1 = l
      BY <2>5
    <3>2. LastPacket = sent[l + 1]
      BY <2>5 DEF LastPacket
    <3>3. ends[l + 1] = ends[l] + Len(sent[l + 1])
      BY <2>7, <3>1
    <3>4. Len(stream) = top + lost
      BY <2>6, <2>7, <2>9, <3>2, <3>3
    <3> QED
      BY <3>4
  <2>11. /\ ends[Len(received)] \in Nat
         /\ ends[Len(received)] <= x /\ x <= y /\ y <= Len(stream)
         /\ Len(wire) = Len(stream) - y
    <3> HIDE DEF Break
    <3> QED
      BY <1>1, <2>1, Borders
  <2>12. y <= top /\ Len(wire) - lost = top - y
    BY <2>2, <2>6, <2>10, <2>11
  <2>13. Len(received) \in Nat /\ Len(received) <= l
    <3>1. Len(received) < Len(sent)
      <4> SUFFICES ASSUME ~(Len(received) < Len(sent)) PROVE FALSE
        OBVIOUS
      <4>1. y = Len(stream)
        BY <1>1, <2>1, NothingPending
      <4> QED
        BY <2>6, <2>10, <2>12, <4>1
    <3>2. Len(received) \in Nat
      BY <1>1, Lengths
    <3> QED
      BY <2>5, <3>1, <3>2
  <2>14. /\ sent' \in Seq(Packets) /\ Len(sent') = l
         /\ \A i \in 1 .. l : sent'[i] = sent[i]
    <3>1. sent' = SubSeq(sent, 1, l)
      BY <2>2, <2>4
    <3>2. \A i \in 1 .. l : sent[i] \in Packets
      BY <1>1, <2>5, Lengths
    <3>3. /\ SubSeq(sent, 1, l) \in Seq(Packets)
          /\ Len(SubSeq(sent, 1, l)) = IF 1 <= l THEN l - 1 + 1 ELSE 0
          /\ \A i \in 1 .. l - 1 + 1 : SubSeq(sent, 1, l)[i] = sent[1 + i - 1]
      BY <3>2, SubSeqProperties
    <3>4. l - 1 + 1 = l /\ \A i \in 1 .. l : 1 + i - 1 = i
      OBVIOUS
    <3>5. (IF 1 <= l THEN l ELSE 0) = l
      OBVIOUS
    <3> QED
      BY <3>1, <3>3, <3>4, <3>5
  <2>15. Typed'
    BY <1>1, <1>2, <2>14 DEF Typed
  <2>16. PacketsIntact'
    <3>1. ASSUME NEW i \in 1 .. Len(received')
          PROVE  /\ received'[i].packet = sent'[i]
                 /\ received'[i].queue = QueueOf(sent'[i])
      <4>1. i \in 1 .. Len(received) /\ i \in 1 .. l
        BY <1>2, <2>13
      <4> QED
        BY <1>1, <1>2, <2>14, <4>1 DEF PacketsIntact
    <3> QED
      BY <1>2, <2>13, <2>14, <3>1 DEF PacketsIntact
  <2>17. PICK stream1 \in Seq(Byte) : stream1 = Slice(stream, 0, top) /\ Len(stream1) = top
    <3>1. 0 <= top /\ top - 0 = top
      OBVIOUS
    <3> QED
      BY <2>10, <3>1, SliceIs
  <2>18. \A a, b \in Nat : a <= b /\ b <= top => Slice(stream1, a, b) = Slice(stream, a, b)
    <3> TAKE a, b \in Nat
    <3> HAVE a <= b /\ b <= top
    <3>1. Slice(Slice(stream, 0, top), a - 0, b - 0) = Slice(stream, a, b)
      BY <2>10, SliceWithin
    <3>2. a - 0 = a /\ b - 0 = b
      OBVIOUS
    <3> QED
      BY <2>17, <3>1, <3>2
  <2>19. PICK ends1 \in [0 .. l -> Nat] : \A i \in 0 .. l : ends1[i] = ends[i]
    <3> DEFINE shorter == [i \in 0 .. l |-> ends[i]]
    <3>1. \A i \in 0 .. l : i \in 0 .. l + 1
      OBVIOUS
    <3>2. shorter \in [0 .. l -> Nat]
      BY <2>8, <3>1
    <3>3. \A i \in 0 .. l : shorter[i] = ends[i]
      OBVIOUS
    <3> HIDE DEF shorter
    <3> QED
      BY <3>2, <3>3
  <2>20. \A i \in 0 .. l : i \in 0 .. l + 1 /\ ends[i] \in Nat /\ ends[i] <= top
    <3> TAKE i \in 0 .. l
    <3>1. i \in 0 .. l + 1 /\ l \in 0 .. l + 1 /\ i <= l
      OBVIOUS
    <3> QED
      BY <2>7, <2>8, <2>9, <3>1
  <2>21. Framed(stream1, ends1)'
    <3>1. ends1[0] = 0 /\ ends1[Len(sent')] = Len(stream1)
      <4>1. 0 \in 0 .. l /\ l \in 0 .. l
        OBVIOUS
      <4> QED
        BY <2>7, <2>9, <2>14, <2>17, <2>19, <4>1
    <3>2. \A i, j \in 0 .. Len(sent') : i <= j => ends1[i] <= ends1[j]
      BY <2>7, <2>14, <2>19, <2>20
    <3>3. ASSUME NEW i \in 1 .. Len(sent')
          PROVE  /\ ends1[i] = ends1[i - 1] + Len(sent'[i])
                 /\ sent'[i] = Slice(stream1, ends1[i - 1], ends1[i])
      <4>1. i \in 1 .. l /\ i \in 1 .. l + 1 /\ i \in 0 .. l /\ i - 1 \in 0 .. l
            /\ i \in 0 .. l + 1 /\ i - 1 \in 0 .. l + 1 /\ i - 1 <= i
        BY <2>14
      <4>2. ends1[i] = ends[i] /\ ends1[i - 1] = ends[i - 1] /\ sent'[i] = sent[i]
        BY <2>14, <2>19, <4>1
      <4>3. Slice(stream1, ends[i - 1], ends[i]) = Slice(stream, ends[i - 1], ends[i])
        <5>1. ends[i - 1] <= ends[i]
          BY <2>7, <4>1
        <5> QED
          BY <2>18, <2>20, <4>1, <5>1
      <4> QED
        BY <2>7, <4>1, <4>2, <4>3
    <3> QED
      BY <3>1, <3>2, <3>3 DEF Framed
  <2>22. ends1[Len(received)] = ends[Len(received)]
    <3>1. Len(received) \in 0 .. l
      BY <2>13
    <3> QED
      BY <2>19, <3>1
  <2>23. /\ parser.data = Slice(stream, ends[Len(received)], x)
         /\ chunk = Slice(stream, x, y)
         /\ wire = Slice(stream, y, Len(stream))
    BY <2>1 DEF Taken, Held
  <2>24. Held(stream1, ends1[Len(received)], x, y)'
    <3>1. /\ Slice(stream1, ends[Len(received)], x) = Slice(stream, ends[Len(received)], x)
          /\ Slice(stream1, x, y) = Slice(stream, x, y)
          /\ Slice(stream1, y, top) = Slice(stream, y, top)
      <4>1. x <= top /\ top <= top
        BY <2>11, <2>12
      <4> QED
        BY <2>11, <2>12, <2>18, <4>1
    <3>2. wire' = Slice(stream, y, top)
      <4>1. Slice(wire, y - y, top - y) = Slice(stream, y, top)
        <5>1. PICK all \in Nat : all = Len(stream)
          BY <2>10
        <5>2. y <= y /\ y <= top /\ top <= all /\ all <= Len(stream)
          BY <2>10, <2>12, <5>1
        <5>3. Slice(Slice(stream, y, all), y - y, top - y) = Slice(stream, y, top)
          BY <5>2, SliceWithin
        <5> QED
          BY <2>23, <5>1, <5>3
      <4>2. (y - y) + 1 = 1
        OBVIOUS
      <4>3. SubSeq(wire, 1, top - y) = Slice(stream, y, top)
        BY <4>1, <4>2 DEF Slice
      <4>4. wire' = SubSeq(wire, 1, top - y)
        BY <2>2, <2>6, <2>12
      <4> QED
        BY <4>3, <4>4
    <3> QED
      BY <1>2, <2>11, <2>12, <2>17, <2>22, <2>23, <3>1, <3>2 DEF Held
  <2>25. Unfinished(x - ends1[Len(received)])'
    <3>1. Unfinished(x - ends[Len(received)])
      BY <2>1 DEF Taken
    <3>2. CASE Len(received) < l
      <4>1. Len(received) + 1 \in 1 .. l
        BY <2>13, <3>2
      <4>2. sent'[Len(received) + 1] = sent[Len(received) + 1]
        BY <2>14, <4>1
      <4>3. Len(received) < Len(sent)
        BY <2>5, <2>13, <3>2
      <4> QED
        BY <1>2, <2>14, <2>22, <3>1, <3>2, <4>2, <4>3 DEF Unfinished
    <3>3. CASE ~(Len(received) < l)
      <4>1. Len(received) = l /\ Len(received) < Len(sent)
        BY <2>5, <2>13, <3>3
      <4>2. x - ends[Len(received)] = 0
        <5>1. ends[Len(received)] = top
          BY <2>9, <4>1
        <5>2. x = top
          BY <2>11, <2>12, <5>1
        <5> QED
          BY <5>1, <5>2
      <4>3. parser = Fresh
        BY <3>1, <4>1, <4>2, PartialFresh DEF Unfinished
      <4> QED
        BY <1>2, <2>14, <3>3, <4>3 DEF Unfinished
    <3> QED
      BY <3>2, <3>3
  <2>26. Taken(stream1, ends1, x, y)'
    BY <1>2, <2>21, <2>24, <2>25 DEF Taken
  <2>27. Streamed'
    BY <2>14, <2>26 DEF Streamed
  <2> QED
    BY <2>15, <2>16, <2>27 DEF Whole
<1> QED
  BY <1>3, <1>4

(* Processing a chunk moves the border between the parser and the chunk    *)
(* and takes a packet off the stream when that is complete.                *)
LEMMA ProcessStep ==
    ASSUME Whole, ProcessChunk
    PROVE  Whole'
<1>1. Typed /\ PacketsIntact
  BY DEF Whole
<1>2. PICK stream \in Seq(Byte), ends \in [0 .. Len(sent) -> Nat], x \in Nat, y \in Nat :
          Taken(stream, ends, x, y)
  BY DEF Whole, Streamed
<1>3. chunk # <<>> /\ wire' = wire /\ sent' = sent
  BY DEF ProcessChunk
<1>4. /\ ends[Len(received)] \in Nat
      /\ ends[Len(received)] <= x /\ x <= y /\ y <= Len(stream)
      /\ Len(stream) \in Nat
      /\ Len(chunk) = y - x /\ chunk \in Seq(Byte)
  <2> HIDE DEF ProcessChunk
  <2> QED
    BY <1>1, <1>2, Borders
<1>5. x < y
  <2>1. Len(chunk) # 0
    BY <1>3, <1>4, EmptySeq
  <2> QED
    BY <1>4, <2>1
<1>6. Len(received) < Len(sent) /\ Len(received) \in Nat
  <2>1. Len(received) < Len(sent)
    <3> SUFFICES ASSUME ~(Len(received) < Len(sent)) PROVE FALSE
      OBVIOUS
    <3>1. x = Len(stream) /\ y = Len(stream)
      BY <1>1, <1>2, NothingPending
    <3> QED
      BY <1>5, <3>1
  <2> QED
    BY <1>1, <2>1, Lengths
<1>7. PICK from \in Nat : from = ends[Len(received)]
  BY <1>4
<1>8. PICK packet \in Packets : packet = sent[Len(received) + 1]
  BY <1>1, <1>2, <1>6, Pending, Zenon
<1>9. /\ ends[Len(received) + 1] = from + Len(packet)
      /\ from + Len(packet) <= Len(stream)
      /\ packet = Slice(stream, from, from + Len(packet))
      /\ x - from < Len(packet)
      /\ parser = Partial(packet, x - from)
  <2> DEFINE p == sent[Len(received) + 1]
             f == ends[Len(received)]
  <2>1. /\ ends[Len(received) + 1] = f + Len(p)
        /\ f + Len(p) <= Len(stream)
        /\ p = Slice(stream, f, f + Len(p))
        /\ x - f < Len(p)
        /\ parser = Partial(p, x - f)
    BY <1>1, <1>2, <1>6, Pending, Zenon
  <2>2. f = from /\ p = packet
    BY <1>7, <1>8
  <2> HIDE DEF f, p
  <2> QED
    BY <2>1, <2>2
<1>10. packet \in Seq(Byte) /\ Len(packet) \in Nat /\ Len(packet) > 8
  BY PacketIs, PacketsWellFormed
<1>11. PICK n \in Nat : n = x - from
  BY <1>4, <1>7
<1>12. PICK m \in Nat : m = y - from
  BY <1>4, <1>7
<1>13. PICK top \in Nat : top = Len(stream) /\ from <= top /\ top <= Len(stream)
  BY <1>4, <1>7
<1>14. PICK s \in Seq(Byte) :
           s = Slice(stream, from, top) /\ Len(s) = Len(stream) - from
  <2>1. Slice(stream, from, top) \in Seq(Byte) /\ Len(Slice(stream, from, top)) = top - from
    BY <1>13, SliceIs
  <2> QED
    BY <1>13, <2>1
<1>15. \A a, b \in Nat : from <= a /\ a <= b /\ b <= Len(stream) =>
           Slice(s, a - from, b - from) = Slice(stream, a, b)
  <2> TAKE a, b \in Nat
  <2> HAVE from <= a /\ a <= b /\ b <= Len(stream)
  <2>1. Slice(Slice(stream, from, top), a - from, b - from) = Slice(stream, a, b)
    BY <1>13, SliceWithin
  <2> QED
    BY <1>14, <2>1
<1>16. Heads(packet, s)
  <2>1. from <= from /\ from <= from + Len(packet) /\ from + Len(packet) \in Nat
    BY <1>10
  <2>2. Slice(s, from - from, (from + Len(packet)) - from) = packet
    BY <1>9, <1>15, <2>1
  <2>3. from - from = 0 /\ (from + Len(packet)) - from = Len(packet)
    BY <1>10
  <2>4. Len(packet) <= Len(s)
    BY <1>4, <1>9, <1>10, <1>14
  <2> QED
    BY <2>2, <2>3, <2>4 DEF Heads
<1>17. /\ chunk = Slice(stream, x, y)
       /\ wire = Slice(stream, y, Len(stream))
  BY <1>2 DEF Taken, Held
<1>18. chunk = Slice(s, n, m)
  BY <1>4, <1>7, <1>11, <1>12, <1>15, <1>17
<1>19. n < Len(packet) /\ n < m /\ m <= Len(s)
  <2>1. n < Len(packet)
    BY <1>9, <1>11
  <2>2. n < m
    <3>1. x - from < y - from
      BY <1>5
    <3> QED
      BY <1>11, <1>12, <3>1
  <2>3. m <= Len(s)
    <3>1. y <= Len(stream) /\ Len(stream) \in Nat /\ from <= y
      BY <1>4, <1>7
    <3>2. y - from <= Len(stream) - from
      BY <3>1
    <3> QED
      BY <1>12, <1>14, <3>2
  <2> QED
    BY <2>1, <2>2, <2>3
<1> DEFINE o == Process(parser, chunk)
<1>20. Advanced(o, packet, s, m)
  BY <1>9, <1>11, <1>16, <1>18, <1>19, ProcessAdvances, PacketsWellFormed
<1>21. /\ chunk' = o.rest /\ threw' = threw
       /\ \/ /\ o.parser.finished
             /\ parser' = Fresh
             /\ \E stored \in BOOLEAN :
                    received' = Append(received,
                        [queue |-> Queue(o.parser), packet |-> o.parser.data,
                         stored |-> stored])
          \/ ~o.parser.finished /\ parser' = o.parser /\ received' = received
  <2>1. o.threw = FALSE
    BY <1>20 DEF Advanced
  <2> HIDE DEF o
  <2>2. IF o.threw
        THEN parser' = Fresh /\ chunk' = <<>> /\ threw' = TRUE /\ UNCHANGED received
        ELSE /\ chunk' = o.rest
             /\ UNCHANGED threw
             /\ IF o.parser.finished
                THEN /\ parser' = Fresh
                     /\ \E stored \in {TRUE, ~QueueMayFill} :
                           received' = Append(received,
                              [queue |-> Queue(o.parser), packet |-> o.parser.data,
                               stored |-> stored])
                ELSE parser' = o.parser /\ UNCHANGED received
    BY DEF ProcessChunk, o
  <2>3. {TRUE, ~QueueMayFill} \subseteq BOOLEAN
    OBVIOUS
  <2>4. CASE o.parser.finished
    BY <2>1, <2>2, <2>3, <2>4
  <2>5. CASE ~o.parser.finished
    BY <2>1, <2>2, <2>5
  <2> QED
    BY <2>4, <2>5
<1> HIDE DEF o
<1>22. CASE m < Len(packet)
  <2>1. o.parser = Partial(packet, m) /\ o.rest = <<>>
    BY <1>20, <1>22 DEF Advanced
  <2>2. o.parser.finished = FALSE
    BY <2>1, PartialIs
  <2>3. parser' = Partial(packet, m) /\ received' = received /\ chunk' = <<>> /\ threw' = threw
    BY <1>21, <2>1, <2>2
  <2>4. Framed(stream, ends)'
    BY <1>2, <1>3 DEF Taken, Framed
  <2>5. Held(stream, ends[Len(received)], y, y)'
    <3>1. parser'.data = Slice(stream, from, y)
      <4>1. parser'.data = Slice(packet, 0, m)
        BY <2>3, PartialIs
      <4>2. Slice(packet, 0, m) = Slice(s, 0, m)
        BY <1>10, <1>16, <1>22, SamePrefix
      <4>3. Slice(s, from - from, y - from) = Slice(stream, from, y)
        <5>1. from <= from /\ from <= y /\ y <= Len(stream)
          BY <1>4, <1>7
        <5> QED
          BY <1>15, <5>1
      <4>4. from - from = 0
        OBVIOUS
      <4> QED
        BY <1>12, <4>1, <4>2, <4>3, <4>4
    <3>2. Slice(stream, y, y) = <<>>
      BY SliceEmpty
    <3>3. from <= y /\ y <= y
      BY <1>4, <1>7
    <3> QED
      BY <1>3, <1>4, <1>7, <1>17, <2>3, <3>1, <3>2, <3>3 DEF Held
  <2>6. Unfinished(y - ends[Len(received)])'
    BY <1>3, <1>6, <1>7, <1>8, <1>12, <1>22, <2>3 DEF Unfinished
  <2>7. Taken(stream, ends, y, y)'
    BY <2>3, <2>4, <2>5, <2>6 DEF Taken
  <2>8. Streamed'
    BY <1>3, <2>7 DEF Streamed
  <2>9. Typed' /\ PacketsIntact'
    BY <1>1, <1>3, <2>3 DEF Typed, PacketsIntact
  <2> QED
    BY <2>8, <2>9 DEF Whole
<1>23. CASE ~(m < Len(packet))
  <2>1. /\ o.parser.finished = TRUE /\ o.parser.data = packet
        /\ o.parser.type = KindOf(packet) /\ o.rest = Slice(s, Len(packet), m)
    BY <1>20, <1>23 DEF Advanced
  <2>2. PICK stored \in BOOLEAN :
            received' = Append(received, [queue |-> Queue(o.parser), packet |-> packet,
                                          stored |-> stored])
    BY <1>21, <2>1
  <2>3. parser' = Fresh /\ chunk' = Slice(s, Len(packet), m) /\ threw' = threw
    BY <1>21, <2>1
  <2>4. Queue(o.parser) = QueueOf(packet) /\ QueueOf(packet) \in {0, 1}
    <3>1. packet[4] \in Nat
      <4>1. 4 \in 1 .. Len(packet)
        BY <1>10
      <4>2. packet[4] \in Byte
        BY <1>10, <4>1, LenProperties
      <4>3. \A e \in Byte : e \in Nat
        BY DEF Byte
      <4> QED
        BY <4>2, <4>3
    <3>2. packet[4] % 2 \in {0, 1}
      BY <3>1
    <3> QED
      BY <2>1, <3>2 DEF Queue, QueueOf, KindOf
  <2>5. PICK r \in Nat : r = Len(received)
    BY <1>6
  <2> DEFINE entry == [queue |-> QueueOf(packet), packet |-> packet, stored |-> stored]
             Entries == [queue : {0, 1}, packet : Packets, stored : BOOLEAN]
  <2>6. entry \in Entries /\ entry.packet = packet /\ entry.queue = QueueOf(packet)
    BY <2>4
  <2>7. received' = Append(received, entry) /\ received \in Seq(Entries)
    BY <1>1, <2>2, <2>4 DEF Typed
  <2> HIDE DEF entry, Entries
  <2>8. /\ received' \in Seq(Entries) /\ Len(received') = r + 1
        /\ received'[r + 1] = entry
        /\ \A i \in 1 .. r : received'[i] = received[i]
    BY <2>5, <2>6, <2>7, AppendProperties
  <2>9. Typed'
    BY <1>1, <1>3, <2>3, <2>8 DEF Typed, Entries
  <2>10. r + 1 \in 1 .. Len(sent) /\ r + 1 <= Len(sent) /\ Len(sent) \in Nat
    <3>1. Len(sent) \in Nat
      BY <1>1, Lengths
    <3> QED
      BY <1>6, <2>5, <3>1
  <2>11. PacketsIntact'
    <3>1. ASSUME NEW i \in 1 .. Len(received')
          PROVE  /\ received'[i].packet = sent'[i]
                 /\ received'[i].queue = QueueOf(sent'[i])
      <4>1. CASE i = r + 1
        BY <1>3, <1>8, <2>5, <2>6, <2>8, <4>1
      <4>2. CASE i # r + 1
        <5>1. i \in 1 .. r /\ i \in 1 .. Len(received)
          BY <2>5, <2>8, <4>2
        <5> QED
          BY <1>1, <1>3, <2>8, <5>1 DEF PacketsIntact
      <4> QED
        BY <4>1, <4>2
    <3> QED
      BY <1>3, <2>8, <2>10, <3>1 DEF PacketsIntact
  <2>12. PICK to \in Nat : to = from + Len(packet)
    BY <1>10
  <2>13. ends[Len(received')] = to
    BY <1>9, <2>5, <2>8, <2>12
  <2>14. to <= y /\ from <= to /\ to - from = Len(packet)
    <3>1. Len(packet) <= m
      BY <1>10, <1>23
    <3>2. from <= to /\ to - from = Len(packet)
      BY <1>10, <2>12
    <3>3. to <= y
      BY <1>10, <1>12, <2>12, <3>1
    <3> QED
      BY <3>2, <3>3
  <2>15. chunk' = Slice(stream, to, y)
    <3>1. Slice(s, to - from, y - from) = Slice(stream, to, y)
      BY <1>4, <1>15, <2>14
    <3> QED
      BY <1>12, <2>3, <2>14, <3>1
  <2>16. Held(stream, ends[Len(received)], to, y)'
    <3>1. Slice(stream, to, to) = <<>>
      BY SliceEmpty
    <3>2. parser'.data = <<>>
      BY <2>3 DEF Fresh
    <3> QED
      BY <1>3, <1>4, <1>17, <2>13, <2>14, <2>15, <3>1, <3>2 DEF Held
  <2>17. Unfinished(to - ends[Len(received)])'
    <3>1. to - to = 0
      OBVIOUS
    <3>2. CASE r + 1 < Len(sent)
      <4>1. r + 2 \in 1 .. Len(sent) /\ (r + 1) + 1 = r + 2
        BY <2>10, <3>2
      <4>2. sent[r + 2] \in Packets
        BY <1>1, <4>1, Lengths
      <4>3. 0 < Len(sent[r + 2])
        BY <4>2, PacketIs, PacketsWellFormed
      <4>4. parser' = Partial(sent[r + 2], 0)
        BY <2>3, PartialFresh
      <4> QED
        BY <1>3, <2>8, <2>13, <3>1, <3>2, <4>1, <4>3, <4>4 DEF Unfinished
    <3>3. CASE ~(r + 1 < Len(sent))
      BY <1>3, <2>3, <2>8, <3>3 DEF Unfinished
    <3> QED
      BY <3>2, <3>3
  <2>18. Framed(stream, ends)'
    BY <1>2, <1>3 DEF Taken, Framed
  <2>19. Taken(stream, ends, to, y)'
    BY <2>16, <2>17, <2>18 DEF Taken
  <2>20. Streamed'
    BY <1>3, <2>19 DEF Streamed
  <2> QED
    BY <2>9, <2>11, <2>20 DEF Whole
<1> QED
  BY <1>22, <1>23

(* The invariant holds in every state.                                     *)
LEMMA WholeAlways ==
    ASSUME CutAnywhere = FALSE
    PROVE  Spec => []Whole
<1>1. Init => Whole
  BY WholeInit
<1>2. Whole /\ [Next]_vars => Whole'
  <2> SUFFICES ASSUME Whole, [Next]_vars PROVE Whole'
    OBVIOUS
  <2>1. ASSUME NEW packet \in Packets, Write(packet) PROVE Whole'
    BY <2>1, WriteStep
  <2>2. ASSUME NEW n \in 1 .. Len(wire), Read(n) PROVE Whole'
    BY <2>2, ReadStep
  <2>3. CASE ProcessChunk
    BY <2>3, ProcessStep
  <2>4. CASE Break
    BY <2>4, BreakStep
  <2>5. CASE Reconnect \/ UNCHANGED vars
    BY <2>5, ReconnectStep
  <2> QED
    BY <2>1, <2>2, <2>3, <2>4, <2>5 DEF Next
<1> QED
  BY <1>1, <1>2, PTL DEF Spec

-----------------------------------------------------------------------------
(* PacketsIntact: however the stream is cut into chunks, what comes out of *)
(* the parser (IIpcClient.cpp:247-258) are the packets the server wrote,   *)
(* in order, each in the queue of its kind, also over connections that     *)
(* break between two packets.                                              *)
THEOREM PacketsAlwaysIntact ==
    ASSUME CutAnywhere = FALSE
    PROVE  Spec => []PacketsIntact
<1>1. Whole => PacketsIntact
  BY DEF Whole
<1> QED
  BY <1>1, WholeAlways, PTL

(* NothingWithheld: when everything that was written has been read and     *)
(* processed, every packet has come out and the parser is as new.          *)
THEOREM NothingEverWithheld ==
    ASSUME CutAnywhere = FALSE
    PROVE  Spec => []NothingWithheld
  BY WholeAlways, WholeWithheld, PTL

(* NoProtocolError: process never throws (BinaryRpc.cpp:76-113) for the    *)
(* packets of a server that writes well-formed ones.  The run reader_break *)
(* shows that this needs the hypothesis: a connection that breaks inside a *)
(* packet leaves a part of it in the parser.                               *)
THEOREM NeverAProtocolError ==
    ASSUME CutAnywhere = FALSE
    PROVE  Spec => []NoProtocolError
<1>1. Whole => NoProtocolError
  BY DEF Whole, Typed, NoProtocolError
<1> QED
  BY <1>1, WholeAlways, PTL
=============================================================================
