---------------------------- MODULE PacketReader ----------------------------
(***************************************************************************)
(* The part of IIpcClient::mainThread that reads the socket: it reads a    *)
(* chunk, feeds it to the BinaryRpc and puts each packet that is finished  *)
(* in queue 0 (requests) or 1 (responses).  The socket is a byte stream:   *)
(* what the server wrote arrives in chunks of any size, and a connection   *)
(* that breaks may break inside a packet.  The BinaryRpc is a member of    *)
(* the client and outlives the connection.                                 *)
(***************************************************************************)
EXTENDS BinaryRpc, FiniteSets

CONSTANTS
    Packets,       \* the packets the server may write
    MaxPackets,    \* bound on the packets it writes
    ReadSize,      \* size of the read buffer
    MaxBreaks,     \* bound on the connections that break
    CutAnywhere,   \* whether a connection may break inside a packet
    QueueMayFill   \* whether enqueue may find a queue full

(* A packet that process takes: the magic bytes, a size that is neither    *)
(* zero nor above its limit, and as many bytes as its sizes say.           *)
SizeOf(packet) == BigEndian(BytesAt(packet, 4))

WellFormed(packet) ==
    /\ Len(packet) >= 8
    /\ SubSeq(packet, 1, 3) = Magic
    /\ \/ /\ ~HasHeader(packet)
          /\ SizeOf(packet) \in 1 .. MaxDataSize
          /\ Len(packet) = 8 + SizeOf(packet)
       \/ /\ HasHeader(packet)
          /\ SizeOf(packet) \in 1 .. MaxHeaderSize
          /\ Len(packet) >= 12 + SizeOf(packet)
          /\ Len(packet) = 12 + SizeOf(packet)
                             + BigEndian(BytesAt(packet, 8 + SizeOf(packet)))
          /\ Len(packet) <= 8 + MaxDataSize

(* The server writes what the parser takes: a server that does not is      *)
(* answered with an exception, and nothing is said of what comes after.    *)
ASSUME ReaderAssumption ==
    /\ Base \in Nat \ {0}
    /\ Packets \subseteq Seq(0 .. 255)
    /\ \A packet \in Packets : WellFormed(packet)
    /\ MaxPackets \in Nat /\ ReadSize \in Nat \ {0} /\ MaxBreaks \in Nat
    /\ CutAnywhere \in BOOLEAN /\ QueueMayFill \in BOOLEAN

VARIABLES
    wire,      \* bytes written to the connection and not read
    sent,      \* the packets written completely, on any connection
    connected,
    breaks,
    parser,    \* _binaryRpc
    chunk,     \* the part of the read buffer not processed yet
    threw,     \* whether process ever threw
    received   \* the packets that were finished, in order

vars == <<wire, sent, connected, breaks, parser, chunk, threw, received>>

Init ==
    /\ wire = <<>> /\ sent = <<>> /\ connected = TRUE /\ breaks = 0
    /\ parser = Fresh /\ chunk = <<>> /\ threw = FALSE /\ received = <<>>

(* The server writes a packet. *)
Write(packet) ==
    /\ connected
    /\ Len(sent) < MaxPackets
    /\ sent' = Append(sent, packet)
    /\ wire' = wire \o packet
    /\ UNCHANGED <<connected, breaks, parser, chunk, threw, received>>

(* The connection breaks.  The packet written last may be lost with it, or *)
(* the end of that packet if the server had not written it completely.     *)
LastPacket == sent[Len(sent)]
Losses == IF CutAnywhere THEN 1 .. Len(LastPacket) ELSE {Len(LastPacket)}

Break ==
    /\ connected
    /\ breaks < MaxBreaks
    /\ breaks' = breaks + 1
    /\ connected' = FALSE
    /\ \/ UNCHANGED <<wire, sent>>
       \/ /\ sent # <<>>
          /\ \E lost \in Losses :
                /\ lost <= Len(wire)
                /\ wire' = SubSeq(wire, 1, Len(wire) - lost)
          /\ sent' = SubSeq(sent, 1, Len(sent) - 1)
    /\ UNCHANGED <<parser, chunk, threw, received>>

(* read returns a part of what is on the wire. *)
Read(n) ==
    /\ chunk = <<>>
    /\ n <= ReadSize /\ n <= Len(wire)
    /\ chunk' = SubSeq(wire, 1, n)
    /\ wire' = SubSeq(wire, n + 1, Len(wire))
    /\ UNCHANGED <<sent, connected, breaks, parser, threw, received>>

(* read returns 0 at the end of a broken connection; the main thread       *)
(* connects again.                                                         *)
Reconnect ==
    /\ ~connected /\ wire = <<>> /\ chunk = <<>>
    /\ connected' = TRUE
    /\ UNCHANGED <<wire, sent, breaks, parser, chunk, threw, received>>

Queue(s) == IF s.type = "request" THEN 0 ELSE 1

(* One round of the loop over the chunk: process, and enqueue and reset if *)
(* that finished a packet.  An exception leaves the loop: the parser is    *)
(* reset and the rest of the chunk is not looked at.                       *)
ProcessChunk ==
    /\ chunk # <<>>
    /\ LET o == Process(parser, chunk) IN
          IF o.threw
          THEN parser' = Fresh /\ chunk' = <<>> /\ threw' = TRUE /\ UNCHANGED received
          ELSE /\ chunk' = o.rest
               /\ UNCHANGED threw
               /\ IF o.parser.finished
                  THEN /\ parser' = Fresh
                       /\ \E stored \in {TRUE, ~QueueMayFill} :
                             received' = Append(received,
                                [queue |-> Queue(o.parser), packet |-> o.parser.data,
                                 stored |-> stored])
                  ELSE parser' = o.parser /\ UNCHANGED received
    /\ UNCHANGED <<wire, sent, connected, breaks>>

Next ==
    \/ \E packet \in Packets : Write(packet)
    \/ \E n \in 1 .. Len(wire) : Read(n)
    \/ ProcessChunk \/ Break \/ Reconnect

Spec == Init /\ [][Next]_vars

-----------------------------------------------------------------------------
(* Properties                                                              *)

(* The queue a packet belongs to by its type byte. *)
QueueOf(packet) == packet[4] % 2

(* However the stream is cut into chunks, the packets that come out are    *)
(* the packets that went in, in the order they were written, and each goes *)
(* to the queue of its kind: requests to 0, responses to 1.                *)
PacketsIntact ==
    /\ Len(received) <= Len(sent)
    /\ \A i \in 1 .. Len(received) :
          received[i].packet = sent[i] /\ received[i].queue = QueueOf(sent[i])

(* Once everything on the wire has been read and processed, every packet   *)
(* that was written has come out and the parser is as new: it neither      *)
(* waits for more than a packet has nor keeps a part of it for the next.   *)
NothingWithheld ==
    (wire = <<>> /\ chunk = <<>>) => (Len(received) = Len(sent) /\ parser = Fresh)

(* BinaryRpc.cpp:76-79: a packet that does not start with "Bin" is an      *)
(* error of the sender; it is not reported for a server that writes only   *)
(* well-formed packets.                                                    *)
NoProtocolError == ~threw
=============================================================================
