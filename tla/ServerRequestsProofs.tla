------------------------ MODULE ServerRequestsProofs ------------------------
(***************************************************************************)
(* Proofs about ServerRequests: its safety properties, for any number of   *)
(* callers and processing threads, any requests, any size of a packet, of  *)
(* the socket and of queue 0, and any number of connections.               *)
(***************************************************************************)
EXTENDS ServerRequests, SequenceTheorems, TLAPS

(* TypeOK in parts: what each thread has, what is on its way, the rest.  A *)
(* worker at "handle" has a request.                                       *)
ThreadsTyped ==
    /\ pc \in [Threads -> {"idle", "handle", "lock", "send", "exited"}]
    /\ packet \in [Threads -> Packets]
    /\ sent \in [Threads -> 0 .. Parts - 1]
    /\ request \in [Workers -> Nat]
    /\ \A x \in Threads : pc[x] = "handle" => x \in Workers /\ request[x] # 0

PathsTyped ==
    /\ toServer \in Seq(AllParts) /\ Len(toServer) <= Room
    /\ asked \in 0 .. Len(MethodOf)
    /\ writing \subseteq 1 .. asked
    /\ toClient \in Seq(1 .. asked) /\ Len(toClient) <= RoomBack
    /\ queue \in Seq(1 .. asked) /\ Len(queue) <= QueueSize
    /\ \A w \in Workers : request[w] \in 0 .. asked

RestTyped ==
    /\ closed \in BOOLEAN /\ stopped \in BOOLEAN /\ disposing \in BOOLEAN
    /\ control \in {"running", "disposing", "joinMain", "stopQueue", "stopped"}
    /\ mainPc \in {"connect", "connecting", "loop", "sleep", "exited"}
    /\ connections \in 0 .. MaxConnections
    /\ link \in {"none", "up", "broken"}
    /\ refused \in BOOLEAN
    /\ lastRead \in AllParts
    /\ calls \in 0 .. MaxCalls
    /\ answers \in [Requests -> Nat]

Typed == ThreadsTyped /\ PathsTyped /\ RestTyped

(* One thread at a time is past _sendMutex, and only that one is in the    *)
(* middle of a packet.                                                     *)
MidPacket == {x \in Threads : sent[x] > 0}

Sending ==
    /\ \A x, y \in Threads : pc[x] = "send" /\ pc[y] = "send" => x = y
    /\ \A x \in MidPacket : pc[x] = "send"

(* What the state of the connection says about the main thread.  A packet  *)
(* in the middle when the server goes away is given up before the main     *)
(* thread connects again, unless init closed the descriptor.               *)
Connection ==
    /\ link # "up" => toServer = <<>>
    /\ closed /\ mainPc # "exited" => link # "up"
    /\ mainPc \in {"connect", "connecting", "sleep"} => closed
    /\ MidPacket # {} /\ link # "up" /\ ~refused =>
          mainPc \in {"sleep", "exited"} \/ (mainPc = "loop" /\ ~closed)

(* The part before the i-th one on the socket, and the last part there is. *)
Before(i) == IF i = 1 THEN lastRead ELSE toServer[i - 1]
Last == Before(Len(toServer) + 1)

(* The stream continues where the packet in the middle, if there is one,   *)
(* stopped.                                                                *)
Stream ==
    link = "up" =>
        /\ \A i \in 1 .. Len(toServer) : Follows(Before(i), toServer[i])
        /\ MidPacket = {} => Last.part = Parts
        /\ \A x \in MidPacket : Last = Part(packet[x], sent[x]) \/ (Last = Boundary /\ refused)

PacketInv == Typed /\ Sending /\ Connection /\ Stream

-----------------------------------------------------------------------------
(* Packets, parts and sequences                                            *)

LEMMA PacketTypes ==
    /\ NoPacket \in Packets /\ NoPacket.request = 0 /\ NoPacket.result = "none"
    /\ \A n \in 0 .. MaxCalls :
          /\ CallPacket(n) \in Packets
          /\ CallPacket(n).request = 0 /\ CallPacket(n).result = "none"
    /\ \A r \in Requests, x \in {"result", "notFound"} :
          /\ ResponsePacket(r, x) \in Packets
          /\ ResponsePacket(r, x).request = r /\ ResponsePacket(r, x).result = x
    /\ \A p \in Packets : p.request \in Requests \cup {0}
<1> USE DEF CallPacket, ResponsePacket
<1>1. ASSUME NEW n \in 0 .. MaxCalls
      PROVE  /\ CallPacket(n) \in Packets
             /\ CallPacket(n).request = 0 /\ CallPacket(n).result = "none"
  BY DEF Packets
<1>2. 0 \in 0 .. MaxCalls
  BY RequestsAssumption
<1>3. ASSUME NEW r \in Requests, NEW x \in {"result", "notFound"}
      PROVE  /\ ResponsePacket(r, x) \in Packets
             /\ ResponsePacket(r, x).request = r /\ ResponsePacket(r, x).result = x
  BY DEF Packets
<1>4. ASSUME NEW p \in Packets PROVE p.request \in Requests \cup {0}
  BY DEF Packets
<1>5. NoPacket \in Packets /\ NoPacket.request = 0 /\ NoPacket.result = "none"
  BY <1>1, <1>2 DEF NoPacket
<1> QED
  BY <1>1, <1>3, <1>4, <1>5

LEMMA PartTypes ==
    /\ \A p, i : Part(p, i).packet = p /\ Part(p, i).part = i
    /\ \A p \in Packets, i \in 1 .. Parts : Part(p, i) \in AllParts
    /\ \A a \in AllParts : a.packet \in Packets /\ a.part \in 1 .. Parts
    /\ Boundary \in AllParts /\ Boundary.part = Parts /\ Boundary.packet = NoPacket
<1>1. Parts \in 1 .. Parts
  BY RequestsAssumption
<1>2. NoPacket \in Packets
  BY PacketTypes
<1> QED
  BY <1>1, <1>2 DEF Part, AllParts, Boundary

(* The sequences of numbers below a bound are among those below a larger.  *)
LEMMA SequencesGrow ==
    ASSUME NEW m \in Nat, NEW n \in Nat, m <= n, NEW s \in Seq(1 .. m)
    PROVE  s \in Seq(1 .. n)
<1>1. \A i \in 1 .. Len(s) : s[i] \in 1 .. n
  <2>1. \A i \in 1 .. Len(s) : s[i] \in 1 .. m
    BY LenProperties
  <2> QED
    BY <2>1
<1>2. s \in [1 .. Len(s) -> 1 .. m] /\ Len(s) \in Nat
  BY LenProperties
<1>3. s \in [1 .. Len(s) -> 1 .. n]
  BY <1>1, <1>2
<1> QED
  BY <1>2, <1>3

-----------------------------------------------------------------------------
LEMMA InitTyped == Init => Typed /\ Sending
<1> SUFFICES ASSUME Init PROVE Typed /\ Sending
  OBVIOUS
<1> USE DEF Init
<1>1. Typed
  <2>1. /\ <<>> \in Seq(AllParts) /\ Len(<<>>) = 0
        /\ <<>> \in Seq(1 .. 0)
    BY EmptySeq
  <2>2. /\ Len(MethodOf) \in Nat
        /\ \A n \in {Parts, Room, RoomBack, QueueSize, MaxConnections} : n \in Nat /\ n > 0
    BY LenProperties, RequestsAssumption
  <2>3. NoPacket \in Packets /\ Boundary \in AllParts
    BY PacketTypes, PartTypes
  <2>4. PathsTyped
    BY <2>1, <2>2 DEF PathsTyped
  <2>5. ThreadsTyped
    BY <2>2, <2>3 DEF ThreadsTyped
  <2>6. RestTyped
    <3>1. MaxCalls \in Nat /\ 0 \in 0 .. MaxCalls /\ 0 \in 0 .. MaxConnections
      BY <2>2, RequestsAssumption
    <3> QED
      BY <2>3, <3>1 DEF RestTyped
  <2> QED
    BY <2>4, <2>5, <2>6 DEF Typed
<1> QED
  BY <1>1 DEF Sending, MidPacket

LEMMA TypedMeans == Typed => TypeOK
<1> SUFFICES ASSUME Typed PROVE TypeOK
  OBVIOUS
<1>1. request \in [Workers -> 0 .. asked]
  BY DEF Typed, ThreadsTyped, PathsTyped
<1>2. /\ pc \in [Threads -> {"idle", "handle", "lock", "send", "exited"}]
      /\ packet \in [Threads -> Packets]
      /\ sent \in [Threads -> 0 .. Parts - 1]
  BY DEF Typed, ThreadsTyped
<1> QED
  BY <1>1, <1>2 DEF Typed, PathsTyped, RestTyped, TypeOK

(* What the steps use of the types. *)
LEMMA TypeFacts ==
    ASSUME Typed
    PROVE  /\ Len(MethodOf) \in Nat /\ asked \in Nat /\ asked <= Len(MethodOf)
           /\ Parts \in Nat /\ Parts > 0 /\ Room \in Nat /\ RoomBack \in Nat /\ QueueSize \in Nat
           /\ MaxConnections \in Nat /\ MaxCalls \in Nat
           /\ Callers \cap Workers = {} /\ Callers \subseteq Threads /\ Workers \subseteq Threads
           /\ 1 .. asked \subseteq Requests
           /\ Len(toServer) \in Nat /\ Len(toClient) \in Nat /\ Len(queue) \in Nat
<1>1. Len(MethodOf) \in Nat
  BY RequestsAssumption, LenProperties
<1>2. Len(toServer) \in Nat /\ Len(toClient) \in Nat /\ Len(queue) \in Nat
  BY LenProperties DEF Typed, PathsTyped
<1>3. /\ Parts \in Nat \ {0} /\ Room \in Nat \ {0} /\ RoomBack \in Nat \ {0}
      /\ QueueSize \in Nat \ {0} /\ MaxConnections \in Nat \ {0} /\ MaxCalls \in Nat
      /\ Callers \cap Workers = {}
  BY RequestsAssumption
<1>4. asked \in 0 .. Len(MethodOf)
  BY DEF Typed, PathsTyped
<1> QED
  BY <1>1, <1>2, <1>3, <1>4 DEF Threads, Requests

(* The parts of the types that a step leaves alone. *)
LEMMA ThreadsKept ==
    ASSUME ThreadsTyped, UNCHANGED <<pc, packet, sent, request>>
    PROVE  ThreadsTyped'
BY DEF ThreadsTyped

LEMMA PathsKept ==
    ASSUME PathsTyped, UNCHANGED <<toServer, asked, writing, toClient, queue, request>>
    PROVE  PathsTyped'
BY DEF PathsTyped

LEMMA RestKept ==
    ASSUME RestTyped, UNCHANGED <<flags, control, mainPc, conn, lastRead, calls, answers>>
    PROVE  RestTyped'
BY DEF RestTyped, flags, conn

-----------------------------------------------------------------------------
(* Type correctness                                                        *)

LEMMA SendTyped ==
    ASSUME Typed, NEW x \in Threads, Send(x)
    PROVE  Typed'
<1> USE DEF flags, conn, stream, server, working, sending
<1>0. /\ NoPacket \in Packets /\ packet[x] \in Packets /\ sent[x] \in 0 .. Parts - 1
      /\ Parts \in Nat /\ Parts > 0 /\ Len(toServer) \in Nat /\ Room \in Nat
      /\ ThreadsTyped /\ PathsTyped /\ RestTyped
  BY PacketTypes, TypeFacts DEF Typed, ThreadsTyped
<1>1. CASE LockSend(x)
  <2>1. ThreadsTyped'
    BY <1>0, <1>1 DEF LockSend, Goto, ThreadsTyped
  <2> QED
    BY <1>0, <1>1, <2>1, PathsKept, RestKept DEF LockSend, Typed
<1>2. CASE SendFails(x)
  <2>1. ThreadsTyped'
    BY <1>0, <1>2 DEF SendFails, SendReturns, Goto, ThreadsTyped
  <2> QED
    BY <1>0, <1>2, <2>1, PathsKept, RestKept DEF SendFails, Typed
<1>3. ASSUME NEW n \in 1 .. Parts, SendParts(x, n) PROVE Typed'
  <2> DEFINE new == [i \in 1 .. n |-> Part(packet[x], sent[x] + i)]
  <2>1. n \in Nat /\ n <= Room - Len(toServer) /\ n <= Parts - sent[x] /\ toServer' = toServer \o new
    BY <1>0, <1>3 DEF SendParts
  <2>2. \A i \in 1 .. n : Part(packet[x], sent[x] + i) \in AllParts
    <3> SUFFICES ASSUME NEW i \in 1 .. n PROVE Part(packet[x], sent[x] + i) \in AllParts
      OBVIOUS
    <3>1. sent[x] + i \in 1 .. Parts
      BY <1>0, <2>1
    <3> QED
      BY <1>0, <3>1, PartTypes
  <2>3. new \in [1 .. n -> AllParts]
    BY <2>2
  <2> HIDE DEF new
  <2>4. new \in Seq(AllParts) /\ Len(new) = n
    BY <2>1, <2>3, LenProperties
  <2>5. toServer' \in Seq(AllParts) /\ Len(toServer') = Len(toServer) + n
    BY <1>0, <2>1, <2>4, ConcatProperties DEF PathsTyped
  <2>6. Len(toServer') <= Room
    BY <1>0, <2>1, <2>5
  <2>7. PathsTyped'
    BY <1>0, <1>3, <2>5, <2>6 DEF SendParts, PathsTyped
  <2>8. ThreadsTyped'
    <3>1. CASE sent[x] + n = Parts
      <4>1. /\ pc' = [pc EXCEPT ![x] = "idle"] /\ packet' = [packet EXCEPT ![x] = NoPacket]
            /\ sent' = [sent EXCEPT ![x] = 0] /\ UNCHANGED request
        BY <1>3, <3>1 DEF SendParts, SendReturns, Goto
      <4>2. 0 \in 0 .. Parts - 1
        BY <1>0
      <4> QED
        BY <1>0, <4>1, <4>2 DEF ThreadsTyped
    <3>2. CASE sent[x] + n # Parts
      <4>1. sent' = [sent EXCEPT ![x] = @ + n] /\ UNCHANGED <<pc, packet, request>>
        BY <1>3, <3>2 DEF SendParts
      <4>2. sent[x] \in Nat /\ n \in Nat /\ sent[x] + n < Parts /\ Parts \in Nat
        <5>1. sent[x] \in Nat /\ n \in Nat /\ n <= Parts - sent[x] /\ Parts \in Nat
          BY <1>0, <2>1
        <5> QED
          BY <3>2, <5>1
      <4>3. sent[x] + n \in 0 .. Parts - 1
        BY <4>2
      <4> QED
        BY <1>0, <4>1, <4>3 DEF ThreadsTyped
    <3> QED
      BY <3>1, <3>2
  <2>9. RestTyped'
    BY <1>0, <1>3, RestKept DEF SendParts
  <2> QED
    BY <2>7, <2>8, <2>9 DEF Typed
<1> QED
  BY <1>1, <1>2, <1>3 DEF Send

LEMMA WorkTyped ==
    ASSUME Typed, NEW w \in Workers, Work(w)
    PROVE  Typed'
<1> USE DEF Goto, flags, conn, stream, server, working, sending
<1>0. /\ w \in Threads /\ asked \in Nat /\ Len(queue) \in Nat /\ QueueSize \in Nat
      /\ Threads = Callers \cup Workers
      /\ ThreadsTyped /\ PathsTyped /\ RestTyped
  BY TypeFacts DEF Typed, Threads
<1>1. CASE TakeRequest(w)
  <2>1. queue # <<>> /\ queue' = Tail(queue) /\ queue \in Seq(1 .. asked)
    BY <1>0, <1>1 DEF TakeRequest, PathsTyped
  <2>2. /\ queue' \in Seq(1 .. asked) /\ Len(queue') = Len(queue) - 1
        /\ Head(queue) \in 1 .. asked
    BY <2>1, HeadTailProperties
  <2>3. Len(queue') <= QueueSize
    BY <1>0, <2>2 DEF PathsTyped
  <2>4. /\ UNCHANGED <<flags, control, mainPc, conn, stream, server, sending>>
        /\ \/ pc' = [pc EXCEPT ![w] = "idle"] /\ UNCHANGED request
           \/ pc' = [pc EXCEPT ![w] = "handle"] /\ request' = [request EXCEPT ![w] = Head(queue)]
    BY <1>1 DEF TakeRequest
  <2>5. ThreadsTyped'
    <3>1. CASE UNCHANGED request
      <4>1. /\ UNCHANGED <<packet, sent>> /\ pc[w] = "idle"
            /\ \/ pc' = [pc EXCEPT ![w] = "idle"]
               \/ pc' = [pc EXCEPT ![w] = "handle"] /\ request[w] # 0
        <5>1. Head(queue) # 0
          BY <1>0, <2>2
        <5>2. request' = [request EXCEPT ![w] = Head(queue)] => request'[w] = Head(queue)
          BY <1>0 DEF ThreadsTyped
        <5> QED
          BY <1>1, <2>4, <3>1, <5>1, <5>2 DEF TakeRequest
      <4> QED
        BY <1>0, <3>1, <4>1 DEF ThreadsTyped
    <3>2. CASE request' # request
      <4>1. Head(queue) \in Nat /\ Head(queue) # 0
        BY <1>0, <2>2
      <4>2. pc' = [pc EXCEPT ![w] = "handle"] /\ request' = [request EXCEPT ![w] = Head(queue)]
        BY <2>4, <3>2
      <4> QED
        BY <1>0, <2>4, <4>1, <4>2 DEF ThreadsTyped
    <3> QED
      BY <3>1, <3>2
  <2>6. \A v \in Workers : request'[v] \in 0 .. asked
    BY <1>0, <2>2, <2>4 DEF PathsTyped, ThreadsTyped
  <2>7. PathsTyped'
    BY <1>0, <2>2, <2>3, <2>4, <2>6 DEF PathsTyped
  <2> QED
    BY <1>0, <2>4, <2>5, <2>7, RestKept DEF Typed
<1>2. CASE NotFound(w) \/ Handled(w)
  <2>1. PICK r \in {"result", "notFound"} :
           /\ pc[w] = "handle" /\ pc' = [pc EXCEPT ![w] = "lock"]
           /\ packet' = [packet EXCEPT ![w] = ResponsePacket(request[w], r)]
           /\ request' = [request EXCEPT ![w] = 0]
           /\ UNCHANGED <<flags, control, mainPc, conn, stream, server, queue, sent, calls>>
    BY <1>2 DEF NotFound, Handled, Respond, ToSend
  <2>2. request[w] \in Requests
    <3>1. request[w] \in 0 .. asked /\ request[w] # 0
      BY <1>0, <2>1 DEF PathsTyped, ThreadsTyped
    <3>2. request[w] \in 1 .. asked
      BY <1>0, <3>1
    <3> QED
      BY <3>2, TypeFacts
  <2>3. ResponsePacket(request[w], r) \in Packets
    BY <2>2, PacketTypes
  <2>4. ThreadsTyped'
    BY <1>0, <2>1, <2>3 DEF ThreadsTyped
  <2>5. \A v \in Workers : request'[v] \in 0 .. asked
    BY <1>0, <2>1 DEF PathsTyped, ThreadsTyped
  <2>6. PathsTyped'
    BY <1>0, <2>1, <2>5 DEF PathsTyped
  <2> QED
    BY <1>0, <2>1, <2>4, <2>6, RestKept DEF Typed
<1>3. CASE HandlerThrows(w)
  <2>1. \A v \in Workers : request'[v] \in 0 .. asked
    BY <1>0, <1>3 DEF HandlerThrows, PathsTyped, ThreadsTyped
  <2>2. PathsTyped'
    BY <1>0, <1>3, <2>1 DEF HandlerThrows, PathsTyped
  <2>3. ThreadsTyped'
    BY <1>0, <1>3 DEF HandlerThrows, ThreadsTyped
  <2> QED
    BY <1>0, <1>3, <2>2, <2>3, RestKept DEF HandlerThrows, Typed
<1>4. CASE Leave(w)
  <2>1. ThreadsTyped'
    BY <1>0, <1>4 DEF Leave, ThreadsTyped
  <2> QED
    BY <1>0, <1>4, <2>1, PathsKept, RestKept DEF Leave, Typed
<1> QED
  BY <1>1, <1>2, <1>3, <1>4 DEF Work

LEMMA MainTyped ==
    ASSUME Typed, Main
    PROVE  Typed'
<1> USE DEF flags, conn, stream, server, working, sending
<1>0. /\ asked \in Nat /\ Len(queue) \in Nat /\ QueueSize \in Nat
      /\ Len(toClient) \in Nat /\ RoomBack \in Nat /\ MaxConnections \in Nat
      /\ ThreadsTyped /\ PathsTyped /\ RestTyped
  BY TypeFacts DEF Typed
<1>1. CASE ReadRequest
  <2>1. /\ toClient # <<>> /\ toClient' = Tail(toClient) /\ toClient \in Seq(1 .. asked)
        /\ queue' = IF Len(queue) < QueueSize THEN Append(queue, Head(toClient)) ELSE queue
        /\ queue \in Seq(1 .. asked) /\ Len(queue) <= QueueSize /\ Len(toClient) <= RoomBack
    BY <1>0, <1>1 DEF ReadRequest, PathsTyped
  <2>2. /\ toClient' \in Seq(1 .. asked) /\ Len(toClient') = Len(toClient) - 1
        /\ Head(toClient) \in 1 .. asked
    BY <2>1, HeadTailProperties
  <2>3. /\ Append(queue, Head(toClient)) \in Seq(1 .. asked)
        /\ Len(Append(queue, Head(toClient))) = Len(queue) + 1
    BY <2>1, <2>2, AppendProperties
  <2>4. queue' \in Seq(1 .. asked) /\ Len(queue') <= QueueSize /\ Len(toClient') <= RoomBack
    <3>1. Len(queue) < QueueSize => Len(queue) + 1 <= QueueSize
      BY <1>0
    <3>2. Len(toClient) - 1 <= RoomBack
      BY <1>0, <2>1
    <3> QED
      BY <2>1, <2>2, <2>3, <3>1, <3>2
  <2>5. PathsTyped'
    BY <1>0, <1>1, <2>2, <2>4 DEF ReadRequest, PathsTyped
  <2> QED
    BY <1>0, <1>1, <2>5, ThreadsKept, RestKept DEF ReadRequest, Typed
<1>2. CASE ~ReadRequest
  <2>1. PathsTyped' /\ ThreadsTyped'
    BY <1>0, <1>2, PathsKept, ThreadsKept DEF Main, NewSocket, Connected, NotConnected, LinkLost,
                                              WakeUp, LoopStopped, LoopClosed, MainGoes
  <2>2. CASE Connected
    <3>1. Boundary \in AllParts /\ connections' \in 0 .. MaxConnections
      BY <1>0, <2>2, PartTypes DEF Connected, RestTyped
    <3>2. RestTyped'
      BY <1>0, <2>2, <3>1 DEF Connected, RestTyped
    <3> QED
      BY <2>1, <3>2 DEF Typed
  <2>3. CASE ~Connected
    <3>1. RestTyped'
      BY <1>0, <1>2, <2>3 DEF Main, NewSocket, NotConnected, LinkLost, WakeUp, LoopStopped,
                              LoopClosed, MainGoes, RestTyped
    <3> QED
      BY <2>1, <3>1 DEF Typed
  <2> QED
    BY <2>2, <2>3
<1> QED
  BY <1>1, <1>2

LEMMA ServerTyped ==
    ASSUME Typed, Ask \/ Server \/ Break \/ PidRefused
    PROVE  Typed'
<1> USE DEF flags, conn, stream, server, working, sending
<1>0. /\ asked \in Nat /\ Len(MethodOf) \in Nat /\ asked <= Len(MethodOf)
      /\ Len(toClient) \in Nat /\ RoomBack \in Nat /\ Len(toServer) \in Nat /\ Room \in Nat
      /\ ThreadsTyped /\ PathsTyped /\ RestTyped
  BY TypeFacts DEF Typed
<1>1. ThreadsTyped'
  BY <1>0, ThreadsKept DEF Ask, Server, ServerWrites, ServerReads, Break, PidRefused
<1>2. CASE Ask
  <2>1. asked' = asked + 1 /\ asked' <= Len(MethodOf) /\ asked' \in Nat /\ writing' = {asked'}
    BY <1>0, <1>2 DEF Ask
  <2>2. toClient \in Seq(1 .. asked') /\ queue \in Seq(1 .. asked')
    <3>1. toClient \in Seq(1 .. asked) /\ queue \in Seq(1 .. asked) /\ asked <= asked'
      BY <1>0, <2>1 DEF PathsTyped
    <3> QED
      BY <1>0, <2>1, <3>1, SequencesGrow
  <2>3. (\A w \in Workers : request[w] \in 0 .. asked') /\ writing' \subseteq 1 .. asked'
    BY <1>0, <2>1 DEF PathsTyped
  <2>4. asked' \in 0 .. Len(MethodOf)
    BY <1>0, <2>1
  <2>5. PathsTyped'
    BY <1>0, <1>2, <2>2, <2>3, <2>4 DEF Ask, PathsTyped
  <2> QED
    BY <1>0, <1>1, <1>2, <2>5, RestKept DEF Ask, Typed
<1>3. CASE ServerWrites
  <2>1. PICK r \in writing : toClient' = Append(toClient, r)
    BY <1>3 DEF ServerWrites
  <2>2. toClient' \in Seq(1 .. asked) /\ Len(toClient') = Len(toClient) + 1
    <3>1. toClient \in Seq(1 .. asked) /\ r \in 1 .. asked
      BY <1>0 DEF PathsTyped
    <3> QED
      BY <2>1, <3>1, AppendProperties
  <2>3. Len(toClient') <= RoomBack
    BY <1>0, <1>3, <2>2 DEF ServerWrites
  <2>4. PathsTyped'
    BY <1>0, <1>3, <2>2, <2>3 DEF ServerWrites, PathsTyped
  <2> QED
    BY <1>0, <1>1, <1>3, <2>4, RestKept DEF ServerWrites, Typed
<1>4. CASE ServerReads
  <2>1. /\ toServer # <<>> /\ toServer' = Tail(toServer) /\ lastRead' = Head(toServer)
        /\ toServer \in Seq(AllParts) /\ Len(toServer) <= Room
    BY <1>0, <1>4 DEF ServerReads, PathsTyped
  <2>2. /\ toServer' \in Seq(AllParts) /\ Len(toServer') = Len(toServer) - 1
        /\ lastRead' \in AllParts
    BY <2>1, HeadTailProperties
  <2>3. Len(toServer') <= Room
    BY <1>0, <2>1, <2>2
  <2>4. answers' \in [Requests -> Nat]
    BY <1>0, <1>4 DEF ServerReads, RestTyped
  <2>5. PathsTyped'
    BY <1>0, <1>4, <2>2, <2>3 DEF ServerReads, PathsTyped
  <2>6. RestTyped'
    BY <1>0, <1>4, <2>2, <2>4 DEF ServerReads, RestTyped
  <2> QED
    BY <1>1, <2>5, <2>6 DEF Typed
<1>5. CASE Break \/ PidRefused
  <2>1. <<>> \in Seq(AllParts) /\ <<>> \in Seq(1 .. asked) /\ Len(<<>>) = 0
    BY EmptySeq
  <2>2. PathsTyped'
    <3>1. /\ toServer' = <<>> /\ writing' = {} /\ UNCHANGED <<asked, queue, request>>
          /\ toClient' = toClient \/ toClient' = <<>>
      BY <1>5 DEF Break, PidRefused
    <3>2. 0 <= Room /\ 0 <= RoomBack /\ toClient \in Seq(1 .. asked) /\ Len(toClient) <= RoomBack
      BY <1>0 DEF PathsTyped
    <3>3. toClient' \in Seq(1 .. asked) /\ Len(toClient') <= RoomBack
      BY <2>1, <3>1, <3>2
    <3>4. toServer' \in Seq(AllParts) /\ Len(toServer') <= Room
      BY <2>1, <3>1, <3>2
    <3> QED
      BY <1>0, <3>1, <3>3, <3>4 DEF PathsTyped
  <2>3. RestTyped'
    BY <1>0, <1>5 DEF Break, PidRefused, RestTyped
  <2> QED
    BY <1>1, <2>2, <2>3 DEF Typed
<1> QED
  BY <1>2, <1>3, <1>4, <1>5 DEF Server

LEMMA TypedStep ==
    ASSUME Typed, [Next]_vars
    PROVE  Typed'
<1> USE DEF flags, conn, stream, server, working, sending
<1>0. /\ ThreadsTyped /\ PathsTyped /\ RestTyped /\ MaxCalls \in Nat
      /\ Threads = Callers \cup Workers
  BY TypeFacts DEF Typed, Threads
<1>1. ASSUME NEW x \in Callers, Invoke(x) PROVE Typed'
  <2>1. calls' \in 0 .. MaxCalls /\ x \in Threads
    BY <1>0, <1>1 DEF Invoke, RestTyped
  <2>2. CallPacket(calls') \in Packets
    BY <2>1, PacketTypes
  <2>3. ThreadsTyped'
    BY <1>0, <1>1, <2>1, <2>2 DEF Invoke, ToSend, Goto, ThreadsTyped
  <2>4. RestTyped'
    BY <1>0, <1>1, <2>1 DEF Invoke, RestTyped
  <2> QED
    BY <1>0, <1>1, <2>3, <2>4, PathsKept DEF Invoke, Typed
<1>2. CASE Dispose \/ Stop \/ JoinMain
  <2>1. RestTyped'
    BY <1>0, <1>2 DEF Dispose, Stop, JoinMain, RestTyped
  <2> QED
    BY <1>0, <1>2, <2>1, PathsKept, ThreadsKept DEF Dispose, Stop, JoinMain, Typed
<1>3. CASE StopQueue
  <2>1. <<>> \in Seq(1 .. asked) /\ Len(<<>>) <= QueueSize
    BY EmptySeq, TypeFacts
  <2>2. PathsTyped'
    BY <1>0, <1>3, <2>1 DEF StopQueue, PathsTyped
  <2>3. RestTyped'
    BY <1>0, <1>3 DEF StopQueue, RestTyped
  <2> QED
    BY <1>0, <1>3, <2>2, <2>3, ThreadsKept DEF StopQueue, Typed
<1>4. CASE UNCHANGED vars
  BY <1>0, <1>4, PathsKept, ThreadsKept, RestKept DEF vars, Typed
<1> QED
  BY <1>1, <1>2, <1>3, <1>4, SendTyped, WorkTyped, MainTyped, ServerTyped DEF Next, Control

-----------------------------------------------------------------------------
(* Packets stay whole                                                      *)

LEMMA SendingStep ==
    ASSUME Typed, Sending, [Next]_vars
    PROVE  Sending'
<1> USE DEF conn, stream, server, working, sending, Goto
<1>0. /\ ThreadsTyped /\ Sending /\ Threads = Callers \cup Workers
      /\ \A x \in Threads : sent[x] \in Nat
  BY TypeFacts DEF Typed, ThreadsTyped, Threads
<1>a. ASSUME UNCHANGED sent, NEW x \in Threads, NEW to \in {"idle", "handle", "lock", "exited"},
             pc[x] # "send", pc' = [pc EXCEPT ![x] = to]
      PROVE  Sending'
  BY <1>0, <1>a DEF Sending, MidPacket, ThreadsTyped
<1>b. ASSUME UNCHANGED <<pc, sent>> PROVE Sending'
  BY <1>0, <1>b DEF Sending, MidPacket
<1>1. ASSUME NEW x \in Threads, Send(x) PROVE Sending'
  <2>1. CASE LockSend(x)
    BY <1>0, <2>1 DEF LockSend, Sending, MidPacket, ThreadsTyped
  <2>2. ASSUME SendReturns(x) PROVE Sending'
    BY <1>0, <2>2 DEF SendReturns, Sending, MidPacket, ThreadsTyped
  <2>3. ASSUME NEW n \in 1 .. Parts, SendParts(x, n), sent[x] + n # Parts PROVE Sending'
    BY <1>0, <2>3 DEF SendParts, Sending, MidPacket, ThreadsTyped
  <2> QED
    BY <1>1, <2>1, <2>2, <2>3 DEF Send, SendFails, SendParts
<1>2. ASSUME NEW x \in Callers, Invoke(x) PROVE Sending'
  BY <1>0, <1>2, <1>a DEF Invoke, ToSend
<1>3. ASSUME NEW w \in Workers, Work(w) PROVE Sending'
  <2>1. CASE TakeRequest(w)
    BY <1>0, <1>a, <2>1 DEF TakeRequest
  <2>2. CASE NotFound(w) \/ Handled(w)
    BY <1>0, <1>a, <2>2 DEF NotFound, Handled, Respond, ToSend
  <2>3. CASE HandlerThrows(w) \/ Leave(w)
    BY <1>0, <1>a, <2>3 DEF HandlerThrows, Leave
  <2> QED
    BY <1>3, <2>1, <2>2, <2>3 DEF Work
<1>4. CASE Main
  BY <1>4, <1>b DEF Main, NewSocket, Connected, NotConnected, LinkLost, WakeUp, LoopStopped,
                    LoopClosed, MainGoes, ReadRequest
<1>5. CASE Ask \/ Server \/ Break \/ PidRefused
  BY <1>5, <1>b DEF Ask, Server, ServerWrites, ServerReads, Break, PidRefused
<1>6. CASE Dispose \/ Stop \/ Control
  BY <1>6, <1>b DEF Dispose, Stop, Control, JoinMain, StopQueue
<1>7. CASE UNCHANGED vars
  BY <1>7, <1>b DEF vars
<1> QED
  BY <1>1, <1>2, <1>3, <1>4, <1>5, <1>6, <1>7 DEF Next

LEMMA ConnectionStep ==
    ASSUME Typed, Sending, Connection, [Next]_vars
    PROVE  Connection'
<1> USE DEF flags, conn, stream, server, working, sending
<1>0. /\ ThreadsTyped /\ RestTyped /\ Connection /\ Sending
      /\ toServer \in Seq(AllParts)
      /\ \A x \in Threads : sent[x] \in Nat
  BY DEF Typed, ThreadsTyped, PathsTyped
<1>1. ASSUME UNCHANGED <<closed, mainPc, conn, toServer>>, MidPacket' \subseteq MidPacket
      PROVE  Connection'
  BY <1>0, <1>1 DEF Connection
<1>2. ASSUME UNCHANGED sent PROVE MidPacket' = MidPacket
  BY <1>2 DEF MidPacket
<1>3. ASSUME NEW x \in Threads, Send(x) PROVE Connection'
  <2>1. CASE LockSend(x)
    BY <1>1, <1>2, <2>1 DEF LockSend
  <2>2. CASE SendFails(x)
    <3>1. MidPacket' \subseteq MidPacket
      BY <1>0, <2>2 DEF SendFails, SendReturns, MidPacket, ThreadsTyped
    <3> QED
      BY <1>1, <2>2, <3>1 DEF SendFails
  <2>3. ASSUME NEW n \in 1 .. Parts, SendParts(x, n) PROVE Connection'
    BY <1>0, <2>3 DEF SendParts, Connection
  <2> QED
    BY <1>3, <2>1, <2>2, <2>3 DEF Send
<1>4. CASE (\E x \in Callers : Invoke(x)) \/ (\E w \in Workers : Work(w))
  BY <1>1, <1>2, <1>4 DEF Invoke, Work, TakeRequest, NotFound, Handled, Respond, HandlerThrows,
                          Leave
<1>5. CASE Main
  <2>0. MidPacket' = MidPacket
    BY <1>2, <1>5 DEF Main, NewSocket, Connected, NotConnected, LinkLost, WakeUp, LoopStopped,
                      LoopClosed, MainGoes, ReadRequest
  <2>1. CASE NewSocket
    BY <1>0, <2>0, <2>1 DEF NewSocket, Connection
  <2>2. CASE Connected
    BY <1>0, <2>0, <2>2 DEF Connected, Connection
  <2>3. CASE NotConnected
    BY <1>0, <2>0, <2>3 DEF NotConnected, Connection
  <2>4. CASE LinkLost
    BY <1>0, <2>0, <2>4 DEF LinkLost, MainGoes, Connection
  <2>5. CASE WakeUp
    <3>1. link # "up" => MidPacket = {}
      BY <1>0, <2>5 DEF WakeUp, MainGoes, Sending, MidPacket
    <3> QED
      BY <1>0, <2>0, <2>5, <3>1 DEF WakeUp, MainGoes, Connection
  <2>6. CASE LoopStopped
    BY <1>0, <2>0, <2>6 DEF LoopStopped, MainGoes, Connection
  <2>7. CASE LoopClosed
    BY <1>0, <2>0, <2>7 DEF LoopClosed, MainGoes, Connection
  <2>8. CASE ReadRequest
    BY <1>1, <2>0, <2>8 DEF ReadRequest
  <2> QED
    BY <1>5, <2>1, <2>2, <2>3, <2>4, <2>5, <2>6, <2>7, <2>8 DEF Main
<1>6. CASE Ask \/ Server \/ Break \/ PidRefused
  <2>0. MidPacket' = MidPacket
    BY <1>2, <1>6 DEF Ask, Server, ServerWrites, ServerReads, Break, PidRefused
  <2>1. CASE Ask \/ ServerWrites
    BY <1>1, <2>0, <2>1 DEF Ask, ServerWrites
  <2>2. CASE ServerReads
    BY <1>0, <2>0, <2>2 DEF ServerReads, Connection
  <2>3. CASE Break
    BY <1>0, <2>0, <2>3 DEF Break, Connection, RestTyped
  <2>4. CASE PidRefused
    BY <1>0, <2>0, <2>4 DEF PidRefused, Connection
  <2> QED
    BY <1>6, <2>1, <2>2, <2>3, <2>4 DEF Server
<1>7. CASE Dispose \/ Stop \/ StopQueue
  BY <1>1, <1>2, <1>7 DEF Dispose, Stop, StopQueue
<1>8. CASE JoinMain
  <2>1. MidPacket' = MidPacket
    BY <1>2, <1>8 DEF JoinMain
  <2> QED
    BY <1>0, <1>8, <2>1 DEF JoinMain, Connection
<1>9. CASE UNCHANGED vars
  BY <1>1, <1>2, <1>9 DEF vars
<1> QED
  BY <1>3, <1>4, <1>5, <1>6, <1>7, <1>8, <1>9 DEF Next, Control

(* What send puts behind the parts there are. *)
LEMMA SendAppends ==
    ASSUME Typed, NEW x \in Threads, NEW n \in 1 .. Parts, SendParts(x, n)
    PROVE  /\ Len(toServer') = Len(toServer) + n
           /\ \A i \in 1 .. Len(toServer) : toServer'[i] = toServer[i]
           /\ \A i \in 1 .. n : toServer'[Len(toServer) + i] = Part(packet[x], sent[x] + i)
<1> DEFINE old == Len(toServer)
           new == [i \in 1 .. n |-> Part(packet[x], sent[x] + i)]
<1>0. /\ old \in Nat /\ n \in Nat /\ toServer \in Seq(AllParts)
      /\ packet[x] \in Packets /\ sent[x] \in Nat /\ n <= Parts - sent[x] /\ Parts \in Nat
  <2>1. old \in Nat /\ Parts \in Nat
    BY TypeFacts
  <2>2. packet[x] \in Packets /\ toServer \in Seq(AllParts) /\ sent[x] \in Nat
    BY DEF Typed, ThreadsTyped, PathsTyped
  <2>3. n <= Parts - sent[x]
    BY DEF SendParts
  <2> QED
    BY <2>1, <2>2, <2>3
<1>1. toServer' = toServer \o new
  BY DEF SendParts
<1>2. Len(new) = n /\ new \in Seq(AllParts) /\ \A i \in 1 .. n : new[i] = Part(packet[x], sent[x] + i)
  <2>1. \A i \in 1 .. n : Part(packet[x], sent[x] + i) \in AllParts
    <3> SUFFICES ASSUME NEW i \in 1 .. n PROVE Part(packet[x], sent[x] + i) \in AllParts
      OBVIOUS
    <3>1. sent[x] + i \in 1 .. Parts
      BY <1>0
    <3> QED
      BY <1>0, <3>1, PartTypes
  <2>2. new \in [1 .. n -> AllParts]
    BY <2>1
  <2> QED
    BY <1>0, <2>2, LenProperties
<1> HIDE DEF new
<1>3. /\ Len(toServer') = old + n
      /\ \A i \in 1 .. old + n : toServer'[i] = IF i <= old THEN toServer[i] ELSE new[i - old]
  BY <1>0, <1>1, <1>2, ConcatProperties
<1>4. ASSUME NEW i \in 1 .. n PROVE toServer'[old + i] = new[i]
  <2>1. old + i \in 1 .. old + n /\ ~(old + i <= old) /\ (old + i) - old = i
    BY <1>0
  <2> QED
    BY <1>3, <2>1
<1>5. ASSUME NEW i \in 1 .. old PROVE toServer'[i] = toServer[i]
  <2>1. i \in 1 .. old + n /\ i <= old
    BY <1>0
  <2> QED
    BY <1>3, <2>1
<1> QED
  BY <1>2, <1>3, <1>4, <1>5

(* It continues the packet of its thread or starts it where another one    *)
(* ended.                                                                  *)
LEMMA StreamSend ==
    ASSUME PacketInv, NEW x \in Threads, NEW n \in 1 .. Parts, SendParts(x, n)
    PROVE  Stream'
<1> USE DEF flags, conn, stream, server, working, sending
<1> DEFINE old == Len(toServer)
<1>0. /\ Parts \in Nat /\ Parts > 0 /\ old \in Nat /\ n \in Nat /\ n >= 1
      /\ sent[x] \in Nat /\ pc[x] = "send" /\ link = "up"
      /\ ThreadsTyped /\ Sending
      /\ \A y \in Threads : sent[y] \in Nat
  <2>1. ThreadsTyped /\ Sending /\ old \in Nat /\ Parts \in Nat /\ Parts > 0
    BY TypeFacts DEF PacketInv, Typed
  <2>2. \A y \in Threads : sent[y] \in Nat
    BY <2>1 DEF ThreadsTyped
  <2>3. pc[x] = "send" /\ link = "up"
    BY DEF SendParts
  <2> QED
    BY <2>1, <2>2, <2>3
<1>2. \A y \in Threads : sent[y] > 0 => y = x
  BY <1>0 DEF Sending, MidPacket
<1>3. Len(toServer') = old + n
  BY SendAppends DEF PacketInv
<1>4. /\ \A i \in 1 .. old : toServer'[i] = toServer[i]
      /\ \A i \in 1 .. n : toServer'[old + i] = Part(packet[x], sent[x] + i)
  BY SendAppends DEF PacketInv
<1>5. UNCHANGED <<link, refused, lastRead>>
  BY DEF SendParts
<1>6. Last' = Part(packet[x], sent[x] + n)
  <2>1. Len(toServer') + 1 # 1 /\ (Len(toServer') + 1) - 1 = old + n /\ n \in 1 .. n
    BY <1>0, <1>3
  <2> QED
    BY <1>4, <2>1 DEF Last, Before
<1>7. \A i \in 1 .. old + 1 : Before(i)' = Before(i)
  <2> SUFFICES ASSUME NEW i \in 1 .. old + 1 PROVE Before(i)' = Before(i)
    OBVIOUS
  <2>1. i = 1 \/ i - 1 \in 1 .. old
    BY <1>0
  <2> QED
    BY <1>4, <1>5, <2>1 DEF Before
<1>8. Follows(Last, Part(packet[x], sent[x] + 1))
  <2>1. CASE sent[x] > 0
    <3>1. x \in MidPacket
      BY <2>1 DEF MidPacket
    <3>2. Last = Part(packet[x], sent[x]) \/ (Last = Boundary /\ refused)
      BY <1>0, <3>1 DEF PacketInv, Stream
    <3> QED
      BY <3>2, PartTypes DEF Follows
  <2>2. CASE sent[x] = 0
    <3>1. MidPacket = {}
      BY <1>2, <2>2 DEF MidPacket
    <3>2. Last.part = Parts
      BY <1>0, <3>1 DEF PacketInv, Stream
    <3>3. Part(packet[x], sent[x] + 1).part = 1
      BY <2>2, PartTypes
    <3> QED
      BY <3>2, <3>3 DEF Follows
  <2> QED
    BY <1>0, <2>1, <2>2
<1>9. \A i \in 1 .. Len(toServer') : Follows(Before(i)', toServer'[i])
  <2> SUFFICES ASSUME NEW i \in 1 .. Len(toServer') PROVE Follows(Before(i)', toServer'[i])
    OBVIOUS
  <2>1. CASE i \in 1 .. old
    <3>1. Follows(Before(i), toServer[i])
      BY <1>0, <2>1 DEF PacketInv, Stream
    <3>2. i \in 1 .. old + 1
      BY <1>0, <2>1
    <3> QED
      BY <1>4, <1>7, <2>1, <3>1, <3>2
  <2>2. CASE i = old + 1
    <3>1. Before(i)' = Last
      BY <1>0, <1>7, <2>2 DEF Last
    <3>2. 1 \in 1 .. n
      BY <1>0
    <3> QED
      BY <1>4, <1>8, <2>2, <3>1, <3>2
  <2>3. CASE i > old + 1
    <3>1. PICK k \in 1 .. n : i = old + k /\ k - 1 \in 1 .. n /\ i - 1 = old + (k - 1) /\ i # 1
      <4>1. i - old \in 1 .. n /\ i = old + (i - old) /\ (i - old) - 1 \in 1 .. n
            /\ i - 1 = old + ((i - old) - 1) /\ i # 1
        BY <1>0, <1>3, <2>3
      <4> QED
        BY <4>1
    <3>2. /\ toServer'[i] = Part(packet[x], sent[x] + k)
          /\ Before(i)' = Part(packet[x], sent[x] + (k - 1))
      BY <1>4, <3>1 DEF Before
    <3>3. sent[x] + k = (sent[x] + (k - 1)) + 1
      BY <1>0
    <3>4. /\ toServer'[i].part = Before(i)'.part + 1
          /\ toServer'[i].packet = Before(i)'.packet
      BY <3>2, <3>3, PartTypes
    <3> QED
      BY <3>4 DEF Follows
  <2> QED
    BY <1>0, <1>3, <2>1, <2>2, <2>3
<1>10. MidPacket' = {} => Last'.part = Parts
  <2>1. CASE sent[x] + n = Parts
    BY <1>6, <2>1, PartTypes
  <2>2. CASE sent[x] + n # Parts
    <3>1. sent'[x] = sent[x] + n /\ sent[x] + n > 0
      BY <1>0, <2>2 DEF SendParts, ThreadsTyped
    <3> QED
      BY <3>1 DEF MidPacket
  <2> QED
    BY <2>1, <2>2
<1>11. \A y \in MidPacket' : Last' = Part(packet'[y], sent'[y])
  <2>1. CASE sent[x] + n = Parts
    <3>0. sent' = [sent EXCEPT ![x] = 0]
      BY <2>1 DEF SendParts, SendReturns
    <3>1. \A y \in Threads : ~(sent'[y] > 0)
      BY <1>0, <1>2, <3>0 DEF ThreadsTyped
    <3> QED
      BY <3>1 DEF MidPacket
  <2>2. CASE sent[x] + n # Parts
    <3>1. /\ sent' = [sent EXCEPT ![x] = @ + n] /\ UNCHANGED packet
      BY <2>2 DEF SendParts
    <3>2. sent'[x] = sent[x] + n /\ \A y \in Threads : sent'[y] > 0 => y = x
      BY <1>0, <1>2, <3>1 DEF ThreadsTyped
    <3> QED
      BY <1>6, <3>1, <3>2 DEF MidPacket
  <2> QED
    BY <2>1, <2>2
<1>12. Stream' <=>
         (link' = "up" =>
            /\ \A i \in 1 .. Len(toServer') : Follows(Before(i), toServer[i])'
            /\ MidPacket' = {} => Last'.part = Parts
            /\ \A y \in MidPacket' : Last' = Part(packet'[y], sent'[y])
                                       \/ (Last' = Boundary /\ refused'))
  BY DEF Stream
<1>13. \A i \in 1 .. Len(toServer') : Follows(Before(i), toServer[i])'
  BY <1>5, <1>9 DEF Follows
<1> QED
  BY <1>10, <1>11, <1>12, <1>13

LEMMA StreamStep ==
    ASSUME PacketInv, [Next]_vars
    PROVE  Stream'
<1> USE DEF flags, conn, stream, server, working, sending
<1>0. /\ ThreadsTyped /\ Sending /\ Stream /\ Connection /\ RestTyped
      /\ toServer \in Seq(AllParts) /\ Len(toServer) \in Nat
      /\ \A x \in Threads : sent[x] \in Nat
  BY TypeFacts DEF PacketInv, Typed, ThreadsTyped, PathsTyped
<1>1. ASSUME UNCHANGED <<conn, toServer, lastRead, sent>>,
             \A x \in Threads : sent[x] > 0 => packet'[x] = packet[x]
      PROVE  Stream'
  <2>1. MidPacket' = MidPacket /\ Last' = Last /\ \A i : Before(i)' = Before(i)
    BY <1>1 DEF MidPacket, Last, Before
  <2>2. \A x \in MidPacket : packet'[x] = packet[x]
    BY <1>1 DEF MidPacket
  <2>3. \A i \in 1 .. Len(toServer) : Follows(Before(i), toServer[i])' =
                                      Follows(Before(i), toServer[i])
    BY <1>1, <2>1 DEF Follows
  <2> QED
    BY <1>0, <1>1, <2>1, <2>2, <2>3 DEF Stream
<1>2. ASSUME link' # "up" PROVE Stream'
  BY <1>2 DEF Stream
<1>3. ASSUME NEW x \in Threads, Send(x) PROVE Stream'
  <2>1. CASE LockSend(x)
    BY <1>1, <2>1 DEF LockSend
  <2>2. CASE SendFails(x)
    BY <1>2, <2>2 DEF SendFails
  <2>3. ASSUME NEW n \in 1 .. Parts, SendParts(x, n) PROVE Stream'
    BY <2>3, StreamSend
  <2> QED
    BY <1>3, <2>1, <2>2, <2>3 DEF Send
<1>a. ASSUME UNCHANGED <<conn, toServer, lastRead, sent>>, NEW x \in Threads, pc[x] # "send",
             NEW p, packet' = [packet EXCEPT ![x] = p]
      PROVE  Stream'
  <2>1. \A y \in Threads : sent[y] > 0 => y # x
    BY <1>0, <1>a DEF Sending, MidPacket
  <2> QED
    BY <1>0, <1>1, <1>a, <2>1 DEF ThreadsTyped
<1>4. ASSUME NEW x \in Callers, Invoke(x) PROVE Stream'
  BY <1>4, <1>a DEF Invoke, ToSend, Goto, Threads
<1>5. ASSUME NEW w \in Workers, Work(w) PROVE Stream'
  <2>1. CASE NotFound(w) \/ Handled(w)
    BY <1>a, <2>1 DEF NotFound, Handled, Respond, ToSend, Goto, Threads
  <2>2. CASE TakeRequest(w) \/ HandlerThrows(w) \/ Leave(w)
    BY <1>1, <2>2 DEF TakeRequest, HandlerThrows, Leave
  <2> QED
    BY <1>5, <2>1, <2>2 DEF Work
<1>6. CASE Main
  <2>1. CASE NewSocket
    BY <1>2, <2>1 DEF NewSocket
  <2>2. CASE Connected
    <3>1. link # "up" /\ toServer = <<>> /\ (MidPacket # {} => refused)
      BY <1>0, <2>2 DEF Connected, Connection
    <3>2. /\ toServer' = <<>> /\ lastRead' = Boundary /\ refused' = refused
          /\ MidPacket' = MidPacket
      BY <2>2, <3>1 DEF Connected, MidPacket
    <3>3. Len(toServer') = 0
      BY <3>2, EmptySeq
    <3>4. Last' = Boundary
      BY <3>2, <3>3 DEF Last, Before
    <3>5. \A i \in 1 .. Len(toServer') : FALSE
      BY <3>3
    <3> QED
      BY <3>1, <3>2, <3>4, <3>5, PartTypes DEF Stream
  <2>3. CASE ~NewSocket /\ ~Connected
    BY <1>1, <1>6, <2>3 DEF Main, NotConnected, LinkLost, WakeUp, LoopStopped, LoopClosed,
                            MainGoes, ReadRequest
  <2> QED
    BY <2>1, <2>2, <2>3
<1>7. CASE Break \/ PidRefused
  BY <1>2, <1>7 DEF Break, PidRefused
<1>8. CASE Ask \/ ServerWrites \/ Dispose \/ Stop \/ Control \/ UNCHANGED vars
  BY <1>1, <1>8 DEF Ask, ServerWrites, Dispose, Stop, Control, JoinMain, StopQueue, vars
<1>9. CASE ServerReads
  <2>1. /\ link = "up" /\ toServer # <<>> /\ toServer' = Tail(toServer)
        /\ lastRead' = Head(toServer) /\ UNCHANGED <<link, refused, packet, sent>>
    BY <1>9 DEF ServerReads
  <2>2. /\ Len(toServer') = Len(toServer) - 1 /\ Len(toServer) > 0
        /\ \A i \in 1 .. Len(toServer') : toServer'[i] = toServer[i + 1]
        /\ lastRead' = toServer[1]
    BY <1>0, <2>1, HeadTailProperties, EmptySeq
  <2>3. \A i \in 1 .. Len(toServer') + 1 : Before(i)' = Before(i + 1)
    <3> SUFFICES ASSUME NEW i \in 1 .. Len(toServer') + 1 PROVE Before(i)' = Before(i + 1)
      OBVIOUS
    <3>1. CASE i = 1
      BY <2>2, <3>1 DEF Before
    <3>2. CASE i # 1
      <4>1. /\ i - 1 \in 1 .. Len(toServer') /\ (i - 1) + 1 = i /\ i + 1 # 1
            /\ (i + 1) - 1 = i
        BY <1>0, <2>2, <3>2
      <4> QED
        BY <2>2, <3>2, <4>1 DEF Before
    <3> QED
      BY <3>1, <3>2
  <2>4. Last' = Last /\ MidPacket' = MidPacket
    <3>1. Len(toServer') + 1 \in 1 .. Len(toServer') + 1 /\ (Len(toServer') + 1) + 1 = Len(toServer) + 1
      BY <1>0, <2>2
    <3> QED
      BY <2>1, <2>3, <3>1 DEF Last, MidPacket
  <2>5. ASSUME NEW i \in 1 .. Len(toServer') PROVE Follows(Before(i), toServer[i])'
    <3>1. i + 1 \in 1 .. Len(toServer) /\ i \in 1 .. Len(toServer') + 1
      BY <1>0, <2>2
    <3>2. Follows(Before(i + 1), toServer[i + 1])
      BY <1>0, <2>1, <3>1 DEF Stream
    <3>3. Before(i)' = Before(i + 1) /\ toServer'[i] = toServer[i + 1]
      BY <2>2, <2>3, <3>1
    <3> QED
      BY <2>1, <3>2, <3>3 DEF Follows
  <2> QED
    BY <1>0, <2>1, <2>4, <2>5 DEF Stream
<1> QED
  BY <1>3, <1>4, <1>5, <1>6, <1>7, <1>8, <1>9 DEF Next, Server

LEMMA PacketInvInit == Init => PacketInv
<1> SUFFICES ASSUME Init PROVE PacketInv
  OBVIOUS
<1>1. Typed /\ Sending
  BY InitTyped
<1>2. MidPacket = {}
  BY DEF MidPacket, Init
<1>3. Connection /\ Stream
  BY <1>2 DEF Init, Connection, Stream
<1> QED
  BY <1>1, <1>3 DEF PacketInv

LEMMA PacketInvStep == PacketInv /\ [Next]_vars => PacketInv'
BY TypedStep, SendingStep, ConnectionStep, StreamStep DEF PacketInv

-----------------------------------------------------------------------------
(* Every variable keeps to its type in every behaviour: in particular      *)
(* neither the socket nor queue 0 ever holds more than it has room for,    *)
(* and no thread has sent more than its packet.                            *)
THEOREM TypeAlways == Spec => []TypeOK
BY PacketInvInit, PacketInvStep, TypedMeans, PTL DEF Spec, PacketInv

(* The packets of the threads inside send never mix on a connection and    *)
(* none goes out in pieces, although send looks the descriptor up for      *)
(* every part and the main thread may connect anew meanwhile, unless init  *)
(* closed the descriptor under a packet.                                   *)
THEOREM PacketsAlwaysWhole == Spec => []PacketsWhole
<1>1. ASSUME PacketInv PROVE PacketsWhole
  <2>1. toServer \in Seq(AllParts) /\ lastRead \in AllParts
    BY <1>1 DEF PacketInv, Typed, PathsTyped, RestTyped
  <2>2. DOMAIN toServer = 1 .. Len(toServer) /\ Len(toServer) \in Nat
    BY <2>1, LenProperties
  <2>3. \A i \in 1 .. Len(toServer) :
            /\ (<<lastRead>> \o toServer)[i] = Before(i)
            /\ (<<lastRead>> \o toServer)[i + 1] = toServer[i]
    <3>1. /\ <<lastRead>> \in Seq(AllParts) /\ Len(<<lastRead>>) = 1
          /\ <<lastRead>>[1] = lastRead
      BY <2>1
    <3>2. \A i \in 1 .. 1 + Len(toServer) :
             (<<lastRead>> \o toServer)[i] =
                 IF i <= 1 THEN <<lastRead>>[i] ELSE toServer[i - 1]
      BY <2>1, <3>1, ConcatProperties
    <3>3. ASSUME NEW i \in 1 .. Len(toServer)
          PROVE  /\ (<<lastRead>> \o toServer)[i] = Before(i)
                 /\ (<<lastRead>> \o toServer)[i + 1] = toServer[i]
      <4>1. i \in 1 .. 1 + Len(toServer) /\ i + 1 \in 1 .. 1 + Len(toServer)
            /\ ~(i + 1 <= 1) /\ (i + 1) - 1 = i /\ (i <= 1 <=> i = 1)
        BY <2>2
      <4> QED
        BY <3>1, <3>2, <4>1 DEF Before
    <3> QED
      BY <3>3
  <2> QED
    BY <1>1, <2>2, <2>3 DEF PacketInv, Stream, PacketsWhole
<1> QED
  BY <1>1, PacketInvInit, PacketInvStep, PTL DEF Spec

-----------------------------------------------------------------------------
(* Answers                                                                 *)

(* Where a request can be, from the server and back. *)
Elements(s) == {s[i] : i \in 1 .. Len(s)}
Distinct(s) == \A i, j \in 1 .. Len(s) : s[i] = s[j] => i = j

Closing(part) == part.part = Parts /\ part.packet.request # 0

Names == {"writing", "toClient", "queue", "handled", "sent", "arriving", "answered"}

Stage(name) ==
    CASE name = "writing" -> writing
      [] name = "toClient" -> Elements(toClient)
      [] name = "queue" -> Elements(queue)
      [] name = "handled" -> {request[w] : w \in Workers} \ {0}
      [] name = "sent" -> {packet[x].request : x \in Threads} \ {0}
      [] name = "arriving" ->
            {r \in Requests : \E i \in 1 .. Len(toServer) :
                                  Closing(toServer[i]) /\ toServer[i].packet.request = r}
      [] name = "answered" -> {r \in Requests : answers[r] > 0}

(* A request is in one stage at most ... *)
OneStage ==
    /\ \A k, l \in Names : k # l => Stage(k) \cap Stage(l) = {}
    /\ \A k \in Names : Stage(k) \subseteq 1 .. asked

(* ... and there only once. *)
OncePerStage ==
    /\ Distinct(toClient) /\ Distinct(queue)
    /\ \A v, w \in Workers : request[v] = request[w] /\ request[v] # 0 => v = w
    /\ \A x, y \in Threads :
          packet[x].request = packet[y].request /\ packet[x].request # 0 => x = y
    /\ \A i, j \in 1 .. Len(toServer) :
          Closing(toServer[i]) /\ Closing(toServer[j])
            /\ toServer[i].packet.request = toServer[j].packet.request => i = j
    /\ \A r \in Requests : answers[r] <= 1

(* What is on its way to the server as the response to a request is the    *)
(* right one.                                                              *)
Right(p) ==
    p.request # 0 => <<MethodOf[p.request], p.result>> \in
                         {<<"known", "result">>, <<"unknown", "notFound">>}

RightAnswers ==
    /\ \A x \in Threads : Right(packet[x])
    /\ \A i \in 1 .. Len(toServer) : Right(toServer[i].packet)

AnswerInv == OneStage /\ OncePerStage /\ RightAnswers

LEMMA DistinctAppend ==
    ASSUME NEW S, NEW s \in Seq(S), NEW e \in S, Distinct(s), e \notin Elements(s)
    PROVE  Distinct(Append(s, e)) /\ Elements(Append(s, e)) = Elements(s) \cup {e}
<1> DEFINE t == Append(s, e)
<1>1. /\ Len(s) \in Nat /\ Len(t) = Len(s) + 1
      /\ \A i \in 1 .. Len(s) : t[i] = s[i]
      /\ t[Len(s) + 1] = e
  BY AppendProperties, LenProperties
<1> HIDE DEF t
<1>2. \A i : i \in 1 .. Len(t) <=> i \in 1 .. Len(s) \/ i = Len(s) + 1
  BY <1>1
<1>3. \A i \in 1 .. Len(s) : s[i] # e
  BY DEF Elements
<1>4. Distinct(t)
  BY <1>1, <1>2, <1>3 DEF Distinct
<1>5. Elements(t) = Elements(s) \cup {e}
  BY <1>1, <1>2 DEF Elements
<1> QED
  BY <1>4, <1>5 DEF t

LEMMA DistinctTail ==
    ASSUME NEW S, NEW s \in Seq(S), s # <<>>, Distinct(s)
    PROVE  /\ Distinct(Tail(s)) /\ Elements(Tail(s)) \subseteq Elements(s) \ {Head(s)}
           /\ Head(s) \in Elements(s)
<1> DEFINE t == Tail(s)
<1>1. /\ Len(s) \in Nat /\ Len(s) > 0 /\ Len(t) = Len(s) - 1
      /\ \A i \in 1 .. Len(t) : t[i] = s[i + 1]
      /\ Head(s) = s[1]
  BY HeadTailProperties, LenProperties, EmptySeq
<1> HIDE DEF t
<1>2. \A i \in 1 .. Len(t) : i + 1 \in 1 .. Len(s) /\ i + 1 # 1
  BY <1>1
<1>3. 1 \in 1 .. Len(s)
  BY <1>1
<1>4. Distinct(t)
  <2> SUFFICES ASSUME NEW i \in 1 .. Len(t), NEW j \in 1 .. Len(t), t[i] = t[j] PROVE i = j
    BY DEF Distinct
  <2>1. i + 1 = j + 1
    BY <1>1, <1>2 DEF Distinct
  <2> QED
    BY <1>1, <2>1
<1>5. Elements(t) \subseteq Elements(s) \ {Head(s)}
  BY <1>1, <1>2, <1>3 DEF Elements, Distinct
<1> QED
  BY <1>1, <1>3, <1>4, <1>5 DEF t, Elements

(* A request goes from one stage to another. *)
LEMMA OneStageMoved ==
    ASSUME OneStage, NEW k \in Names, NEW l \in Names, k # l, NEW r \in Stage(k),
           Stage(k)' \subseteq Stage(k) \ {r}, Stage(l)' \subseteq Stage(l) \cup {r},
           \A m \in Names \ {k, l} : Stage(m)' \subseteq Stage(m),
           UNCHANGED asked
    PROVE  OneStage'
BY DEF OneStage

(* Requests get lost at most. *)
LEMMA OneStageKept ==
    ASSUME OneStage, \A m \in Names : Stage(m)' \subseteq Stage(m), UNCHANGED asked
    PROVE  OneStage'
BY DEF OneStage

LEMMA AnswerInit == Init => AnswerInv
<1> SUFFICES ASSUME Init PROVE AnswerInv
  OBVIOUS
<1> USE DEF Init
<1>1. Len(<<>>) = 0 /\ NoPacket.request = 0
  BY EmptySeq, PacketTypes
<1>2. \A k \in Names : Stage(k) = {}
  <2>1. Stage("writing") = {}
    BY DEF Stage
  <2>2. Stage("toClient") = {} /\ Stage("queue") = {}
    BY <1>1 DEF Stage, Elements
  <2>3. Stage("handled") = {} /\ Stage("sent") = {}
    BY <1>1 DEF Stage
  <2>4. Stage("arriving") = {} /\ Stage("answered") = {}
    BY <1>1 DEF Stage
  <2> QED
    BY <2>1, <2>2, <2>3, <2>4 DEF Names
<1>3. OneStage
  BY <1>2 DEF OneStage
<1>4. OncePerStage
  BY <1>1 DEF OncePerStage, Distinct, Closing
<1>5. RightAnswers
  BY <1>1 DEF RightAnswers, Right
<1> QED
  BY <1>3, <1>4, <1>5 DEF AnswerInv

(* The stages by name. *)
LEMMA StageNames ==
    /\ Stage("writing") = writing
    /\ Stage("toClient") = Elements(toClient)
    /\ Stage("queue") = Elements(queue)
    /\ Stage("handled") = {request[w] : w \in Workers} \ {0}
    /\ Stage("sent") = {packet[x].request : x \in Threads} \ {0}
    /\ Stage("arriving") =
            {r \in Requests : \E i \in 1 .. Len(toServer) :
                                  Closing(toServer[i]) /\ toServer[i].packet.request = r}
    /\ Stage("answered") = {r \in Requests : answers[r] > 0}
BY DEF Stage

LEMMA StageNamesNext ==
    /\ Stage("writing")' = writing'
    /\ Stage("toClient")' = Elements(toClient')
    /\ Stage("queue")' = Elements(queue')
    /\ Stage("handled")' = {request'[w] : w \in Workers} \ {0}
    /\ Stage("sent")' = {packet'[x].request : x \in Threads} \ {0}
    /\ Stage("arriving")' =
            {r \in Requests : \E i \in 1 .. Len(toServer') :
                                  Closing(toServer'[i]) /\ toServer'[i].packet.request = r}
    /\ Stage("answered")' = {r \in Requests : answers'[r] > 0}
BY DEF Stage, Elements, Closing

LEMMA StageKept ==
    /\ UNCHANGED writing => Stage("writing")' = Stage("writing")
    /\ UNCHANGED toClient => Stage("toClient")' = Stage("toClient")
    /\ UNCHANGED queue => Stage("queue")' = Stage("queue")
    /\ UNCHANGED request => Stage("handled")' = Stage("handled")
    /\ UNCHANGED packet => Stage("sent")' = Stage("sent")
    /\ UNCHANGED toServer => Stage("arriving")' = Stage("arriving")
    /\ UNCHANGED answers => Stage("answered")' = Stage("answered")
<1>1. UNCHANGED writing => Stage("writing")' = Stage("writing")
  BY StageNames, StageNamesNext
<1>2. UNCHANGED toClient => Stage("toClient")' = Stage("toClient")
  BY StageNames, StageNamesNext
<1>3. UNCHANGED queue => Stage("queue")' = Stage("queue")
  BY StageNames, StageNamesNext
<1>4. ASSUME UNCHANGED request PROVE Stage("handled")' = Stage("handled")
  <2>1. {request'[w] : w \in Workers} = {request[w] : w \in Workers}
    BY <1>4
  <2> QED
    BY <2>1, StageNames, StageNamesNext
<1>5. ASSUME UNCHANGED packet PROVE Stage("sent")' = Stage("sent")
  <2>1. {packet'[x].request : x \in Threads} = {packet[x].request : x \in Threads}
    BY <1>5
  <2> QED
    BY <2>1, StageNames, StageNamesNext
<1>6. UNCHANGED toServer => Stage("arriving")' = Stage("arriving")
  BY StageNames, StageNamesNext
<1>7. UNCHANGED answers => Stage("answered")' = Stage("answered")
  BY StageNames, StageNamesNext
<1> QED
  BY <1>1, <1>2, <1>3, <1>4, <1>5, <1>6, <1>7

(* A step that changes no stage. *)
LEMMA AnswerKept ==
    ASSUME AnswerInv, UNCHANGED <<writing, toClient, queue, request, packet, toServer, answers, asked>>
    PROVE  AnswerInv'
<1>1. \A k \in Names : Stage(k)' = Stage(k)
  BY StageKept DEF Names
<1>2. OneStage'
  BY <1>1, OneStageKept DEF AnswerInv
<1>3. OncePerStage' /\ RightAnswers'
  BY DEF AnswerInv, OncePerStage, Distinct, Closing, RightAnswers, Right
<1> QED
  BY <1>2, <1>3 DEF AnswerInv

LEMMA SendAnswer ==
    ASSUME Typed, AnswerInv, NEW x \in Threads, Send(x)
    PROVE  AnswerInv'
<1> USE DEF flags, conn, stream, server, working, sending
<1>0. /\ OneStage /\ OncePerStage /\ RightAnswers
      /\ packet \in [Threads -> Packets] /\ NoPacket.request = 0
      /\ Len(toServer) \in Nat /\ Parts \in Nat /\ sent[x] \in Nat
      /\ \A p \in Packets : p.request \in Requests \cup {0}
  <2>1. packet \in [Threads -> Packets] /\ sent[x] \in Nat
    <3>1. sent[x] \in 0 .. Parts - 1 /\ Parts \in Nat
      BY TypeFacts DEF Typed, ThreadsTyped
    <3> QED
      BY <3>1 DEF Typed, ThreadsTyped
  <2>2. Len(toServer) \in Nat /\ Parts \in Nat
    BY TypeFacts
  <2> QED
    BY <2>1, <2>2, PacketTypes DEF AnswerInv
<1>1. CASE LockSend(x)
  BY <1>1, AnswerKept DEF LockSend
<1>2. CASE SendFails(x)
  <2>1. /\ packet' = [packet EXCEPT ![x] = NoPacket]
        /\ UNCHANGED <<writing, toClient, queue, request, toServer, answers, asked>>
    BY <1>2 DEF SendFails, SendReturns
  <2>2. \A y \in Threads : packet'[y] = IF y = x THEN NoPacket ELSE packet[y]
    BY <1>0, <2>1
  <2>3. \A k \in Names : Stage(k)' \subseteq Stage(k)
    BY <1>0, <2>1, <2>2, StageNames, StageNamesNext DEF Names
  <2>4. OneStage'
    BY <1>0, <2>1, <2>3, OneStageKept
  <2>5. OncePerStage'
    BY <1>0, <2>1, <2>2 DEF OncePerStage, Distinct, Closing
  <2>6. RightAnswers'
    BY <1>0, <2>1, <2>2 DEF RightAnswers, Right
  <2> QED
    BY <2>4, <2>5, <2>6 DEF AnswerInv
<1>3. ASSUME NEW n \in 1 .. Parts, SendParts(x, n) PROVE AnswerInv'
  <2> DEFINE old == Len(toServer)
             r == packet[x].request
  <2>1. UNCHANGED <<writing, toClient, queue, request, answers, asked>>
    BY <1>3 DEF SendParts
  <2>2. /\ Len(toServer') = old + n
        /\ \A i \in 1 .. old : toServer'[i] = toServer[i]
        /\ \A i \in 1 .. n : toServer'[old + i] = Part(packet[x], sent[x] + i)
    BY <1>3, SendAppends
  <2>3. n \in Nat /\ n <= Parts - sent[x]
    BY <1>3 DEF SendParts
  <2>4. ASSUME NEW i \in 1 .. Len(toServer')
        PROVE  \/ i \in 1 .. old /\ toServer'[i] = toServer[i]
               \/ /\ toServer'[i].packet = packet[x]
                  /\ Closing(toServer'[i]) => i = old + n /\ sent[x] + n = Parts /\ r # 0
    <3>1. CASE i \in 1 .. old
      BY <2>2, <3>1
    <3>2. CASE i \notin 1 .. old
      <4>1. PICK k \in 1 .. n : i = old + k
        <5>1. i - old \in 1 .. n /\ i = old + (i - old)
          BY <1>0, <2>2, <2>3, <3>2
        <5> QED
          BY <5>1
      <4>2. toServer'[i].packet = packet[x] /\ toServer'[i].part = sent[x] + k
        BY <2>2, <4>1, PartTypes
      <4>3. sent[x] + k = Parts => k = n /\ sent[x] + n = Parts
        BY <1>0, <2>3
      <4> QED
        BY <4>1, <4>2, <4>3 DEF Closing
    <3> QED
      BY <3>1, <3>2
  <2>5. \A i \in 1 .. Len(toServer') : Right(toServer'[i].packet)
    BY <1>0, <2>4 DEF RightAnswers
  <2>6. CASE sent[x] + n = Parts
    <3>1. packet' = [packet EXCEPT ![x] = NoPacket]
      BY <1>3, <2>6 DEF SendParts, SendReturns
    <3>2. \A y \in Threads : packet'[y] = IF y = x THEN NoPacket ELSE packet[y]
      BY <1>0, <3>1
    <3>3. RightAnswers'
      BY <1>0, <2>5, <3>2 DEF RightAnswers, Right
    <3>4. Stage("arriving")' \subseteq Stage("arriving") \cup {r}
      BY <2>4, StageNames, StageNamesNext
    <3>5. Stage("sent")' \subseteq Stage("sent") \ {r}
      BY <1>0, <3>2, StageNames, StageNamesNext DEF OncePerStage
    <3>6. \A k \in Names \ {"sent", "arriving"} : Stage(k)' = Stage(k)
      BY <2>1, StageKept DEF Names
    <3>7. OneStage'
      <4>1. CASE r = 0
        <5>1. Stage("arriving")' \subseteq Stage("arriving")
          BY <2>4, <4>1, StageNames, StageNamesNext
        <5>2. \A k \in Names : Stage(k)' \subseteq Stage(k)
          BY <3>5, <3>6, <5>1
        <5> QED
          BY <1>0, <2>1, <5>2, OneStageKept
      <4>2. CASE r # 0
        <5>1. r \in Stage("sent") /\ "sent" \in Names /\ "arriving" \in Names
          BY <4>2, StageNames DEF Names
        <5> QED
          BY <1>0, <2>1, <3>4, <3>5, <3>6, <5>1, OneStageMoved
      <4> QED
        BY <4>1, <4>2
    <3>8. ASSUME NEW i \in 1 .. Len(toServer'), NEW j \in 1 .. Len(toServer'),
                 Closing(toServer'[i]), Closing(toServer'[j]),
                 toServer'[i].packet.request = toServer'[j].packet.request
          PROVE  i = j
      <4>1. r # 0 => r \notin Stage("arriving")
        BY <1>0, StageNames DEF OneStage, Names
      <4>2. ASSUME NEW k \in 1 .. old, Closing(toServer[k]) PROVE toServer[k].packet.request # r
        <5>1. toServer[k].packet.request \in Requests /\ toServer[k].packet.request # 0
          <6>1. toServer[k] \in AllParts
            BY LenProperties DEF Typed, PathsTyped
          <6> QED
            BY <1>0, <4>2, <6>1, PartTypes DEF Closing
        <5> QED
          BY <4>1, <4>2, <5>1, StageNames
      <4> QED
        BY <1>0, <2>4, <3>8, <4>2 DEF OncePerStage
    <3>9. OncePerStage'
      <4>1. \A y, z \in Threads :
               packet'[y].request = packet'[z].request /\ packet'[y].request # 0 => y = z
        BY <1>0, <3>2 DEF OncePerStage
      <4> QED
        BY <1>0, <2>1, <3>8, <4>1 DEF OncePerStage, Distinct, Closing
    <3> QED
      BY <3>3, <3>7, <3>9 DEF AnswerInv
  <2>7. CASE sent[x] + n # Parts
    <3>1. UNCHANGED packet
      BY <1>3, <2>7 DEF SendParts
    <3>2. \A i \in 1 .. Len(toServer') :
             Closing(toServer'[i]) => i \in 1 .. old /\ toServer'[i] = toServer[i]
      BY <2>4, <2>7
    <3>3. \A k \in Names : Stage(k)' \subseteq Stage(k)
      BY <2>1, <3>1, <3>2, StageNames, StageNamesNext DEF Names
    <3>4. OneStage'
      BY <1>0, <2>1, <3>3, OneStageKept
    <3>5. ASSUME NEW i \in 1 .. Len(toServer'), NEW j \in 1 .. Len(toServer'),
                 Closing(toServer'[i]), Closing(toServer'[j]),
                 toServer'[i].packet.request = toServer'[j].packet.request
          PROVE  i = j
      BY <1>0, <3>2, <3>5 DEF OncePerStage
    <3>6. OncePerStage'
      BY <1>0, <2>1, <3>1, <3>5 DEF OncePerStage, Distinct, Closing
    <3>7. RightAnswers'
      BY <1>0, <2>5, <3>1 DEF RightAnswers, Right
    <3> QED
      BY <3>4, <3>6, <3>7 DEF AnswerInv
  <2> QED
    BY <2>6, <2>7
<1> QED
  BY <1>1, <1>2, <1>3 DEF Send

LEMMA WorkAnswer ==
    ASSUME Typed, AnswerInv, NEW w \in Workers, Work(w)
    PROVE  AnswerInv'
<1> USE DEF flags, conn, stream, server, working, sending
<1>0. /\ OneStage /\ OncePerStage /\ RightAnswers
      /\ packet \in [Threads -> Packets] /\ request \in [Workers -> Nat]
      /\ queue \in Seq(1 .. asked) /\ w \in Threads
      /\ \A x \in Threads : pc[x] = "handle" => request[x] # 0
  BY TypeFacts DEF AnswerInv, Typed, ThreadsTyped, PathsTyped
<1>1. CASE TakeRequest(w)
  <2>1. queue # <<>> /\ queue' = Tail(queue)
        /\ UNCHANGED <<writing, toClient, packet, toServer, answers, asked>>
    BY <1>1 DEF TakeRequest
  <2>2. /\ Distinct(queue') /\ Elements(queue') \subseteq Elements(queue) \ {Head(queue)}
        /\ Head(queue) \in Elements(queue)
    BY <1>0, <2>1, DistinctTail DEF OncePerStage
  <2>3. RightAnswers'
    BY <1>0, <2>1 DEF RightAnswers, Right
  <2>4. CASE UNCHANGED request
    <3>1. \A k \in Names : Stage(k)' \subseteq Stage(k)
      BY <2>1, <2>2, <2>4, StageKept, StageNames, StageNamesNext DEF Names
    <3>2. OneStage'
      BY <1>0, <2>1, <3>1, OneStageKept
    <3>3. OncePerStage'
      BY <1>0, <2>1, <2>2, <2>4 DEF OncePerStage, Distinct, Closing
    <3> QED
      BY <2>3, <3>2, <3>3 DEF AnswerInv
  <2>5. CASE request' = [request EXCEPT ![w] = Head(queue)]
    <3>1. \A v \in Workers : request'[v] = IF v = w THEN Head(queue) ELSE request[v]
      BY <1>0, <2>5
    <3>2. Stage("handled")' \subseteq Stage("handled") \cup {Head(queue)}
      BY <3>1, StageNames, StageNamesNext
    <3>3. Stage("queue")' \subseteq Stage("queue") \ {Head(queue)} /\ Head(queue) \in Stage("queue")
      BY <2>2, StageNames, StageNamesNext
    <3>4. \A k \in Names \ {"queue", "handled"} : Stage(k)' = Stage(k)
      BY <2>1, StageKept DEF Names
    <3>5. "queue" \in Names /\ "handled" \in Names
      BY DEF Names
    <3>6. OneStage'
      BY <1>0, <2>1, <3>2, <3>3, <3>4, <3>5, OneStageMoved
    <3>7. Head(queue) \notin Stage("handled")
      BY <1>0, <3>3, <3>5 DEF OneStage
    <3>8. \A v \in Workers : request[v] # 0 => request[v] # Head(queue)
      BY <3>7, StageNames
    <3>9. \A u, v \in Workers : request'[u] = request'[v] /\ request'[u] # 0 => u = v
      BY <1>0, <3>1, <3>8 DEF OncePerStage
    <3>10. OncePerStage'
      BY <1>0, <2>1, <2>2, <3>9 DEF OncePerStage, Distinct, Closing
    <3> QED
      BY <2>3, <3>6, <3>10 DEF AnswerInv
  <2> QED
    BY <1>1, <2>4, <2>5 DEF TakeRequest
<1>2. CASE NotFound(w) \/ Handled(w)
  <2> DEFINE r == request[w]
  <2>1. PICK x \in {"result", "notFound"} :
           /\ pc[w] = "handle"
           /\ <<MethodOf[r], x>> \in {<<"known", "result">>, <<"unknown", "notFound">>}
           /\ packet' = [packet EXCEPT ![w] = ResponsePacket(r, x)]
           /\ request' = [request EXCEPT ![w] = 0]
           /\ UNCHANGED <<writing, toClient, queue, toServer, answers, asked>>
    BY <1>2 DEF NotFound, Handled, Respond, ToSend, Goto
  <2>2. r # 0 /\ r \in Stage("handled") /\ r \in Requests
    <3>1. r # 0
      BY <1>0, <2>1
    <3>2. r \in Stage("handled")
      BY <3>1, StageNames
    <3>3. r \in 1 .. asked
      BY <1>0, <3>2 DEF OneStage, Names
    <3> QED
      BY <3>1, <3>2, <3>3, TypeFacts
  <2>3. ResponsePacket(r, x).request = r /\ ResponsePacket(r, x).result = x
    BY <2>2, PacketTypes
  <2>4. \A y \in Threads : packet'[y] = IF y = w THEN ResponsePacket(r, x) ELSE packet[y]
    BY <1>0, <2>1
  <2>5. \A v \in Workers : request'[v] = IF v = w THEN 0 ELSE request[v]
    BY <1>0, <2>1
  <2>6. \A y \in Threads : packet'[y].request = IF y = w THEN r ELSE packet[y].request
    BY <2>3, <2>4
  <2>7. Stage("sent")' \subseteq Stage("sent") \cup {r}
    BY <2>6, StageNames, StageNamesNext
  <2>8. Stage("handled")' \subseteq Stage("handled") \ {r}
    BY <1>0, <2>5, StageNames, StageNamesNext DEF OncePerStage
  <2>9. \A k \in Names \ {"handled", "sent"} : Stage(k)' = Stage(k)
    BY <2>1, StageKept DEF Names
  <2>10. "handled" \in Names /\ "sent" \in Names
    BY DEF Names
  <2>11. OneStage'
    BY <1>0, <2>1, <2>2, <2>7, <2>8, <2>9, <2>10, OneStageMoved
  <2>12. \A y \in Threads : packet[y].request # r
    <3>1. r \notin Stage("sent")
      BY <1>0, <2>2, <2>10 DEF OneStage
    <3> QED
      BY <2>2, <3>1, StageNames
  <2>13. OncePerStage'
    <3>1. \A y, z \in Threads :
             packet'[y].request = packet'[z].request /\ packet'[y].request # 0 => y = z
      BY <1>0, <2>6, <2>12 DEF OncePerStage
    <3>2. \A u, v \in Workers : request'[u] = request'[v] /\ request'[u] # 0 => u = v
      BY <1>0, <2>5 DEF OncePerStage
    <3> QED
      BY <1>0, <2>1, <3>1, <3>2 DEF OncePerStage, Distinct, Closing
  <2>14. RightAnswers'
    <3>1. Right(ResponsePacket(r, x))
      BY <2>1, <2>3 DEF Right
    <3> QED
      BY <1>0, <2>1, <2>4, <3>1 DEF RightAnswers, Right
  <2> QED
    BY <2>11, <2>13, <2>14 DEF AnswerInv
<1>3. CASE HandlerThrows(w)
  <2>1. request' = [request EXCEPT ![w] = 0]
        /\ UNCHANGED <<writing, toClient, queue, packet, toServer, answers, asked>>
    BY <1>3 DEF HandlerThrows
  <2>2. \A v \in Workers : request'[v] = IF v = w THEN 0 ELSE request[v]
    BY <1>0, <2>1
  <2>3. Stage("handled")' \subseteq Stage("handled")
    BY <2>2, StageNames, StageNamesNext
  <2>4. \A k \in Names : Stage(k)' \subseteq Stage(k)
    BY <2>1, <2>3, StageKept DEF Names
  <2>5. OneStage'
    BY <1>0, <2>1, <2>4, OneStageKept
  <2>6. OncePerStage'
    BY <1>0, <2>1, <2>2 DEF OncePerStage, Distinct, Closing
  <2>7. RightAnswers'
    BY <1>0, <2>1 DEF RightAnswers, Right
  <2> QED
    BY <2>5, <2>6, <2>7 DEF AnswerInv
<1>4. CASE Leave(w)
  BY <1>4, AnswerKept DEF Leave
<1> QED
  BY <1>1, <1>2, <1>3, <1>4 DEF Work

LEMMA ReadAnswer ==
    ASSUME Typed, AnswerInv, ReadRequest
    PROVE  AnswerInv'
<1> USE DEF flags, conn, stream, server, working, sending
<1> DEFINE r == Head(toClient)
<1>0. /\ OneStage /\ OncePerStage /\ RightAnswers
      /\ queue \in Seq(1 .. asked) /\ toClient \in Seq(1 .. asked)
  BY DEF AnswerInv, Typed, PathsTyped
<1>1. /\ toClient # <<>> /\ toClient' = Tail(toClient)
      /\ queue' = Append(queue, r) \/ queue' = queue
      /\ UNCHANGED <<writing, request, packet, toServer, answers, asked>>
  BY DEF ReadRequest
<1>2. /\ Distinct(toClient') /\ Elements(toClient') \subseteq Elements(toClient) \ {r}
      /\ r \in Elements(toClient)
  BY <1>0, <1>1, DistinctTail DEF OncePerStage
<1>3. r \in Stage("toClient") /\ Stage("toClient")' \subseteq Stage("toClient") \ {r}
  BY <1>2, StageNames, StageNamesNext
<1>4. "toClient" \in Names /\ "queue" \in Names
  BY DEF Names
<1>5. r \notin Elements(queue) /\ r \in 1 .. asked
  BY <1>0, <1>3, <1>4, StageNames DEF OneStage
<1>6. Distinct(queue') /\ Elements(queue') \subseteq Elements(queue) \cup {r}
  <2>1. Distinct(queue)
    BY <1>0 DEF OncePerStage
  <2>2. Distinct(Append(queue, r)) /\ Elements(Append(queue, r)) = Elements(queue) \cup {r}
    <3>1. ASSUME NEW e \in 1 .. asked, e \notin Elements(queue)
          PROVE  Distinct(Append(queue, e)) /\ Elements(Append(queue, e)) = Elements(queue) \cup {e}
      BY <1>0, <2>1, <3>1, DistinctAppend
    <3> HIDE DEF r
    <3> QED
      BY <1>5, <3>1
  <2>3. CASE queue' = queue
    BY <2>1, <2>3
  <2>4. CASE queue' = Append(queue, r)
    BY <2>2, <2>4
  <2> QED
    BY <1>1, <2>3, <2>4
<1>7. Stage("queue")' \subseteq Stage("queue") \cup {r}
  BY <1>6, StageNames, StageNamesNext
<1>8. \A k \in Names \ {"toClient", "queue"} : Stage(k)' = Stage(k)
  BY <1>1, StageKept DEF Names
<1>9. OneStage'
  BY <1>0, <1>1, <1>3, <1>4, <1>7, <1>8, OneStageMoved
<1>10. OncePerStage'
  BY <1>0, <1>1, <1>2, <1>6 DEF OncePerStage, Closing
<1>11. RightAnswers'
  BY <1>0, <1>1 DEF RightAnswers, Right
<1> QED
  BY <1>9, <1>10, <1>11 DEF AnswerInv

LEMMA ServerAnswer ==
    ASSUME Typed, AnswerInv, Ask \/ ServerWrites \/ ServerReads
    PROVE  AnswerInv'
<1> USE DEF flags, conn, stream, server, working, sending
<1>0. /\ OneStage /\ OncePerStage /\ RightAnswers
      /\ toClient \in Seq(1 .. asked) /\ toServer \in Seq(AllParts)
      /\ asked \in Nat /\ Len(toServer) \in Nat /\ answers \in [Requests -> Nat]
  BY TypeFacts DEF AnswerInv, Typed, PathsTyped, RestTyped
<1>1. CASE Ask
  <2>1. /\ writing' = {asked + 1} /\ asked' = asked + 1
        /\ UNCHANGED <<toClient, queue, request, packet, toServer, answers>>
    BY <1>1 DEF Ask
  <2>2. \A k \in Names \ {"writing"} : Stage(k)' = Stage(k)
    BY <2>1, StageKept DEF Names
  <2>3. Stage("writing")' = {asked + 1}
    BY <2>1, StageNamesNext
  <2>4. \A k \in Names : Stage(k) \subseteq 1 .. asked
    BY <1>0 DEF OneStage
  <2>5. asked + 1 \notin 1 .. asked /\ 1 .. asked \subseteq 1 .. asked' /\ asked + 1 \in 1 .. asked'
    BY <1>0, <2>1
  <2>6. OneStage'
    BY <1>0, <2>2, <2>3, <2>4, <2>5 DEF OneStage
  <2>7. OncePerStage' /\ RightAnswers'
    BY <1>0, <2>1 DEF OncePerStage, Distinct, Closing, RightAnswers, Right
  <2> QED
    BY <2>6, <2>7 DEF AnswerInv
<1>2. CASE ServerWrites
  <2>1. PICK r \in writing : toClient' = Append(toClient, r)
    BY <1>2 DEF ServerWrites
  <2>2. writing' = {} /\ UNCHANGED <<queue, request, packet, toServer, answers, asked>>
    BY <1>2 DEF ServerWrites
  <2>3. r \in Stage("writing") /\ Stage("writing")' \subseteq Stage("writing") \ {r}
    BY <2>1, <2>2, StageNames, StageNamesNext
  <2>4. "toClient" \in Names /\ "writing" \in Names
    BY DEF Names
  <2>5. r \notin Elements(toClient) /\ r \in 1 .. asked
    BY <1>0, <2>3, <2>4, StageNames DEF OneStage
  <2>6. Distinct(toClient') /\ Elements(toClient') = Elements(toClient) \cup {r}
    BY <1>0, <2>1, <2>5, DistinctAppend DEF OncePerStage
  <2>7. Stage("toClient")' \subseteq Stage("toClient") \cup {r}
    BY <2>6, StageNames, StageNamesNext
  <2>8. \A k \in Names \ {"writing", "toClient"} : Stage(k)' = Stage(k)
    BY <2>2, StageKept DEF Names
  <2>9. OneStage'
    BY <1>0, <2>2, <2>3, <2>4, <2>7, <2>8, OneStageMoved
  <2>10. OncePerStage'
    BY <1>0, <2>2, <2>6 DEF OncePerStage, Closing, Distinct
  <2>11. RightAnswers'
    BY <1>0, <2>2 DEF RightAnswers, Right
  <2> QED
    BY <2>9, <2>10, <2>11 DEF AnswerInv
<1>3. CASE ServerReads
  <2> DEFINE a == Head(toServer)
             r == a.packet.request
  <2>1. /\ toServer # <<>> /\ toServer' = Tail(toServer)
        /\ answers' = [q \in Requests |->
              IF r = q /\ a.part = Parts THEN answers[q] + 1 ELSE answers[q]]
        /\ UNCHANGED <<writing, toClient, queue, request, packet, asked>>
    BY <1>3 DEF ServerReads
  <2>2. /\ Len(toServer) > 0 /\ Len(toServer') = Len(toServer) - 1
        /\ \A i \in 1 .. Len(toServer') : toServer'[i] = toServer[i + 1]
        /\ a = toServer[1] /\ a \in AllParts
    BY <1>0, <2>1, HeadTailProperties, EmptySeq
  <2>3. /\ \A i \in 1 .. Len(toServer') : i + 1 \in 1 .. Len(toServer) /\ i + 1 # 1
        /\ 1 \in 1 .. Len(toServer)
    BY <1>0, <2>2
  <2>4. r \in Requests \cup {0} /\ 0 \notin Requests
    BY <2>2, PacketTypes, PartTypes DEF Requests
  <2>5. \A i \in 1 .. Len(toServer') : Right(toServer'[i].packet)
    BY <1>0, <2>2, <2>3 DEF RightAnswers
  <2>6. RightAnswers'
    BY <1>0, <2>1, <2>5 DEF RightAnswers, Right
  <2>7. \A i, j \in 1 .. Len(toServer') :
           Closing(toServer'[i]) /\ Closing(toServer'[j])
             /\ toServer'[i].packet.request = toServer'[j].packet.request => i = j
    <3> SUFFICES ASSUME NEW i \in 1 .. Len(toServer'), NEW j \in 1 .. Len(toServer'),
                        Closing(toServer'[i]), Closing(toServer'[j]),
                        toServer'[i].packet.request = toServer'[j].packet.request
                 PROVE  i = j
      OBVIOUS
    <3>1. i + 1 = j + 1
      BY <1>0, <2>2, <2>3 DEF OncePerStage
    <3> QED
      BY <3>1
  <2>8. \A k \in Names \ {"arriving", "answered"} : Stage(k)' = Stage(k)
    BY <2>1, StageKept DEF Names
  <2>9. Stage("arriving")' \subseteq Stage("arriving")
    BY <2>2, <2>3, StageNames, StageNamesNext
  <2>10. CASE Closing(a)
    <3>1. r \in Stage("arriving") /\ r \in Requests /\ a.part = Parts
      BY <2>2, <2>3, <2>4, <2>10, StageNames DEF Closing
    <3>2. "arriving" \in Names /\ "answered" \in Names
      BY DEF Names
    <3>3. r \notin Stage("arriving")'
      <4> SUFFICES ASSUME NEW i \in 1 .. Len(toServer'), Closing(toServer'[i]),
                          toServer'[i].packet.request = r
                   PROVE  FALSE
        BY StageNamesNext
      <4> QED
        BY <1>0, <2>2, <2>3, <2>10 DEF OncePerStage
    <3>4. \A q \in Requests : answers'[q] = IF q = r THEN answers[q] + 1 ELSE answers[q]
      BY <2>1, <3>1
    <3>5. Stage("answered")' \subseteq Stage("answered") \cup {r}
      BY <3>4, StageNames, StageNamesNext
    <3>6. OneStage'
      <4>1. Stage("arriving")' \subseteq Stage("arriving") \ {r}
        BY <2>9, <3>3
      <4>2. \A m \in Names \ {"arriving", "answered"} : Stage(m)' \subseteq Stage(m)
        BY <2>8
      <4>3. UNCHANGED asked /\ "arriving" # "answered"
        BY <2>1
      <4> QED
        BY <1>0, <3>1, <3>2, <3>5, <4>1, <4>2, <4>3, OneStageMoved
    <3>7. answers[r] = 0
      <4>1. r \notin Stage("answered")
        BY <1>0, <3>1, <3>2 DEF OneStage
      <4>2. answers[r] \in Nat /\ ~(answers[r] > 0)
        BY <1>0, <3>1, <4>1, StageNames
      <4> QED
        BY <4>2
    <3>8. \A q \in Requests : answers'[q] <= 1
      BY <1>0, <3>4, <3>7 DEF OncePerStage
    <3>9. OncePerStage'
      BY <1>0, <2>1, <2>7, <3>8 DEF OncePerStage, Closing, Distinct
    <3> QED
      BY <2>6, <3>6, <3>9 DEF AnswerInv
  <2>11. CASE ~Closing(a)
    <3>1. answers' = [q \in Requests |-> answers[q]]
      BY <2>1, <2>4, <2>11 DEF Closing
    <3>2. answers' = answers
      BY <1>0, <3>1
    <3>3. \A k \in Names : Stage(k)' \subseteq Stage(k)
      BY <2>8, <2>9, <3>2, StageKept
    <3>4. OneStage'
      BY <1>0, <2>1, <3>3, OneStageKept
    <3>5. OncePerStage'
      BY <1>0, <2>1, <2>7, <3>2 DEF OncePerStage, Closing, Distinct
    <3> QED
      BY <2>6, <3>4, <3>5 DEF AnswerInv
  <2> QED
    BY <2>10, <2>11
<1> QED
  BY <1>1, <1>2, <1>3

LEMMA AnswerStep == Typed /\ AnswerInv /\ [Next]_vars => AnswerInv'
<1> SUFFICES ASSUME Typed, AnswerInv, [Next]_vars PROVE AnswerInv'
  OBVIOUS
<1> USE DEF flags, conn, stream, server, working, sending
<1>0. /\ OneStage /\ OncePerStage /\ RightAnswers
      /\ packet \in [Threads -> Packets] /\ calls \in Nat
  BY DEF AnswerInv, Typed, ThreadsTyped, RestTyped
<1>1. ASSUME NEW x \in Threads, Send(x) PROVE AnswerInv'
  BY <1>1, SendAnswer
<1>2. ASSUME NEW x \in Callers, Invoke(x) PROVE AnswerInv'
  <2>1. /\ packet' = [packet EXCEPT ![x] = CallPacket(calls')]
        /\ UNCHANGED <<writing, toClient, queue, request, toServer, answers, asked>>
    BY <1>2 DEF Invoke, ToSend
  <2>2. CallPacket(calls').request = 0
    BY DEF CallPacket
  <2>3. \A y \in Threads : packet'[y] = IF y = x THEN CallPacket(calls') ELSE packet[y]
    BY <1>0, <2>1
  <2>4. Stage("sent")' \subseteq Stage("sent")
    BY <2>2, <2>3, StageNames, StageNamesNext
  <2>5. \A k \in Names : Stage(k)' \subseteq Stage(k)
    BY <2>1, <2>4, StageKept DEF Names
  <2>6. OneStage'
    BY <1>0, <2>1, <2>5, OneStageKept
  <2>7. \A y, z \in Threads :
           packet'[y].request = packet'[z].request /\ packet'[y].request # 0 => y = z
    BY <1>0, <2>2, <2>3 DEF OncePerStage
  <2>8. OncePerStage'
    BY <1>0, <2>1, <2>7 DEF OncePerStage, Distinct, Closing
  <2>9. RightAnswers'
    BY <1>0, <2>1, <2>2, <2>3 DEF RightAnswers, Right
  <2> QED
    BY <2>6, <2>8, <2>9 DEF AnswerInv
<1>3. ASSUME NEW w \in Workers, Work(w) PROVE AnswerInv'
  BY <1>3, WorkAnswer
<1>4. CASE Main
  <2>1. CASE ReadRequest
    BY <2>1, ReadAnswer
  <2>2. CASE NewSocket \/ Connected \/ NotConnected
    BY <2>2, AnswerKept DEF NewSocket, Connected, NotConnected
  <2>3. CASE LinkLost \/ WakeUp \/ LoopStopped \/ LoopClosed
    BY <2>3, AnswerKept DEF LinkLost, WakeUp, LoopStopped, LoopClosed, MainGoes
  <2> QED
    BY <1>4, <2>1, <2>2, <2>3 DEF Main
<1>5. CASE Ask \/ Server
  BY <1>5, ServerAnswer DEF Server
<1>6. CASE Break \/ PidRefused \/ StopQueue
  <2>1. Len(<<>>) = 0 /\ Elements(<<>>) = {} /\ Distinct(<<>>)
    <3>1. Len(<<>>) = 0
      OBVIOUS
    <3> QED
      BY <3>1 DEF Elements, Distinct
  <2>2. /\ writing' = {} \/ writing' = writing
        /\ toClient' = <<>> \/ toClient' = toClient
        /\ queue' = <<>> \/ queue' = queue
        /\ toServer' = <<>> \/ toServer' = toServer
        /\ UNCHANGED <<request, packet, answers, asked>>
    BY <1>6 DEF Break, PidRefused, StopQueue
  <2>3. Stage("writing")' \subseteq Stage("writing") /\ Stage("toClient")' \subseteq Stage("toClient")
    BY <2>1, <2>2, StageNames, StageNamesNext
  <2>4. Stage("queue")' \subseteq Stage("queue") /\ Stage("arriving")' \subseteq Stage("arriving")
    BY <2>1, <2>2, StageNames, StageNamesNext
  <2>5. \A k \in Names : Stage(k)' \subseteq Stage(k)
    BY <2>2, <2>3, <2>4, StageKept DEF Names
  <2>6. OneStage'
    BY <1>0, <2>2, <2>5, OneStageKept
  <2>7. Distinct(toClient') /\ Distinct(queue')
    BY <1>0, <2>1, <2>2 DEF OncePerStage
  <2>8. \A i, j \in 1 .. Len(toServer') :
           Closing(toServer'[i]) /\ Closing(toServer'[j])
             /\ toServer'[i].packet.request = toServer'[j].packet.request => i = j
    BY <1>0, <2>1, <2>2 DEF OncePerStage
  <2>9. OncePerStage'
    BY <1>0, <2>2, <2>7, <2>8 DEF OncePerStage, Distinct, Closing
  <2>10. RightAnswers'
    BY <1>0, <2>1, <2>2 DEF RightAnswers, Right
  <2> QED
    BY <2>6, <2>9, <2>10 DEF AnswerInv
<1>7. CASE Dispose \/ Stop \/ JoinMain \/ UNCHANGED vars
  BY <1>7, AnswerKept DEF Dispose, Stop, JoinMain, vars
<1> QED
  BY <1>1, <1>2, <1>3, <1>4, <1>5, <1>6, <1>7 DEF Next, Control

(* No request of the server is answered twice, whatever worker takes it,   *)
(* however the parts of the answers queue up and however often the         *)
(* connection ends meanwhile, and what is sent in answer to a request is   *)
(* the result of its method or the error that there is none.               *)
THEOREM AnsweredAlwaysOnce == Spec => []AnsweredOnce
<1>1. Init => Typed /\ AnswerInv
  BY InitTyped, AnswerInit
<1>2. Typed /\ AnswerInv /\ [Next]_vars => (Typed /\ AnswerInv)'
  BY TypedStep, AnswerStep
<1>3. Typed /\ AnswerInv => AnsweredOnce
  <2> SUFFICES ASSUME Typed, AnswerInv PROVE AnsweredOnce
    OBVIOUS
  <2>1. DOMAIN toServer = 1 .. Len(toServer)
    BY LenProperties DEF Typed, PathsTyped
  <2>2. \A r \in Requests : answers[r] <= 1
    BY DEF AnswerInv, OncePerStage
  <2>3. \A i \in DOMAIN toServer : Right(toServer[i].packet)
    BY <2>1 DEF AnswerInv, RightAnswers
  <2> QED
    BY <2>2, <2>3 DEF AnsweredOnce, Right
<1> QED
  BY <1>1, <1>2, <1>3, PTL DEF Spec
=============================================================================
