--------------------------- MODULE ServerRequests ---------------------------
(***************************************************************************)
(* Requests of the server to the client and everything the client sends:   *)
(* queue 0 of IIpcClient::processQueueEntry, sendResponse, and send, which *)
(* the processing threads of queue 0 share with the threads inside invoke. *)
(*                                                                         *)
(* A packet goes out in parts, as many at a time as the socket has room    *)
(* for.  send looks _fileDescriptor up for every part; meanwhile the main  *)
(* thread may connect anew and init may close the descriptor.  Queue 0 is  *)
(* the bounded first-in first-out queue of WorkQueue.                      *)
(***************************************************************************)
EXTENDS Integers, FiniteSets, Sequences

CONSTANTS
    Callers,        \* threads that call invoke
    Workers,        \* processing threads of queue 0
    MethodOf,       \* the methods of the requests, in the order they are made
    Parts,          \* parts of a packet
    Room,           \* parts the socket holds on the way to the server
    RoomBack,       \* requests it holds on the way to the client
    QueueSize,      \* capacity of queue 0
    MaxCalls, MaxConnections   \* bounds

(* A method the client has, one it does not have, a request with fewer     *)
(* than two parameters, and a method whose handler throws.                 *)
AllMethods == {"known", "unknown", "short", "throws"}

ASSUME RequestsAssumption ==
    /\ Callers \cap Workers = {}
    /\ MethodOf \in Seq(AllMethods)
    /\ {Parts, Room, RoomBack, QueueSize, MaxConnections} \subseteq Nat \ {0}
    /\ MaxCalls \in Nat

VARIABLES
    closed, stopped, disposing,
    control,      \* where the thread that disposes of or stops the client is
    mainPc,       \* where the main thread is
    connections,  \* connections so far
    link,         \* of the socket that _fileDescriptor names: "none" is no
                  \* connected socket
    refused,      \* whether init closed the connection before this one
    toServer,     \* parts on the socket
    lastRead,     \* the last part the server has read from this connection
    asked,        \* requests the server has made
    writing,      \* the request the server is writing
    toClient,     \* requests on the socket
    queue,        \* requests in queue 0
    pc,           \* of workers and callers
    request,      \* the request a worker works on
    packet, sent, \* the packet a thread sends, and how many of its parts are sent
    calls,        \* calls so far
    answers       \* how often the server has received a response to a request

flags == <<closed, stopped, disposing>>
conn == <<connections, link, refused>>
stream == <<toServer, lastRead, answers>>
sending == <<packet, sent, calls>>
working == <<queue, request>>
server == <<asked, writing, toClient>>
vars == <<flags, control, mainPc, conn, stream, server, working, pc, sending>>

Threads == Callers \cup Workers
Requests == 1 .. Len(MethodOf)

(* The request of a call, or the response to a request of the server: the  *)
(* result of its method, or the error -32601.                              *)
CallPacket(n) == [call |-> n, request |-> 0, result |-> "none"]
ResponsePacket(r, result) == [call |-> 0, request |-> r, result |-> result]

NoPacket == CallPacket(0)

Packets == {CallPacket(n) : n \in 0 .. MaxCalls} \cup
           {ResponsePacket(r, x) : r \in Requests, x \in {"result", "notFound"}}

Part(p, i) == [packet |-> p, part |-> i]

(* Before a connection everything is at a packet boundary. *)
Boundary == Part(NoPacket, Parts)

AllParts == {Part(p, i) : p \in Packets, i \in 1 .. Parts}

TypeOK ==
    /\ closed \in BOOLEAN /\ stopped \in BOOLEAN /\ disposing \in BOOLEAN
    /\ control \in {"running", "disposing", "joinMain", "stopQueue", "stopped"}
    /\ mainPc \in {"connect", "connecting", "loop", "sleep", "exited"}
    /\ connections \in 0 .. MaxConnections
    /\ link \in {"none", "up", "broken"}
    /\ refused \in BOOLEAN
    /\ toServer \in Seq(AllParts) /\ Len(toServer) <= Room
    /\ lastRead \in AllParts
    /\ asked \in 0 .. Len(MethodOf)
    /\ writing \subseteq 1 .. asked
    /\ toClient \in Seq(1 .. asked) /\ Len(toClient) <= RoomBack
    /\ queue \in Seq(1 .. asked) /\ Len(queue) <= QueueSize
    /\ pc \in [Threads -> {"idle", "handle", "lock", "send", "exited"}]
    /\ request \in [Workers -> 0 .. asked]
    /\ packet \in [Threads -> Packets]
    /\ sent \in [Threads -> 0 .. Parts - 1]
    /\ calls \in 0 .. MaxCalls
    /\ answers \in [Requests -> Nat]

Init ==
    /\ closed = TRUE /\ stopped = FALSE /\ disposing = FALSE
    /\ control = "running" /\ mainPc = "connect"
    /\ connections = 0 /\ link = "none" /\ refused = FALSE
    /\ toServer = <<>> /\ lastRead = Boundary
    /\ asked = 0 /\ writing = {} /\ toClient = <<>> /\ queue = <<>>
    /\ pc = [x \in Threads |-> "idle"]
    /\ request = [w \in Workers |-> 0]
    /\ packet = [x \in Threads |-> NoPacket]
    /\ sent = [x \in Threads |-> 0]
    /\ calls = 0
    /\ answers = [r \in Requests |-> 0]

Goto(x, from, to) ==
    /\ pc[x] = from
    /\ pc' = [pc EXCEPT ![x] = to]

-----------------------------------------------------------------------------
(* send                                                                    *)

(* Hand packet p to send, or return from it. *)
ToSend(x, from, p) == Goto(x, from, "lock") /\ packet' = [packet EXCEPT ![x] = p]

SendReturns(x) ==
    /\ Goto(x, "send", "idle")
    /\ packet' = [packet EXCEPT ![x] = NoPacket]
    /\ sent' = [sent EXCEPT ![x] = 0]

(* Mutation: the mutex is not taken. *)
LockNothing(x) ==
    /\ Goto(x, "lock", "send")
    /\ UNCHANGED <<flags, control, mainPc, conn, stream, server, working, sending>>

(* Take _sendMutex, which the thread at "send" holds. *)
LockSend(x) ==
    /\ \A y \in Threads : pc[y] # "send"
    /\ Goto(x, "lock", "send")
    /\ UNCHANGED <<flags, control, mainPc, conn, stream, server, working, sending>>

(* ::send takes what there is room for, from one part to the rest of the   *)
(* packet; while there is no room it fails with EAGAIN and is called again *)
(* ...                                                                     *)
SendParts(x, n) ==
    /\ pc[x] = "send"
    /\ link = "up"
    /\ n <= Room - Len(toServer) /\ n <= Parts - sent[x]
    /\ toServer' = toServer \o [i \in 1 .. n |-> Part(packet[x], sent[x] + i)]
    /\ IF sent[x] + n = Parts THEN SendReturns(x)
       ELSE sent' = [sent EXCEPT ![x] = @ + n] /\ UNCHANGED <<pc, packet>>
    /\ UNCHANGED <<flags, control, mainPc, conn, lastRead, answers, server, working, calls>>

(* Mutation: only a descriptor that is not connected ends the loop. *)
SendRetries(x) ==
    /\ link = "none"
    /\ SendReturns(x)
    /\ UNCHANGED <<flags, control, mainPc, conn, stream, server, working, calls>>

(* ... or fails for good: there is no descriptor, it is not connected or   *)
(* the server is gone.                                                     *)
SendFails(x) ==
    /\ link # "up"
    /\ SendReturns(x)
    /\ UNCHANGED <<flags, control, mainPc, conn, stream, server, working, calls>>

Send(x) == LockSend(x) \/ SendFails(x) \/ \E n \in 1 .. Parts : SendParts(x, n)

(* invoke, up to its send. *)
Invoke(x) ==
    /\ ~(closed \/ stopped \/ disposing)
    /\ calls < MaxCalls
    /\ calls' = calls + 1
    /\ ToSend(x, "idle", CallPacket(calls'))
    /\ UNCHANGED <<flags, control, mainPc, conn, stream, server, working, sent>>

-----------------------------------------------------------------------------
(* Queue 0 and its processing threads                                      *)

(* Mutations: the main thread waits until there is space; it does not look *)
(* whether there is.                                                       *)
ReadRequestWaits ==
    /\ mainPc = "loop" /\ ~stopped /\ ~closed
    /\ toClient # <<>> /\ Len(queue) < QueueSize
    /\ toClient' = Tail(toClient)
    /\ queue' = Append(queue, Head(toClient))
    /\ UNCHANGED <<flags, control, mainPc, conn, stream, asked, writing, pc, request, sending>>

ReadRequestAlways ==
    /\ mainPc = "loop" /\ ~stopped /\ ~closed
    /\ toClient # <<>>
    /\ toClient' = Tail(toClient)
    /\ queue' = Append(queue, Head(toClient))
    /\ UNCHANGED <<flags, control, mainPc, conn, stream, asked, writing, pc, request, sending>>

(* The main thread reads a request and enqueues it, unless queue 0 is full.*)
ReadRequest ==
    /\ mainPc = "loop" /\ ~stopped /\ ~closed
    /\ toClient # <<>>
    /\ toClient' = Tail(toClient)
    /\ queue' = IF Len(queue) < QueueSize THEN Append(queue, Head(toClient)) ELSE queue
    /\ UNCHANGED <<flags, control, mainPc, conn, stream, asked, writing, pc, request, sending>>

(* Pop a request; drop it when the client is disposed of or it has fewer   *)
(* than two parameters.                                                    *)
TakeRequest(w) ==
    /\ control # "stopQueue"
    /\ queue # <<>>
    /\ queue' = Tail(queue)
    /\ IF disposing \/ MethodOf[Head(queue)] = "short"
       THEN Goto(w, "idle", "idle") /\ UNCHANGED request
       ELSE Goto(w, "idle", "handle") /\ request' = [request EXCEPT ![w] = Head(queue)]
    /\ UNCHANGED <<flags, control, mainPc, conn, stream, server, sending>>

(* Worker w is done with its request, with result p to send. *)
Respond(w, kind, result) ==
    /\ pc[w] = "handle" /\ MethodOf[request[w]] = kind
    /\ ToSend(w, "handle", ResponsePacket(request[w], result))
    /\ request' = [request EXCEPT ![w] = 0]
    /\ UNCHANGED <<flags, control, mainPc, conn, stream, server, queue, sent, calls>>

(* Mutation: after the error the handler is looked for all the same. *)
NotFoundGoesOn(w) ==
    /\ pc[w] = "handle" /\ MethodOf[request[w]] = "unknown"
    /\ \/ ToSend(w, "handle", ResponsePacket(request[w], "notFound")) /\ UNCHANGED request
       \/ ToSend(w, "handle", ResponsePacket(request[w], "result"))
          /\ request' = [request EXCEPT ![w] = 0]
    /\ UNCHANGED <<flags, control, mainPc, conn, stream, server, queue, sent, calls>>

(* There is no such method ... *)
NotFound(w) == Respond(w, "unknown", "notFound")

(* ... or its handler returns ... *)
Handled(w) == Respond(w, "known", "result")

(* ... or throws: then there is no response. *)
HandlerThrows(w) ==
    /\ pc[w] = "handle" /\ MethodOf[request[w]] = "throws"
    /\ Goto(w, "handle", "idle")
    /\ request' = [request EXCEPT ![w] = 0]
    /\ UNCHANGED <<flags, control, mainPc, conn, stream, server, queue, sending>>

(* The stop flag of the queue is looked at between two entries. *)
Leave(w) ==
    /\ control = "stopQueue"
    /\ Goto(w, "idle", "exited")
    /\ UNCHANGED <<flags, control, mainPc, conn, stream, server, working, sending>>

Work(w) == TakeRequest(w) \/ NotFound(w) \/ Handled(w) \/ HandlerThrows(w) \/ Leave(w)

-----------------------------------------------------------------------------
(* The connection                                                          *)

(* connect closes the descriptor and makes a new socket ... *)
NewSocket ==
    /\ mainPc = "connect"
    /\ mainPc' = "connecting"
    /\ link' = "none"
    /\ UNCHANGED <<flags, control, connections, refused, stream, server, working, pc, sending>>

(* ... and connects it ... *)
Connected ==
    /\ mainPc = "connecting"
    /\ connections < MaxConnections
    /\ mainPc' = "loop"
    /\ connections' = connections + 1
    /\ link' = "up"
    /\ lastRead' = Boundary
    /\ closed' = FALSE
    /\ UNCHANGED <<stopped, disposing, control, refused, toServer, answers, server, working,
                   pc, sending>>

(* ... or cannot. *)
NotConnected ==
    /\ mainPc = "connecting"
    /\ connections = MaxConnections
    /\ mainPc' = "sleep"
    /\ UNCHANGED <<flags, control, conn, stream, server, working, pc, sending>>

(* The server goes away.  What it wrote can still be read. *)
Break ==
    /\ link = "up"
    /\ link' = "broken" /\ refused' = FALSE
    /\ toServer' = <<>> /\ writing' = {}
    /\ UNCHANGED <<flags, control, mainPc, connections, lastRead, answers, asked, toClient,
                   working, pc, sending>>

(* init, whose pid was refused, closes the descriptor, sets it to -1 and    *)
(* the client closed.                                                      *)
PidRefused ==
    /\ link # "none"
    /\ link' = "none" /\ refused' = TRUE
    /\ closed' = TRUE
    /\ toServer' = <<>> /\ toClient' = <<>> /\ writing' = {}
    /\ UNCHANGED <<stopped, disposing, control, mainPc, connections, lastRead, answers, asked,
                   working, pc, sending>>

MainGoes(from, to) ==
    /\ mainPc = from /\ mainPc' = to
    /\ UNCHANGED <<stopped, disposing, control, conn, stream, server, working, pc, sending>>

(* The main thread finds the connection gone.  It sleeps for 10 s, within  *)
(* which a send that can fail has failed.                                  *)
LinkLost ==
    /\ MainGoes("loop", "sleep")
    /\ ~stopped /\ ~closed
    /\ link = "broken" /\ toClient = <<>>
    /\ closed' = TRUE

(* Mutation: it does not sleep. *)
WakeUpAtOnce == MainGoes("sleep", "loop") /\ UNCHANGED closed

WakeUp ==
    /\ MainGoes("sleep", "loop") /\ UNCHANGED closed
    /\ link # "up" => \A x \in Threads : pc[x] # "send"

LoopStopped == MainGoes("loop", "exited") /\ stopped /\ UNCHANGED closed

LoopClosed == MainGoes("loop", "connect") /\ ~stopped /\ closed /\ UNCHANGED closed

-----------------------------------------------------------------------------
(* The server: one thread, which does not read while it writes             *)

Ask ==
    /\ link = "up" /\ writing = {}
    /\ asked < Len(MethodOf)
    /\ asked' = asked + 1
    /\ writing' = {asked'}
    /\ UNCHANGED <<flags, control, mainPc, conn, stream, toClient, working, pc, sending>>

ServerWrites ==
    /\ link = "up"
    /\ Len(toClient) < RoomBack
    /\ \E r \in writing : toClient' = Append(toClient, r)
    /\ writing' = {}
    /\ UNCHANGED <<flags, control, mainPc, conn, stream, asked, working, pc, sending>>

(* A packet has arrived with its last part. *)
ServerReads ==
    /\ link = "up" /\ writing = {}
    /\ toServer # <<>>
    /\ lastRead' = Head(toServer)
    /\ toServer' = Tail(toServer)
    /\ answers' = [r \in Requests |->
          IF lastRead'.packet.request = r /\ lastRead'.part = Parts THEN answers[r] + 1
          ELSE answers[r]]
    /\ UNCHANGED <<flags, control, mainPc, conn, server, working, pc, sending>>

-----------------------------------------------------------------------------
(* dispose and stop                                                        *)

Dispose ==
    /\ control = "running"
    /\ control' = "disposing"
    /\ disposing' = TRUE
    /\ UNCHANGED <<closed, stopped, mainPc, conn, stream, server, working, pc, sending>>

Stop ==
    /\ control \in {"running", "disposing"}
    /\ control' = "joinMain"
    /\ stopped' = TRUE
    /\ UNCHANGED <<closed, disposing, mainPc, conn, stream, server, working, pc, sending>>

JoinMain ==
    /\ control = "joinMain"
    /\ mainPc = "exited"
    /\ control' = "stopQueue"
    /\ closed' = TRUE
    /\ UNCHANGED <<stopped, disposing, mainPc, conn, stream, server, working, pc, sending>>

(* Join the processing threads and discard what is queued. *)
StopQueue ==
    /\ control = "stopQueue"
    /\ \A w \in Workers : pc[w] = "exited"
    /\ control' = "stopped"
    /\ queue' = <<>>
    /\ UNCHANGED <<flags, mainPc, conn, stream, server, request, pc, sending>>

Main ==
    \/ NewSocket \/ Connected \/ NotConnected
    \/ LinkLost \/ WakeUp \/ LoopStopped \/ LoopClosed \/ ReadRequest

Server == ServerWrites \/ ServerReads

Control == JoinMain \/ StopQueue

Next ==
    \/ \E x \in Threads : Send(x)
    \/ \E x \in Callers : Invoke(x)
    \/ \E w \in Workers : Work(w)
    \/ Main \/ Ask \/ Server \/ Break \/ PidRefused
    \/ Dispose \/ Stop \/ Control

Spec == Init /\ [][Next]_vars

(* Threads keep running, handlers return, and the server reads what it is  *)
(* sent and writes what it began to write.  Nobody has to ask or to call,  *)
(* and the connection need not break.  The packets are bounded, so that    *)
(* weak fairness is enough for _sendMutex.                                 *)
FairSpec ==
    /\ Spec
    /\ \A x \in Threads : WF_vars(Send(x))
    /\ \A w \in Workers : WF_vars(Work(w))
    /\ WF_vars(Main) /\ WF_vars(Server) /\ WF_vars(Control)

-----------------------------------------------------------------------------
(* Properties                                                              *)

(* A connection carries whole packets, one after the other: the parts of   *)
(* two packets never mix, and none is missing; only the last packet may be *)
(* cut off by the end of the connection.  One exception: a packet that was *)
(* being sent when init closed the descriptor goes on on the next          *)
(* connection, which then begins with the rest of it.                      *)
Follows(a, b) ==
    \/ a.part = Parts /\ b.part = 1
    \/ b.part = a.part + 1 /\ b.packet = a.packet
    \/ a = Boundary /\ refused

PacketsWhole ==
    LET parts == <<lastRead>> \o toServer
    IN  link = "up" => \A i \in DOMAIN toServer : Follows(parts[i], parts[i + 1])

(* No request is answered twice, and the answer is that of its method: its *)
(* result, or the error that there is no such method.  One without enough  *)
(* parameters and one whose handler throws are not answered at all.        *)
AnsweredOnce ==
    /\ \A r \in Requests : answers[r] <= 1
    /\ \A i \in DOMAIN toServer :
          LET p == toServer[i].packet
          IN  p.request # 0 => <<MethodOf[p.request], p.result>> \in
                  {<<"known", "result">>, <<"unknown", "notFound">>}

(* A request in queue 0 is answered, and the server receives the answer,   *)
(* unless the connection ends or the client is stopped.  In particular     *)
(* client and server never wait for each other for ever, each for the      *)
(* other to read, although neither reads while it writes: the main thread  *)
(* of the client does not send, and drops what the queue has no room for.  *)
Queued(r) == \E i \in DOMAIN queue : queue[i] = r

RequestAnswered ==
    \A r \in Requests :
        (Queued(r) /\ MethodOf[r] \in {"known", "unknown"})
            ~> (answers[r] = 1 \/ disposing \/ stopped \/ link # "up")

(* stop returns, although it joins processing threads that may be in send, *)
(* which does not look at the flags.  One exception: a server that is      *)
(* writing and does not read meanwhile waits for the main thread, which    *)
(* stop has ended first.                                                   *)
ServerBlocked == writing # {} /\ Len(toClient) = RoomBack

StopReturns == (control = "joinMain") ~> (control = "stopped" \/ ServerBlocked)
=============================================================================
