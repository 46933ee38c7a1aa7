----------------------------- MODULE IIpcClient -----------------------------
(***************************************************************************)
(* The life cycle of a client: the application thread that calls start,    *)
(* stop and dispose, the main thread, the maintenance thread (init or one  *)
(* of the callbacks), the file descriptor they share, and the calls of     *)
(* RpcCalls, made here by an application thread, by init and by callbacks. *)
(*                                                                         *)
(* Calls!inFlight holds the responses the server wrote; those the main     *)
(* thread has read and enqueued are in queued, the others on the socket.   *)
(***************************************************************************)
EXTENDS Integers, FiniteSets

CONSTANTS
    app,           \* an application thread that calls invoke
    maintenance,   \* the maintenance thread (a later one reuses the pthread_t)
    dispatcher,    \* the processing thread of queue 1
    MaxAppCalls, MaxCallbackCalls, MaxConnects, MaxStarts,   \* bounds
    MaxTroubles,   \* bound on broken connections, failed connects, refusals, disposals
    ServerAnswers, \* whether the server answers requests
    PidRefused,    \* whether it may answer setPid with an error
    MayDispose     \* whether dispose is called

ASSUME ClientAssumption ==
    /\ app # maintenance
    /\ {MaxAppCalls, MaxCallbackCalls, MaxConnects, MaxStarts, MaxTroubles} \subseteq Nat
    /\ {ServerAnswers, PidRefused, MayDispose} \subseteq BOOLEAN

VARIABLES
    closed, stopped, disposing, requestInfo, requestInfoMutex, waitMutex, rpcResponses,
    response, currentPacketId, calls, pc, packetId, timed, parameters, result, requests,
    inFlight, job,     \* of RpcCalls
    control,       \* where the thread that calls start, stop and dispose is
    mainPc,        \* where the main thread is; "none" if there is none
    ret,           \* where connect returns to
    maintPc,       \* where the maintenance thread is; "none" if not joinable
    fdSet,         \* _fileDescriptor # -1
    link,          \* the socket with that descriptor
    queueOpen,     \* queue 1 is started and has its buffer
    queued,        \* responses in queue 1
    appCalls, callbackCalls, connects, starts, troubles    \* counters of the bounds

Calls == INSTANCE RpcCalls WITH
    Threads <- {app, maintenance},
    Dispatchers <- {dispatcher},
    MaxCalls <- MaxAppCalls + MaxCallbackCalls + MaxConnects,
    TimeoutArgs <- {FALSE},
    Faults <- {"close", "stop", "dispose", "sendError", "lose"}

invoking == <<requestInfo, requestInfoMutex, waitMutex, rpcResponses, response,
              currentPacketId, calls, pc, packetId, timed, parameters, result, job>>
flags == <<closed, stopped, disposing>>
traffic == <<requests, inFlight, queued>>
socket == <<fdSet, link>>
bounds == <<appCalls, callbackCalls, connects, starts, troubles>>
life == <<control, mainPc, ret, maintPc, socket, queueOpen, queued, bounds>>
callVars == <<flags, invoking, requests, inFlight>>
vars == <<callVars, life>>

OnWire == inFlight \ queued

LifeTyped ==
    /\ control \in {"idle", "starting", "running", "joinMain", "joinMaint", "stopQueue",
                    "disposed"}
    /\ mainPc \in {"none", "connect", "connecting", "opened", "joinInit", "joinError",
                   "check", "loop", "select", "lost", "joinLost", "sleep", "exited"}
    /\ ret \in {"loop", "check"}
    /\ maintPc \in {"none", "init", "setPid", "callback", "calling", "close", "reset",
                    "setClosed", "finished"}
    /\ fdSet \in BOOLEAN
    /\ link \in {"closed", "unconnected", "up", "broken"}
    /\ queueOpen \in BOOLEAN
    /\ appCalls \in 0 .. MaxAppCalls
    /\ callbackCalls \in 0 .. MaxCallbackCalls
    /\ connects \in 0 .. MaxConnects
    /\ starts \in 0 .. MaxStarts
    /\ troubles \in 0 .. MaxTroubles

TypeOK == Calls!TypeOK /\ LifeTyped /\ queued \subseteq inFlight

Init ==
    /\ Calls!Init
    /\ control = "idle" /\ mainPc = "none" /\ ret = "loop" /\ maintPc = "none"
    /\ fdSet = FALSE /\ link = "closed"
    /\ queueOpen = FALSE /\ queued = {}
    /\ appCalls = 0 /\ callbackCalls = 0 /\ connects = 0 /\ starts = 0 /\ troubles = 0

(* What is lost when the client closes its end of the socket. *)
DropLink == requests' = {} /\ inFlight' = queued

Joinable == maintPc # "none"
Joined == maintPc \in {"none", "finished"}

Trouble == troubles < MaxTroubles /\ troubles' = troubles + 1

-----------------------------------------------------------------------------
(* Calls and responses                                                     *)

(* A step of invoke; its send works while the socket is connected. *)
InvokeStep(t) ==
    /\ pc[t] # "idle"
    /\ Calls!Invoke(t)
    /\ pc[t] = "send" => (pc'[t] = "wait" <=> link = "up")
    /\ UNCHANGED life

AppInvokes ==
    \/ InvokeStep(app)
    \/ /\ appCalls < MaxAppCalls
       /\ Calls!Begin(app) \/ Calls!Refuse(app)
       /\ appCalls' = appCalls + 1
       /\ UNCHANGED <<control, mainPc, ret, maintPc, socket, queueOpen, queued,
                      callbackCalls, connects, starts, troubles>>

Respond ==
    /\ ServerAnswers
    /\ link = "up"
    /\ Calls!Server
    /\ UNCHANGED life

(* The server goes away; what it wrote can still be read. *)
Break ==
    /\ link = "up"
    /\ Trouble
    /\ link' = "broken"
    /\ requests' = {}
    /\ UNCHANGED <<flags, invoking, inFlight, control, mainPc, ret, maintPc, fdSet,
                   queueOpen, queued, appCalls, callbackCalls, connects, starts>>

(* The processing thread takes responses from queue 1 while it is open. *)
Dispatch ==
    \/ \E r \in queued :
          /\ queueOpen
          /\ Calls!TakeResponse(dispatcher, r)
          /\ queued' = queued \ {r}
          /\ UNCHANGED <<control, mainPc, ret, maintPc, socket, queueOpen, bounds>>
    \/ /\ job[dispatcher] # {}
       /\ Calls!Dispatch(dispatcher)
       /\ UNCHANGED life

-----------------------------------------------------------------------------
(* The main thread: connect                                                *)

(* connect closes the old descriptor, creates a socket ... *)
Connect ==
    /\ mainPc = "connect"
    /\ mainPc' = "connecting"
    /\ fdSet' = TRUE /\ link' = "unconnected"
    /\ IF fdSet THEN DropLink ELSE UNCHANGED <<requests, inFlight>>
    /\ UNCHANGED <<flags, invoking, control, ret, maintPc, queueOpen, queued, bounds>>

(* ... or cannot create one ... *)
SocketFails ==
    /\ mainPc = "connect"
    /\ Trouble
    /\ mainPc' = ret
    /\ fdSet' = FALSE /\ link' = "closed"
    /\ IF fdSet THEN DropLink ELSE UNCHANGED <<requests, inFlight>>
    /\ UNCHANGED <<flags, invoking, control, ret, maintPc, queueOpen, queued,
                   appCalls, callbackCalls, connects, starts>>

(* ... and connects it, in one of two attempts. *)
ConnectSucceeds ==
    /\ mainPc = "connecting"
    /\ connects < MaxConnects
    /\ connects' = connects + 1
    /\ mainPc' = "opened"
    /\ link' = "up"
    /\ UNCHANGED <<callVars, control, ret, maintPc, fdSet, queueOpen, queued,
                   appCalls, callbackCalls, starts, troubles>>

ConnectFails ==
    /\ mainPc = "connecting"
    /\ Trouble \/ (connects = MaxConnects /\ UNCHANGED troubles)
    /\ mainPc' = "joinError"
    /\ UNCHANGED <<callVars, control, ret, maintPc, socket, queueOpen, queued,
                   appCalls, callbackCalls, connects, starts>>

Opened ==
    /\ mainPc = "opened"
    /\ mainPc' = "joinInit"
    /\ closed' = FALSE
    /\ UNCHANGED <<stopped, disposing, invoking, requests, inFlight, control, ret, maintPc,
                   socket, queueOpen, queued, bounds>>

(* Join the maintenance thread and make a new one. *)
StartMaintenance(from, task, to) ==
    /\ mainPc = from
    /\ Joined
    /\ maintPc' = task
    /\ mainPc' = to
    /\ UNCHANGED <<callVars, control, ret, socket, queueOpen, queued, bounds>>

StartInit == StartMaintenance("joinInit", "init", ret)
StartOnConnectError == StartMaintenance("joinError", "callback", ret)
StartOnDisconnect == StartMaintenance("joinLost", "callback", "sleep")

-----------------------------------------------------------------------------
(* The main thread: the loop                                               *)

MainGoes(from, to) ==
    /\ mainPc = from
    /\ mainPc' = to
    /\ UNCHANGED <<callVars, control, maintPc, socket, queueOpen, queued, bounds>>

(* Mutation: a closed client connects again before it looks at _stopped. *)
LoopClosedFirst ==
    /\ MainGoes("loop", IF closed THEN "connect" ELSE IF stopped THEN "exited" ELSE "select")
    /\ ret' = "check"

Loop ==
    /\ MainGoes("loop", IF stopped THEN "exited" ELSE IF closed THEN "connect" ELSE "select")
    /\ ret' = "check"

Check ==
    /\ MainGoes("check", IF closed \/ ~fdSet THEN "sleep" ELSE "select")
    /\ UNCHANGED ret

(* The main thread sleeps 10 s where invoke polls its flags every second:  *)
(* a wait that can end has ended by then.                                  *)
WakeUp ==
    /\ MainGoes("sleep", "loop")
    /\ \A t \in {app, maintenance} : ~(pc[t] = "wait" /\ Calls!WaitOver(t))
    /\ UNCHANGED ret

(* The connection is gone and everything the server wrote has been read. *)
AtEnd == fdSet /\ (link = "closed" \/ (link = "broken" /\ OnWire = {}))

Readable == fdSet /\ link \in {"up", "broken"} /\ OnWire # {}

(* select times out, or was given the descriptor -1. *)
NothingToRead ==
    /\ MainGoes("select", "loop")
    /\ ~AtEnd /\ ~Readable
    /\ UNCHANGED ret

(* A packet is read and put in queue 1. *)
ReadResponse ==
    /\ mainPc = "select"
    /\ Readable
    /\ \E r \in OnWire : queued' = queued \cup {r}
    /\ mainPc' = "loop"
    /\ UNCHANGED <<callVars, control, ret, maintPc, socket, queueOpen, bounds>>

(* select or read fails, or read returns 0. *)
LinkLost == MainGoes("select", "lost") /\ AtEnd /\ UNCHANGED ret

(* Mutations: the client is not marked closed; the calls are forgotten. *)
LostSilently == MainGoes("lost", "joinLost") /\ UNCHANGED ret

LostForgets ==
    /\ mainPc = "lost"
    /\ mainPc' = "joinLost"
    /\ closed' = TRUE
    /\ requestInfo' = {}
    /\ UNCHANGED <<stopped, disposing, requestInfoMutex, waitMutex, rpcResponses, response,
                   currentPacketId, calls, pc, packetId, timed, parameters, result, job,
                   requests, inFlight, control, ret, maintPc, socket, queueOpen, queued,
                   bounds>>

Lost ==
    /\ mainPc = "lost"
    /\ mainPc' = "joinLost"
    /\ closed' = TRUE
    /\ UNCHANGED <<stopped, disposing, invoking, requests, inFlight, control, ret, maintPc,
                   socket, queueOpen, queued, bounds>>

-----------------------------------------------------------------------------
(* The maintenance thread                                                  *)

MaintGoes(from, to) ==
    /\ maintPc = from
    /\ maintPc' = to
    /\ UNCHANGED <<control, mainPc, ret, queueOpen, queued>>

(* init invokes setPid, without a timeout ... *)
InvokeSetPid ==
    /\ maintPc = "init"
    /\ Calls!Begin(maintenance) \/ Calls!Refuse(maintenance)
    /\ MaintGoes("init", "setPid")
    /\ UNCHANGED <<socket, bounds>>

SetPidStep ==
    /\ maintPc = "setPid"
    /\ InvokeStep(maintenance)

(* ... and calls onConnect if that succeeded ... *)
SetPidDone ==
    /\ MaintGoes("setPid", "callback")
    /\ pc[maintenance] = "idle"
    /\ result[maintenance].outcome = "answered"
    /\ UNCHANGED <<callVars, socket, bounds>>

(* ... or else closes the descriptor, the server having refused the pid or *)
(* invoke having failed, and sets it to -1 and the client closed.          *)
SetPidFailed ==
    /\ MaintGoes("setPid", "close")
    /\ pc[maintenance] = "idle"
    /\ IF result[maintenance].outcome = "answered" THEN PidRefused /\ Trouble
       ELSE UNCHANGED troubles
    /\ UNCHANGED <<callVars, socket, appCalls, callbackCalls, connects, starts>>

CloseDescriptor ==
    /\ MaintGoes("close", "reset")
    /\ link' = "closed"
    /\ DropLink
    /\ UNCHANGED <<flags, invoking, fdSet, bounds>>

(* Mutation: the descriptor keeps its number. *)
KeepDescriptor == MaintGoes("reset", "setClosed") /\ UNCHANGED <<callVars, socket, bounds>>

ResetDescriptor ==
    /\ MaintGoes("reset", "setClosed")
    /\ fdSet' = FALSE
    /\ UNCHANGED <<callVars, link, bounds>>

InitSetsClosed ==
    /\ MaintGoes("setClosed", "finished")
    /\ closed' = TRUE
    /\ UNCHANGED <<stopped, disposing, invoking, requests, inFlight, socket, bounds>>

(* onConnect, onConnectError or onDisconnect invokes, without a timeout ... *)
CallbackInvokes ==
    /\ callbackCalls < MaxCallbackCalls
    /\ callbackCalls' = callbackCalls + 1
    /\ MaintGoes("callback", "calling")
    /\ Calls!Begin(maintenance) \/ Calls!Refuse(maintenance)
    /\ UNCHANGED <<socket, appCalls, connects, starts, troubles>>

CallbackStep ==
    /\ maintPc = "calling"
    /\ InvokeStep(maintenance)

(* ... and returns. *)
CallbackReturns ==
    /\ \E from \in {"callback", "calling"} : MaintGoes(from, "finished")
    /\ pc[maintenance] = "idle"
    /\ UNCHANGED <<callVars, socket, bounds>>

-----------------------------------------------------------------------------
(* start, stop and dispose                                                 *)

Start ==
    /\ control = "idle"
    /\ starts < MaxStarts
    /\ starts' = starts + 1
    /\ control' = "starting"
    /\ stopped' = FALSE
    /\ queueOpen' = TRUE
    /\ UNCHANGED <<closed, disposing, invoking, traffic, mainPc, ret, maintPc, socket,
                   appCalls, callbackCalls, connects, troubles>>

(* The main thread begins with connect. *)
StartMain ==
    /\ control = "starting"
    /\ mainPc = "none"
    /\ control' = "running"
    /\ mainPc' = "connect" /\ ret' = "loop"
    /\ UNCHANGED <<callVars, maintPc, socket, queueOpen, queued, bounds>>

(* Mutation: the queue is stopped before the main thread is joined. *)
StopQueueFirst ==
    /\ control = "running"
    /\ stopped' = TRUE
    /\ control' = "joinMain"
    /\ queueOpen' = FALSE
    /\ UNCHANGED <<closed, disposing, invoking, traffic, mainPc, ret, maintPc, socket, bounds>>

Stop ==
    /\ control = "running"
    /\ stopped' = TRUE
    /\ control' = "joinMain"
    /\ UNCHANGED <<closed, disposing, invoking, traffic, mainPc, ret, maintPc, socket,
                   queueOpen, bounds>>

Dispose ==
    /\ MayDispose
    /\ Trouble
    /\ control \in {"idle", "running"}
    /\ ~disposing /\ disposing' = TRUE
    /\ control' = IF stopped THEN "disposed" ELSE control
    /\ UNCHANGED <<closed, stopped, invoking, traffic, mainPc, ret, maintPc, socket,
                   queueOpen, appCalls, callbackCalls, connects, starts>>

(* Mutation: the maintenance thread is joined first. *)
JoinMaintFirst ==
    /\ control = "joinMain"
    /\ control' = "joinMaint"
    /\ UNCHANGED <<callVars, mainPc, ret, maintPc, socket, queueOpen, queued, bounds>>

JoinMain ==
    /\ control = "joinMain"
    /\ mainPc \in {"none", "exited"}
    /\ mainPc' = "none"
    /\ control' = "joinMaint"
    /\ UNCHANGED <<callVars, ret, maintPc, socket, queueOpen, queued, bounds>>

(* Mutation: _closed is left as it is. *)
JoinLeavesOpen ==
    /\ control = "joinMaint"
    /\ Joined
    /\ maintPc' = "none"
    /\ control' = "stopQueue"
    /\ queueOpen' = FALSE
    /\ UNCHANGED <<flags, invoking, traffic, mainPc, ret, socket, bounds>>

(* Join the maintenance thread, set _closed and the queue's stop flag. *)
JoinMaintenance ==
    /\ control = "joinMaint"
    /\ Joined
    /\ maintPc' = "none"
    /\ control' = "stopQueue"
    /\ closed' = TRUE
    /\ queueOpen' = FALSE
    /\ UNCHANGED <<stopped, disposing, invoking, traffic, mainPc, ret, socket, bounds>>

(* Mutation: the buffer keeps what was queued. *)
StopQueueKeeps ==
    /\ control = "stopQueue"
    /\ job[dispatcher] = {}
    /\ control' = IF disposing THEN "disposed" ELSE "idle"
    /\ inFlight' = OnWire
    /\ UNCHANGED <<flags, invoking, requests, mainPc, ret, maintPc, socket, queueOpen,
                   queued, bounds>>

(* Join the processing thread and discard what is queued. *)
StopQueue ==
    /\ control = "stopQueue"
    /\ job[dispatcher] = {}
    /\ control' = IF disposing THEN "disposed" ELSE "idle"
    /\ queued' = {}
    /\ inFlight' = OnWire
    /\ UNCHANGED <<flags, invoking, requests, mainPc, ret, maintPc, socket, queueOpen,
                   bounds>>

(* The end of dispose. *)
ClearResponses ==
    /\ control = "disposed"
    /\ Calls!ClearResponses
    /\ UNCHANGED life

Main ==
    \/ Connect \/ SocketFails \/ ConnectSucceeds \/ ConnectFails \/ Opened
    \/ StartInit \/ StartOnConnectError \/ StartOnDisconnect
    \/ Loop \/ Check \/ WakeUp \/ NothingToRead \/ ReadResponse \/ LinkLost \/ Lost

Maintain ==
    \/ InvokeSetPid \/ SetPidStep \/ SetPidDone \/ SetPidFailed
    \/ CloseDescriptor \/ ResetDescriptor \/ InitSetsClosed
    \/ CallbackInvokes \/ CallbackStep \/ CallbackReturns

Control == StartMain \/ JoinMain \/ JoinMaintenance \/ StopQueue \/ ClearResponses

Next ==
    \/ AppInvokes \/ Respond \/ Break \/ Dispatch
    \/ Main \/ Maintain
    \/ Start \/ Stop \/ Dispose \/ Control

Spec == Init /\ [][Next]_vars

(* Every thread keeps running, callbacks return, and a thread that began   *)
(* to dispose of the client goes on to stop it.  The server owes nothing.  *)
(* (A subscript names what every step of its action changes.)              *)
FairSpec ==
    /\ Spec
    /\ WF_<<pc[app]>>(InvokeStep(app))
    /\ WF_<<job, requestInfoMutex, queued>>(Dispatch)
    /\ WF_mainPc(Main)
    /\ WF_<<maintPc, pc[maintenance]>>(Maintain)
    /\ WF_<<control, rpcResponses>>(Control \/ (disposing /\ Stop))

-----------------------------------------------------------------------------
(* Properties                                                              *)

(* The flags, the server and the losses the client brings about are those  *)
(* RpcCalls allows, so what holds for the calls there holds here.          *)
CallsHold == Calls!Spec

(* _maintenanceThread is joined by one thread at a time: stop does so only *)
(* when there is no main thread any more that could.                       *)
JoinedByOne ==
    ~(control = "joinMaint" /\ mainPc \in {"joinInit", "joinError", "joinLost"})

(* A descriptor is closed once: when connect or init closes it, the other  *)
(* has not done so before, though both may have found the connection dead. *)
ClosedOnce ==
    /\ mainPc = "connect" /\ fdSet => link # "closed"
    /\ maintPc = "close" => fdSet /\ link # "closed"

(* The main thread never enqueues in a queue that is not started: the      *)
(* buffer of such a queue has no elements (the rule of IQueue).            *)
EnqueueOpen == [][queueOpen \/ queued' \subseteq queued]_vars

(* When stop has returned, no thread of the client is left, nothing is     *)
(* queued and the client stays closed: a connect that was under way when   *)
(* stop was called cannot open it behind its back.                         *)
StoppedIsQuiet ==
    control \in {"idle", "disposed"} =>
        /\ mainPc = "none" /\ maintPc = "none" /\ job[dispatcher] = {}
        /\ queued = {} /\ ~queueOpen
        /\ closed /\ stopped

(* A call that gives up has its waitMutex and wants _requestInfoMutex,     *)
(* the dispatcher has that one and wants the waitMutex, to deliver the     *)
(* answer: neither goes on, ever (TimedCallReturns of RpcCalls).           *)
LocksCrossed ==
    /\ requestInfoMutex = {dispatcher}
    /\ \E r \in job[dispatcher] : pc[r.threadId] = "unregister"

(* connect sets _closed back to FALSE before it joins the maintenance      *)
(* thread.  A callback that invokes only then waits for an answer nobody   *)
(* reads, since the main thread waits for the callback.                    *)
CallbackWaits == mainPc = "joinInit" /\ maintPc = "calling" /\ pc[maintenance] = "wait"

(* init closes the connection, after a refusal or a send that failed.  The *)
(* main thread then connects again without the sleep in which calls notice *)
(* that _closed is TRUE.                                                   *)
InitCloses == maintPc \in {"close", "reset", "setClosed"}

(* stop returns, whether the server answers or is silent and whatever      *)
(* waits without a timeout, setPid or a call of a callback: none of its    *)
(* joins and stopQueue lasts.  One exception: when the locks of a call and *)
(* the dispatcher are crossed, the threads stop joins never end.           *)
StopReturns ==
    []<>(control \notin {"joinMain", "joinMaint", "stopQueue"} \/ LocksCrossed)

(* The main thread, which alone reads what the server writes, does not stay *)
(* in a join of the maintenance thread: what that thread waits for ends     *)
(* with _closed.  Two exceptions: a callback that waits for an answer the   *)
(* main thread would have to read, and crossed locks, behind which every    *)
(* call of the maintenance thread waits.                                    *)
Joining == mainPc \in {"joinInit", "joinError", "joinLost"}

JoinsEnd == []<>(~Joining \/ CallbackWaits \/ LocksCrossed)

(* The request of a call was lost with its connection, and no response to  *)
(* the thread is left that could end its wait.                             *)
Unanswerable(t) ==
    /\ pc[t] = "wait"
    /\ \A c \in requests : c.threadId # t
    /\ \A r \in inFlight \cup job[dispatcher] : r.threadId # t

(* A call whose request was lost with the connection returns               *)
(* (IIpcClient.cpp:413-419: _closed ends the wait, and the caller is told  *)
(* "No response received.").                                               *)
LostCallReturns == Unanswerable(app) ~> (pc[app] # "wait")

(* A call that waits when the connection breaks returns: the connection    *)
(* does not stay broken with the call waiting, and while the call waits the *)
(* main thread does not replace it, which would hide the loss.  Two         *)
(* exceptions: init closes the connection first (LostCallReturns), or a     *)
(* callback keeps the main thread in a join, so that it notices nothing.    *)
(* It is claimed of one start: stop and start within the second between two *)
(* looks at the flags would hide them from the call.                        *)
WaitsBroken == pc[app] = "wait" /\ link = "broken"

=============================================================================
