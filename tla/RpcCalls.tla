------------------------------ MODULE RpcCalls ------------------------------
(***************************************************************************)
(* Calls of IIpcClient::invoke and the dispatching of the server's         *)
(* responses by IIpcClient::processQueueEntry (queue 1), at the level of   *)
(* the mutexes that order them.                                            *)
(*                                                                         *)
(* _rpcResponsesMutex, _packetIdMutex and _sendMutex are leaves: no thread *)
(* takes another lock while it holds one of them, so each of their         *)
(* critical sections is one step.  _requestInfoMutex and the waitMutex of  *)
(* a RequestInfo are held across other acquisitions and are modelled.      *)
(*                                                                         *)
(* A set with at most one element stands for a pointer that may be null.   *)
(***************************************************************************)
EXTENDS Integers, FiniteSets

CONSTANTS
    Threads,      \* threads that call invoke; a thread is its pthread_t
    Dispatchers,  \* processing threads of queue 1
    MaxCalls,     \* bound on the calls that pass the flag check
    TimeoutArgs,  \* the "timeout > 0" callers pass, a subset of BOOLEAN
    Faults        \* what the environment may do, a subset of AllFaults

AllFaults == {"close", "stop", "dispose", "sendError", "lose", "oddSize"}

ASSUME CallsAssumption ==
    /\ MaxCalls \in Nat
    /\ TimeoutArgs \subseteq BOOLEAN
    /\ Faults \subseteq AllFaults

VARIABLES
    closed, stopped, disposing,   \* the three flags invoke reads
    requestInfo,       \* keys of _requestInfo
    requestInfoMutex,  \* the dispatcher that holds _requestInfoMutex
    waitMutex,         \* threads whose RequestInfo::waitMutex is held (by them)
    rpcResponses,      \* keys of the inner map _rpcResponses[t]
    response,          \* what the IpcResponse of a thread and packet id holds
    currentPacketId,   \* _currentPacketId
    calls,             \* calls begun so far (bounded by MaxCalls)
    pc, packetId, timed,          \* locals of invoke
    parameters,        \* the arguments of a call: a number no other call has
    result,            \* what the last call of a thread returned
    requests,          \* requests the server has not answered
    inFlight,          \* responses written by the server, not yet taken
    job                \* the response a dispatcher is working on

flags == <<closed, stopped, disposing>>
locks == <<requestInfo, requestInfoMutex, waitMutex>>
pending == <<rpcResponses, response>>
call == <<calls, parameters, timed>>
server == <<requests, inFlight>>
caller == <<currentPacketId, call, pc, packetId, result>>
vars == <<flags, locks, pending, caller, server, job>>

PacketIds == 0 .. MaxCalls - 1

(* What the server computes for a call: its parameters stand for it.  No   *)
(* call has the parameters 0.                                              *)
Values == 0 .. MaxCalls

Requests == [threadId : Threads, packetId : PacketIds, parameters : Values]

(* A response array: element 0, element 1, its size (2 for "fewer than 3", *)
(* 4 for "more than 3") and element 2.                                     *)
Responses == [threadId : Threads, packetId : PacketIds, size : {2, 3, 4},
              value : Values]

Outcomes == {"none", "refused", "notInserted", "sendError", "noResponse",
             "answered"}

Results == [outcome : Outcomes, value : SUBSET Values]

Steps == {"idle", "register", "allocate", "insert", "send", "sendError",
          "wait", "remove", "unregister"}

TypeOK ==
    /\ closed \in BOOLEAN /\ stopped \in BOOLEAN /\ disposing \in BOOLEAN
    /\ requestInfo \subseteq Threads
    /\ requestInfoMutex \subseteq Dispatchers
    /\ waitMutex \subseteq Threads
    /\ rpcResponses \in [Threads -> SUBSET PacketIds]
    /\ response \in [Threads -> [PacketIds -> SUBSET Responses]]
    /\ currentPacketId \in 0 .. MaxCalls
    /\ calls \in 0 .. MaxCalls
    /\ pc \in [Threads -> Steps]
    /\ packetId \in [Threads -> PacketIds \cup {-1}]
    /\ parameters \in [Threads -> Values]
    /\ timed \in [Threads -> BOOLEAN]
    /\ result \in [Threads -> Results]
    /\ requests \subseteq Requests
    /\ inFlight \subseteq Responses
    /\ job \in [Dispatchers -> SUBSET Responses]

NotOpen == closed \/ stopped \/ disposing

Return(outcome, value) == [outcome |-> outcome, value |-> value]

Init ==
    /\ closed = TRUE /\ stopped = TRUE /\ disposing = FALSE
    /\ requestInfo = {} /\ requestInfoMutex = {} /\ waitMutex = {}
    /\ rpcResponses = [t \in Threads |-> {}]
    /\ response = [t \in Threads |-> [p \in PacketIds |-> {}]]
    /\ currentPacketId = 0 /\ calls = 0
    /\ pc = [t \in Threads |-> "idle"]
    /\ packetId = [t \in Threads |-> -1]
    /\ parameters = [t \in Threads |-> 0]
    /\ timed = [t \in Threads |-> FALSE]
    /\ result = [t \in Threads |-> Return("none", {})]
    /\ requests = {} /\ inFlight = {}
    /\ job = [w \in Dispatchers |-> {}]

-----------------------------------------------------------------------------
(* invoke                                                                  *)

Goto(t, from, to) ==
    /\ pc[t] = from
    /\ pc' = [pc EXCEPT ![t] = to]

(* The flag check at entry. *)
Refuse(t) ==
    /\ NotOpen
    /\ Goto(t, "idle", "idle")
    /\ result' = [result EXCEPT ![t] = Return("refused", {})]
    /\ UNCHANGED <<flags, locks, pending, currentPacketId, call, packetId, server, job>>

Begin(t) ==
    /\ ~NotOpen
    /\ calls < MaxCalls
    /\ Goto(t, "idle", "register")
    /\ calls' = calls + 1
    /\ parameters' = [parameters EXCEPT ![t] = calls']
    /\ \E b \in TimeoutArgs : timed' = [timed EXCEPT ![t] = b]
    /\ packetId' = [packetId EXCEPT ![t] = -1]
    /\ result' = [result EXCEPT ![t] = Return("none", {})]
    /\ UNCHANGED <<flags, locks, pending, currentPacketId, server, job>>

(* Emplace a RequestInfo under _requestInfoMutex; the emplace fails when   *)
(* the thread already has one.                                             *)
Register(t) ==
    /\ requestInfoMutex = {}
    /\ t \notin requestInfo
    /\ Goto(t, "register", "allocate")
    /\ requestInfo' = requestInfo \cup {t}
    /\ UNCHANGED <<flags, requestInfoMutex, waitMutex, pending, currentPacketId, call,
                   packetId, result, server, job>>

RegisterFails(t) ==
    /\ requestInfoMutex = {}
    /\ t \in requestInfo
    /\ Goto(t, "register", "idle")
    /\ result' = [result EXCEPT ![t] = Return("notInserted", {})]
    /\ UNCHANGED <<flags, locks, pending, currentPacketId, call, packetId, server, job>>

(* Mutation: the id is not incremented. *)
AllocateSameId(t) ==
    /\ Goto(t, "allocate", "insert")
    /\ packetId' = [packetId EXCEPT ![t] = currentPacketId]
    /\ UNCHANGED <<flags, locks, pending, currentPacketId, call, result, server, job>>

(* packetId = _currentPacketId++ under _packetIdMutex.  There are never    *)
(* more ids than calls, so the bound disables nothing.                     *)
AllocatePacketId(t) ==
    /\ currentPacketId < MaxCalls
    /\ Goto(t, "allocate", "insert")
    /\ packetId' = [packetId EXCEPT ![t] = currentPacketId]
    /\ currentPacketId' = currentPacketId + 1
    /\ UNCHANGED <<flags, locks, pending, call, result, server, job>>

(* Mutation: the response is filed under the id of the next call. *)
InsertUnderNextId(t) ==
    /\ Goto(t, "insert", "send")
    /\ rpcResponses' = [rpcResponses EXCEPT ![t] = @ \cup {currentPacketId}]
    /\ UNCHANGED <<flags, locks, response, currentPacketId, call, packetId, result,
                   server, job>>

(* Emplace an IpcResponse, not finished, under the id. *)
InsertResponse(t) ==
    /\ Goto(t, "insert", "send")
    /\ rpcResponses' = [rpcResponses EXCEPT ![t] = @ \cup {packetId[t]}]
    /\ response' = [response EXCEPT ![t][packetId[t]] = {}]
    /\ UNCHANGED <<flags, locks, currentPacketId, call, packetId, result, server, job>>

(* send writes the whole packet, or gives up on it. *)
SendRequest(t) ==
    /\ Goto(t, "send", "wait")
    /\ requests' = requests \cup {[threadId |-> t, packetId |-> packetId[t],
                                   parameters |-> parameters[t]]}
    /\ UNCHANGED <<flags, locks, pending, currentPacketId, call, packetId, result,
                   inFlight, job>>

SendFails(t) ==
    /\ "sendError" \in Faults
    /\ Goto(t, "send", "sendError")
    /\ UNCHANGED <<flags, locks, pending, currentPacketId, call, packetId, result,
                   server, job>>

(* Mutation: the early return forgets the pending response. *)
SendErrorKeepsResponse(t) ==
    /\ Goto(t, "sendError", "idle")
    /\ result' = [result EXCEPT ![t] = Return("sendError", {})]
    /\ UNCHANGED <<flags, locks, pending, currentPacketId, call, packetId, server, job>>

(* The early return after a failed send: the pending response is removed,  *)
(* the RequestInfo stays.                                                  *)
SendErrorReturn(t) ==
    /\ Goto(t, "sendError", "idle")
    /\ rpcResponses' = [rpcResponses EXCEPT ![t] = @ \ {packetId[t]}]
    /\ result' = [result EXCEPT ![t] = Return("sendError", {})]
    /\ UNCHANGED <<flags, locks, response, currentPacketId, call, packetId, server, job>>

(* Mutation: an element too many is expected. *)
ResultOfFour(delivered, p) ==
    LET good == {r \in delivered : r.size > 3 /\ r.packetId = p}
    IN  IF good = {} THEN Return("noResponse", {})
        ELSE Return("answered", {r.value : r \in good})

(* The result of a call for packet id p whose IpcResponse holds delivered. *)
ResultOf(delivered, p) ==
    LET good == {r \in delivered : r.size = 3 /\ r.packetId = p}
    IN  IF good = {} THEN Return("noResponse", {})
        ELSE Return("answered", {r.value : r \in good})

(* The predicate of the condition variable.  It is evaluated every second, *)
(* so no notification is needed for it to be noticed.                      *)
WaitOver(t) == response[t][packetId[t]] # {} \/ NotOpen \/ timed[t]

(* Mutation: the result is computed without waitMutex. *)
EndWaitUnlocked(t) ==
    /\ Goto(t, "wait", "remove")
    /\ WaitOver(t)
    /\ result' = [result EXCEPT ![t] = ResultOf(response[t][packetId[t]], packetId[t])]
    /\ UNCHANGED <<flags, locks, pending, currentPacketId, call, packetId, server, job>>

(* The wait returns with waitMutex locked, and the result is computed      *)
(* under it.                                                               *)
EndWait(t) ==
    /\ t \notin waitMutex
    /\ Goto(t, "wait", "remove")
    /\ WaitOver(t)
    /\ waitMutex' = waitMutex \cup {t}
    /\ result' = [result EXCEPT ![t] = ResultOf(response[t][packetId[t]], packetId[t])]
    /\ UNCHANGED <<flags, requestInfo, requestInfoMutex, pending, currentPacketId, call,
                   packetId, server, job>>

RemoveResponse(t) ==
    /\ Goto(t, "remove", "unregister")
    /\ rpcResponses' = [rpcResponses EXCEPT ![t] = @ \ {packetId[t]}]
    /\ UNCHANGED <<flags, locks, response, currentPacketId, call, packetId, result,
                   server, job>>

(* Mutation: erased without _requestInfoMutex. *)
UnregisterUnlocked(t) ==
    /\ Goto(t, "unregister", "idle")
    /\ requestInfo' = requestInfo \ {t}
    /\ waitMutex' = waitMutex \ {t}
    /\ UNCHANGED <<flags, requestInfoMutex, pending, currentPacketId, call, packetId,
                   result, server, job>>

(* _requestInfoMutex is taken while waitMutex is still held; both are      *)
(* released by the destructors at the return.                              *)
Unregister(t) ==
    /\ requestInfoMutex = {}
    /\ Goto(t, "unregister", "idle")
    /\ requestInfo' = requestInfo \ {t}
    /\ waitMutex' = waitMutex \ {t}
    /\ UNCHANGED <<flags, requestInfoMutex, pending, currentPacketId, call, packetId,
                   result, server, job>>

-----------------------------------------------------------------------------
(* processQueueEntry of queue 1                                            *)

(* A dispatcher pops a response; it drops it when the client is being      *)
(* disposed or the array has fewer than three elements.                    *)
TakeResponse(w, r) ==
    /\ job[w] = {}
    /\ r \in inFlight
    /\ inFlight' = inFlight \ {r}
    /\ job' = [job EXCEPT ![w] = IF disposing \/ r.size < 3 THEN {} ELSE {r}]
    /\ UNCHANGED <<flags, locks, pending, caller, requests>>

(* Lock _requestInfoMutex and look the thread up. *)
FindRequest(w, r) ==
    /\ r \in job[w]
    /\ requestInfoMutex = {}
    /\ r.threadId \in requestInfo
    /\ requestInfoMutex' = {w}
    /\ UNCHANGED <<flags, requestInfo, waitMutex, pending, caller, server, job>>

RequestNotFound(w, r) ==
    /\ r \in job[w]
    /\ requestInfoMutex = {}
    /\ r.threadId \notin requestInfo
    /\ job' = [job EXCEPT ![w] = {}]
    /\ UNCHANGED <<flags, locks, pending, caller, server>>

(* Mutation: the pending response is found by its thread alone.            *)
DeliverByThread(w, r) ==
    /\ r \in job[w]
    /\ requestInfoMutex = {w}
    /\ r.threadId \notin waitMutex
    /\ response' = [response EXCEPT ![r.threadId] =
          [p \in PacketIds |-> IF p \in rpcResponses[r.threadId]
                               THEN {[r EXCEPT !.packetId = p]} ELSE @[p]]]
    /\ requestInfoMutex' = {}
    /\ job' = [job EXCEPT ![w] = {}]
    /\ UNCHANGED <<flags, requestInfo, waitMutex, rpcResponses, caller, server>>

(* Lock waitMutex, store the response if its call is still pending, unlock *)
(* both.                                                                   *)
Deliver(w, r) ==
    /\ r \in job[w]
    /\ requestInfoMutex = {w}
    /\ r.threadId \notin waitMutex
    /\ response' = IF r.packetId \in rpcResponses[r.threadId]
                   THEN [response EXCEPT ![r.threadId][r.packetId] = {r}]
                   ELSE response
    /\ requestInfoMutex' = {}
    /\ job' = [job EXCEPT ![w] = {}]
    /\ UNCHANGED <<flags, requestInfo, waitMutex, rpcResponses, caller, server>>

-----------------------------------------------------------------------------
(* The server, the connection and the life cycle, as invoke sees them      *)

(* The server answers requests in any order, one response for each. *)
Answer(c, size) ==
    /\ c \in requests
    /\ size = 3 \/ "oddSize" \in Faults
    /\ requests' = requests \ {c}
    /\ inFlight' = inFlight \cup
          {[threadId |-> c.threadId, packetId |-> c.packetId, size |-> size,
            value |-> c.parameters]}
    /\ UNCHANGED <<flags, locks, pending, caller, job>>

(* Requests and responses lost with their connection, or responses dropped *)
(* because the queue was full or stopped.                                  *)
Lose(lostRequests, lostResponses) ==
    /\ "lose" \in Faults
    /\ requests' = requests \ lostRequests
    /\ inFlight' = inFlight \ lostResponses
    /\ UNCHANGED <<flags, locks, pending, caller, job>>

SetClosed ==
    /\ \/ closed /\ closed' = FALSE
       \/ "close" \in Faults /\ ~closed /\ closed' = TRUE
    /\ UNCHANGED <<stopped, disposing, locks, pending, caller, server, job>>

SetStopped ==
    /\ \/ stopped /\ stopped' = FALSE
       \/ "stop" \in Faults /\ ~stopped /\ stopped' = TRUE
    /\ UNCHANGED <<closed, disposing, locks, pending, caller, server, job>>

(* dispose sets _disposing, stops the client and clears _rpcResponses,     *)
(* without _rpcResponsesMutex, while calls of application threads may be   *)
(* pending.                                                                *)
SetDisposing ==
    /\ "dispose" \in Faults
    /\ ~disposing /\ disposing' = TRUE
    /\ UNCHANGED <<closed, stopped, locks, pending, caller, server, job>>

ClearResponses ==
    /\ disposing
    /\ rpcResponses' = [t \in Threads |-> {}]
    /\ UNCHANGED <<flags, locks, response, caller, server, job>>

Invoke(t) ==
    \/ Refuse(t) \/ Begin(t) \/ Register(t) \/ RegisterFails(t)
    \/ AllocatePacketId(t) \/ InsertResponse(t)
    \/ SendRequest(t) \/ SendFails(t) \/ SendErrorReturn(t)
    \/ EndWait(t) \/ RemoveResponse(t) \/ Unregister(t)

Dispatch(w) ==
    \/ \E r \in inFlight : TakeResponse(w, r)
    \/ \E r \in job[w] : FindRequest(w, r) \/ RequestNotFound(w, r) \/ Deliver(w, r)

Server == \E c \in requests, size \in {2, 3, 4} : Answer(c, size)

Loss == \E cs \in SUBSET requests, rs \in SUBSET inFlight : Lose(cs, rs)

LifeCycle == SetClosed \/ SetStopped \/ SetDisposing \/ ClearResponses

Next ==
    \/ \E t \in Threads : Invoke(t)
    \/ \E w \in Dispatchers : Dispatch(w)
    \/ Server \/ Loss \/ LifeCycle

Spec == Init /\ [][Next]_vars

(* A thread inside invoke keeps running, a processing thread of queue 1    *)
(* keeps popping, and the server answers what reached it.  Callers need    *)
(* not call, and no fault has to happen.  Weak fairness is enough for the  *)
(* mutexes: the calls are bounded, so each is contended finitely often.    *)
InvokeStep(t) == pc[t] # "idle" /\ Invoke(t)

FairSpec ==
    /\ Spec
    /\ \A t \in Threads : WF_vars(InvokeStep(t))
    /\ \A w \in Dispatchers : WF_vars(Dispatch(w))
    /\ WF_vars(Server)

-----------------------------------------------------------------------------
(* Properties                                                              *)

(* invoke never returns the answer to another call: not to a call of       *)
(* another thread, and not a late answer to an earlier call of its own     *)
(* thread that had given up (timeout, closed connection, stop).            *)
OwnAnswer == \A t \in Threads : result[t].value \subseteq {parameters[t]}

(* A call has its id in _rpcResponses only between its insertion and its   *)
(* removal: whatever path a call takes to its return (answer, timeout,     *)
(* failed send, disposal), it leaves no pending response behind.           *)
PendingResponses ==
    \A t \in Threads :
        rpcResponses[t] \subseteq
            IF pc[t] \in {"send", "sendError", "wait", "remove"}
            THEN {packetId[t]} ELSE {}

(* A call is registered from its insertion in _requestInfo up to the end,  *)
(* so that its answer can find it, and the RequestInfo a dispatcher found  *)
(* stays in the map for as long as the dispatcher uses it: the iterator    *)
(* processQueueEntry holds across waitMutex is never invalidated by the    *)
(* call's own erase.                                                       *)
RegistrationLasts ==
    /\ \A t \in Threads :
          pc[t] \notin {"idle", "register"} => t \in requestInfo
    /\ \A w \in requestInfoMutex :
          \E r \in job[w] : r.threadId \in requestInfo

(* What a call is told is what happened to it: once its thread has locked  *)
(* waitMutex and computed the result, no dispatcher stores a response for  *)
(* it any more, so "No response received." is not returned by a call whose *)
(* response was finished when it returned.                                 *)
VerdictFinal ==
    \A t \in Threads :
        pc[t] \in {"remove", "unregister"} =>
            result[t] = ResultOf(response[t][packetId[t]], packetId[t])

(* The calls are those of RemoteCalls: whatever is lost, late, reordered   *)
(* or of the wrong size, the server executes a call at most once, and a    *)
(* call returns an error or the answer that was computed for it.           *)
Stored == UNION {response[t][p] : t \in Threads, p \in PacketIds}

Delivering == UNION {job[w] : w \in Dispatchers}

PhaseOf(step) ==
    CASE step = "idle" -> "idle"
      [] step \in {"wait", "remove", "unregister"} -> "waiting"
      [] OTHER -> "calling"

Remote == INSTANCE RemoteCalls WITH
    NoCall <- 0,
    phase <- [t \in Threads |-> PhaseOf(pc[t])],
    current <- parameters,
    outstanding <- {c.parameters : c \in requests},
    answers <- {r.value : r \in inFlight \cup Delivering \cup Stored},
    answer <- [t \in Threads |-> IF pc[t] = "idle" THEN result[t].value ELSE {}]

IsRemoteCalls == Remote!Spec

(* With no timeout and no fault every request that was sent is answered:   *)
(* its call returns, with the answer.                                      *)
CallAnswered ==
    \A t \in Threads :
        (pc[t] = "wait") ~> (pc[t] = "idle" /\ result[t].outcome = "answered")

(* IIpcClient.cpp:414-419: a call with a timeout returns when it is over,  *)
(* with "No response received." if nothing came.                           *)
TimedCallReturns ==
    \A t \in Threads : (pc[t] = "wait" /\ timed[t]) ~> (pc[t] = "idle")

(* IIpcClient.cpp:371-376 and 428-431: a thread is in _requestInfo only    *)
(* while it is inside invoke, so the insertion of a new call succeeds.     *)
InsertSucceeds == \A t \in Threads : result[t].outcome # "notInserted"
=============================================================================
