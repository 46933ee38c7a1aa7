--------------------------- MODULE RpcCallsProofs ---------------------------
(***************************************************************************)
(* Proofs about RpcCalls: its safety properties hold for every set of      *)
(* threads and dispatchers, any number of calls and every fault.           *)
(***************************************************************************)
EXTENDS RpcCalls, TLAPS

(* A request or response for a packet id: the id was handed out, and if it *)
(* is the id of the current call of its thread, v is that call's.          *)
Fits(r, v) ==
    /\ r.packetId < currentPacketId
    /\ r.packetId = packetId[r.threadId] => v = parameters[r.threadId]

(* Every value on its way back to a caller was computed for the call the   *)
(* packet id stands for.                                                   *)
AnswersFit ==
    /\ \A c \in requests : Fits(c, c.parameters)
    /\ \A r \in inFlight : Fits(r, r.value)
    /\ \A w \in Dispatchers : \A r \in job[w] : Fits(r, r.value)
    /\ \A t \in Threads, p \in PacketIds :
          \A r \in response[t][p] : r.threadId = t /\ Fits(r, r.value)

(* A call past the allocation has an id that was handed out. *)
HasPacketId ==
    \A t \in Threads :
        /\ packetId[t] < currentPacketId
        /\ pc[t] \notin {"idle", "register", "allocate"} => packetId[t] \in PacketIds

(* waitMutex is held exactly between the end of the wait and the return. *)
WaitMutexHeld ==
    \A t \in Threads : pc[t] \in {"remove", "unregister"} => t \in waitMutex

Typed == TypeOK /\ HasPacketId

-----------------------------------------------------------------------------
(* The result of a call carries only what its IpcResponse holds. *)
LEMMA ResultOfType ==
    ASSUME NEW delivered \in SUBSET Responses, NEW p
    PROVE  /\ ResultOf(delivered, p) \in Results
           /\ \A v \in ResultOf(delivered, p).value : \E r \in delivered : r.value = v
<1> DEFINE good == {r \in delivered : r.size = 3 /\ r.packetId = p}
<1>1. CASE good = {}
  BY <1>1 DEF ResultOf, Return, Results, Outcomes
<1>2. CASE good # {}
  <2>1. {r.value : r \in good} \subseteq Values
    BY DEF Responses
  <2> QED
    BY <1>2, <2>1 DEF ResultOf, Return, Results, Outcomes
<1> QED
  BY <1>1, <1>2

LEMMA TypeInit == Init => Typed
<1> SUFFICES ASSUME Init PROVE Typed
  OBVIOUS
<1>1. Return("none", {}) \in Results
  BY DEF Return, Results, Outcomes
<1>2. HasPacketId
  BY DEF Init, HasPacketId
<1>3. 0 \in Values /\ 0 \in 0 .. MaxCalls
  BY CallsAssumption DEF Values
<1> QED
  BY <1>1, <1>2, <1>3 DEF Init, Typed, TypeOK, Steps

LEMMA TypeStep == Typed /\ [Next]_vars => Typed'
<1> SUFFICES ASSUME Typed, [Next]_vars PROVE Typed'
  OBVIOUS
<1> USE CallsAssumption DEF Typed, TypeOK, HasPacketId
<1>1. ASSUME NEW t \in Threads, Invoke(t) PROVE Typed'
  <2> USE DEF Goto, Steps, flags, locks, pending, call, server, caller
  <2>1. CASE Refuse(t)
    BY <2>1 DEF Refuse, Return, Results, Outcomes
  <2>2. CASE Begin(t)
    <3>1. calls' \in 0 .. MaxCalls /\ calls' \in Values
      BY <2>2 DEF Begin, Values
    <3>2. timed' \in [Threads -> BOOLEAN]
      BY <2>2 DEF Begin
    <3> QED
      BY <2>2, <3>1, <3>2 DEF Begin, Return, Results, Outcomes
  <2>3. CASE Register(t)
    BY <2>3 DEF Register
  <2>4. CASE RegisterFails(t)
    BY <2>4 DEF RegisterFails, Return, Results, Outcomes
  <2>5. CASE AllocatePacketId(t)
    BY <2>5 DEF AllocatePacketId, PacketIds
  <2>6. CASE InsertResponse(t)
    BY <2>6 DEF InsertResponse
  <2>7. CASE SendRequest(t)
    <3>1. packetId[t] \in PacketIds
      BY <2>7 DEF SendRequest
    <3>2. [threadId |-> t, packetId |-> packetId[t], parameters |-> parameters[t]] \in Requests
      BY <3>1 DEF Requests
    <3>3. requests' \subseteq Requests
      BY <2>7, <3>2 DEF SendRequest
    <3>4. pc' \in [Threads -> Steps] /\ HasPacketId'
      BY <2>7, <3>1 DEF SendRequest
    <3> HIDE DEF HasPacketId
    <3> QED
      BY <2>7, <3>3, <3>4 DEF SendRequest
  <2>8. CASE SendFails(t)
    BY <2>8 DEF SendFails
  <2>9. CASE SendErrorReturn(t)
    BY <2>9 DEF SendErrorReturn, Return, Results, Outcomes
  <2>10. CASE EndWait(t)
    <3>0. packetId[t] \in PacketIds
      BY <2>10 DEF EndWait
    <3>1. response[t][packetId[t]] \in SUBSET Responses
      BY <3>0
    <3>2. ResultOf(response[t][packetId[t]], packetId[t]) \in Results
      BY <3>1, ResultOfType
    <3> HIDE DEF Results
    <3> QED
      BY <2>10, <3>2 DEF EndWait
  <2>11. CASE RemoveResponse(t)
    BY <2>11 DEF RemoveResponse
  <2>12. CASE Unregister(t)
    BY <2>12 DEF Unregister
  <2> QED
    BY <1>1, <2>1, <2>2, <2>3, <2>4, <2>5, <2>6, <2>7, <2>8, <2>9, <2>10, <2>11, <2>12
       DEF Invoke
<1>2. ASSUME NEW w \in Dispatchers, Dispatch(w) PROVE Typed'
  <2> USE DEF flags, locks, pending, call, server, caller
  <2>1. CASE \E r \in inFlight : TakeResponse(w, r)
    BY <2>1 DEF TakeResponse
  <2>2. CASE \E r \in job[w] : FindRequest(w, r)
    BY <2>2 DEF FindRequest
  <2>3. CASE \E r \in job[w] : RequestNotFound(w, r)
    BY <2>3 DEF RequestNotFound
  <2>4. CASE \E r \in job[w] : Deliver(w, r)
    <3>1. PICK r \in job[w] : Deliver(w, r)
      BY <2>4
    <3>2. r \in Responses /\ r.threadId \in Threads /\ r.packetId \in PacketIds
      BY DEF Responses
    <3> QED
      BY <3>1, <3>2 DEF Deliver
  <2> QED
    BY <1>2, <2>1, <2>2, <2>3, <2>4 DEF Dispatch
<1>3. CASE Server
  <2>1. PICK c \in requests, size \in {2, 3, 4} : Answer(c, size)
    BY <1>3 DEF Server
  <2>2. [threadId |-> c.threadId, packetId |-> c.packetId, size |-> size,
         value |-> c.parameters] \in Responses
    BY <2>1 DEF Requests, Responses
  <2> QED
    BY <2>1, <2>2 DEF Answer, flags, locks, pending, call, caller
<1>4. CASE Loss
  BY <1>4 DEF Loss, Lose, flags, locks, pending, call, caller
<1>5. CASE LifeCycle
  BY <1>5 DEF LifeCycle, SetClosed, SetStopped, SetDisposing, ClearResponses, flags, locks,
              pending, call, server, caller
<1>6. CASE UNCHANGED vars
  BY <1>6 DEF vars, flags, locks, pending, call, server, caller
<1> QED
  BY <1>1, <1>2, <1>3, <1>4, <1>5, <1>6 DEF Next

(* Every variable keeps its type, so no call works with an id that was not *)
(* handed out.                                                             *)
THEOREM TypeCorrect == Spec => []TypeOK
<1>1. Typed => TypeOK
  BY DEF Typed
<1> QED
  BY <1>1, TypeInit, TypeStep, PTL DEF Spec

-----------------------------------------------------------------------------
LEMMA AnswersInit == Init => AnswersFit /\ OwnAnswer
BY DEF Init, AnswersFit, OwnAnswer, Return

(* A step that hands out no id, starts no call and delivers nothing keeps  *)
(* the answers fitting, whatever it drops or moves.                        *)
LEMMA AnswersFrame ==
    ASSUME AnswersFit,
           UNCHANGED <<currentPacketId, packetId, parameters>>,
           requests' \subseteq requests,
           \A r \in inFlight' : Fits(r, r.value),
           \A w \in Dispatchers : \A r \in job'[w] : Fits(r, r.value),
           \A t \in Threads, p \in PacketIds : response'[t][p] \subseteq response[t][p]
    PROVE  AnswersFit'
BY DEF AnswersFit, Fits

LEMMA AnswersStep ==
    ASSUME Typed, AnswersFit, OwnAnswer, [Next]_vars
    PROVE  AnswersFit' /\ OwnAnswer'
<1> USE DEF flags, locks, pending, call, server, caller
<1>0. /\ \A c \in requests : c.threadId \in Threads /\ c.packetId \in PacketIds
      /\ \A r \in inFlight : r.threadId \in Threads /\ r.packetId \in PacketIds
      /\ \A w \in Dispatchers : \A r \in job[w] :
            r.threadId \in Threads /\ r.packetId \in PacketIds
      /\ \A t \in Threads, p \in PacketIds : \A r \in response[t][p] :
            r.threadId \in Threads /\ r.packetId \in PacketIds
  BY DEF Requests, Responses, Typed, TypeOK
<1>a. /\ \A p \in PacketIds : p # -1 /\ p \in Int
      /\ currentPacketId \in Int
  BY CallsAssumption DEF PacketIds, Typed, TypeOK
<1>b. /\ packetId \in [Threads -> PacketIds \cup {-1}]
      /\ parameters \in [Threads -> Values]
      /\ result \in [Threads -> Results]
      /\ response \in [Threads -> [PacketIds -> SUBSET Responses]]
      /\ job \in [Dispatchers -> SUBSET Responses]
  BY DEF Typed, TypeOK
<1>1. ASSUME NEW t \in Threads, Invoke(t) PROVE AnswersFit' /\ OwnAnswer'
  <2>0. /\ \A r \in inFlight : Fits(r, r.value)
        /\ \A w \in Dispatchers : \A r \in job[w] : Fits(r, r.value)
    BY DEF AnswersFit
  <2>1. CASE Refuse(t)
    <3>1. AnswersFit'
      BY <2>0, <2>1, AnswersFrame DEF Refuse
    <3>2. OwnAnswer'
      BY <1>b, <2>1 DEF Refuse, Return, OwnAnswer
    <3> QED
      BY <3>1, <3>2
  <2>2. CASE Begin(t)
    <3>1. AnswersFit'
      BY <1>0, <1>a, <1>b, <2>2 DEF Begin, AnswersFit, Fits
    <3>2. OwnAnswer'
      BY <1>b, <2>2 DEF Begin, Return, OwnAnswer
    <3> QED
      BY <3>1, <3>2
  <2>3. CASE Register(t)
    BY <2>0, <2>3, AnswersFrame DEF Register, OwnAnswer
  <2>4. CASE RegisterFails(t)
    <3>1. AnswersFit'
      BY <2>0, <2>4, AnswersFrame DEF RegisterFails
    <3>2. OwnAnswer'
      BY <1>b, <2>4 DEF RegisterFails, Return, OwnAnswer
    <3> QED
      BY <3>1, <3>2
  <2>5. CASE AllocatePacketId(t)
    <3>1. AnswersFit'
      BY <1>0, <1>a, <1>b, <2>5 DEF AllocatePacketId, AnswersFit, Fits
    <3> QED
      BY <2>5, <3>1 DEF AllocatePacketId, OwnAnswer
  <2>6. CASE InsertResponse(t)
    <3>1. \A u \in Threads, p \in PacketIds : response'[u][p] \subseteq response[u][p]
      BY <1>b, <2>6 DEF InsertResponse
    <3>2. AnswersFit'
      BY <2>0, <2>6, <3>1, AnswersFrame DEF InsertResponse
    <3> QED
      BY <2>6, <3>2 DEF InsertResponse, OwnAnswer
  <2>7. CASE SendRequest(t)
    <3>1. packetId[t] < currentPacketId
      BY DEF Typed, HasPacketId
    <3>2. AnswersFit'
      BY <2>7, <3>1 DEF SendRequest, AnswersFit, Fits
    <3> QED
      BY <2>7, <3>2 DEF SendRequest, OwnAnswer
  <2>8. CASE SendFails(t)
    BY <2>0, <2>8, AnswersFrame DEF SendFails, OwnAnswer
  <2>9. CASE SendErrorReturn(t)
    <3>1. AnswersFit'
      BY <2>0, <2>9, AnswersFrame DEF SendErrorReturn
    <3>2. OwnAnswer'
      BY <1>b, <2>9 DEF SendErrorReturn, Return, OwnAnswer
    <3> QED
      BY <3>1, <3>2
  <2>10. CASE EndWait(t)
    <3> DEFINE p == packetId[t]
    <3>1. p \in PacketIds
      BY <2>10 DEF EndWait, Goto, Typed, HasPacketId
    <3>2. \A v \in ResultOf(response[t][p], p).value :
             \E r \in response[t][p] : r.packetId = p /\ r.value = v
      BY DEF ResultOf, Return
    <3>3. \A r \in response[t][p] : r.packetId = p => r.value = parameters[t]
      BY <3>1 DEF AnswersFit, Fits
    <3>4. ResultOf(response[t][p], p).value \subseteq {parameters[t]}
      BY <3>2, <3>3
    <3>5. OwnAnswer'
      BY <1>b, <2>10, <3>4 DEF EndWait, OwnAnswer
    <3>6. AnswersFit'
      BY <2>0, <2>10, AnswersFrame DEF EndWait
    <3> QED
      BY <3>5, <3>6
  <2>11. CASE RemoveResponse(t)
    BY <2>0, <2>11, AnswersFrame DEF RemoveResponse, OwnAnswer
  <2>12. CASE Unregister(t)
    BY <2>0, <2>12, AnswersFrame DEF Unregister, OwnAnswer
  <2> QED
    BY <1>1, <2>1, <2>2, <2>3, <2>4, <2>5, <2>6, <2>7, <2>8, <2>9, <2>10, <2>11, <2>12
       DEF Invoke
<1>2. ASSUME NEW w \in Dispatchers, Dispatch(w) PROVE AnswersFit' /\ OwnAnswer'
  <2>1. CASE \E r \in inFlight : TakeResponse(w, r)
    BY <1>b, <2>1 DEF TakeResponse, AnswersFit, Fits, OwnAnswer
  <2>2. CASE \E r \in job[w] : FindRequest(w, r)
    BY <2>2 DEF FindRequest, AnswersFit, Fits, OwnAnswer
  <2>3. CASE \E r \in job[w] : RequestNotFound(w, r)
    BY <1>b, <2>3 DEF RequestNotFound, AnswersFit, Fits, OwnAnswer
  <2>4. CASE \E r \in job[w] : Deliver(w, r)
    <3>1. PICK r \in job[w] : Deliver(w, r)
      BY <2>4
    <3>2. r.threadId \in Threads /\ r.packetId \in PacketIds /\ Fits(r, r.value)
      BY <1>0 DEF AnswersFit
    <3> QED
      BY <1>b, <3>1, <3>2 DEF Deliver, AnswersFit, Fits, OwnAnswer
  <2> QED
    BY <1>2, <2>1, <2>2, <2>3, <2>4 DEF Dispatch
<1>3. CASE Server
  <2>1. PICK c \in requests, size \in {2, 3, 4} : Answer(c, size)
    BY <1>3 DEF Server
  <2> QED
    BY <2>1 DEF Answer, AnswersFit, Fits, OwnAnswer
<1>4. CASE Loss
  BY <1>4 DEF Loss, Lose, AnswersFit, Fits, OwnAnswer
<1>5. CASE LifeCycle
  <2>1. UNCHANGED <<requests, inFlight, job, response, caller>>
    BY <1>5 DEF LifeCycle, SetClosed, SetStopped, SetDisposing, ClearResponses
  <2> QED
    BY <2>1 DEF AnswersFit, Fits, OwnAnswer
<1>6. CASE UNCHANGED vars
  BY <1>6 DEF vars, AnswersFit, Fits, OwnAnswer
<1> QED
  BY <1>1, <1>2, <1>3, <1>4, <1>5, <1>6 DEF Next

(* invoke never returns the answer to another call. *)
THEOREM OwnAnswerAlways == Spec => []OwnAnswer
<1>1. Init => Typed /\ AnswersFit /\ OwnAnswer
  BY TypeInit, AnswersInit
<1>2. (Typed /\ AnswersFit /\ OwnAnswer) /\ [Next]_vars
        => (Typed /\ AnswersFit /\ OwnAnswer)'
  BY TypeStep, AnswersStep
<1> QED
  BY <1>1, <1>2, PTL DEF Spec

-----------------------------------------------------------------------------
(* Every call takes its id out of _rpcResponses again before it returns. *)
THEOREM PendingResponsesAlways == Spec => []PendingResponses
<1>1. Init => PendingResponses
  BY DEF Init, PendingResponses
<1>2. Typed /\ PendingResponses /\ [Next]_vars => PendingResponses'
  <2> SUFFICES ASSUME Typed, PendingResponses, [Next]_vars PROVE PendingResponses'
    OBVIOUS
  <2>0. /\ rpcResponses \in [Threads -> SUBSET PacketIds]
        /\ pc \in [Threads -> Steps]
        /\ packetId \in [Threads -> PacketIds \cup {-1}]
    BY DEF Typed, TypeOK
  <2> USE DEF PendingResponses, flags, locks, pending, call, server, caller
  <2>1. ASSUME NEW t \in Threads, Invoke(t) PROVE PendingResponses'
    <3> USE <2>0 DEF Goto
    <3>1. CASE Refuse(t)
      BY <3>1 DEF Refuse
    <3>2. CASE Begin(t)
      BY <3>2 DEF Begin
    <3>3. CASE Register(t) \/ RegisterFails(t)
      BY <3>3 DEF Register, RegisterFails
    <3>4. CASE AllocatePacketId(t)
      BY <3>4 DEF AllocatePacketId
    <3>5. CASE InsertResponse(t)
      BY <3>5 DEF InsertResponse
    <3>6. CASE SendRequest(t) \/ SendFails(t)
      BY <3>6 DEF SendRequest, SendFails
    <3>7. CASE SendErrorReturn(t)
      BY <3>7 DEF SendErrorReturn
    <3>8. CASE EndWait(t)
      BY <3>8 DEF EndWait
    <3>9. CASE RemoveResponse(t)
      BY <3>9 DEF RemoveResponse
    <3>10. CASE Unregister(t)
      BY <3>10 DEF Unregister
    <3> QED
      BY <2>1, <3>1, <3>2, <3>3, <3>4, <3>5, <3>6, <3>7, <3>8, <3>9, <3>10 DEF Invoke
  <2>2. ASSUME NEW w \in Dispatchers, Dispatch(w) PROVE PendingResponses'
    BY <2>2 DEF Dispatch, TakeResponse, FindRequest, RequestNotFound, Deliver
  <2>3. CASE Server \/ Loss
    BY <2>3 DEF Server, Answer, Loss, Lose
  <2>4. CASE LifeCycle
    BY <2>4 DEF LifeCycle, SetClosed, SetStopped, SetDisposing, ClearResponses
  <2>5. CASE UNCHANGED vars
    BY <2>5 DEF vars
  <2> QED
    BY <2>1, <2>2, <2>3, <2>4, <2>5 DEF Next
<1>3. Init => Typed
  BY TypeInit
<1>4. Typed /\ [Next]_vars => Typed'
  BY TypeStep
<1> QED
  BY <1>1, <1>2, <1>3, <1>4, PTL DEF Spec

-----------------------------------------------------------------------------
(* A call stays registered until it returns, and a RequestInfo is not      *)
(* erased while a dispatcher uses it: Unregister needs _requestInfoMutex.  *)
THEOREM RegistrationLastsAlways == Spec => []RegistrationLasts
<1>1. Init => RegistrationLasts
  BY DEF Init, RegistrationLasts
<1>2. Typed /\ RegistrationLasts /\ [Next]_vars => RegistrationLasts'
  <2> SUFFICES ASSUME Typed, RegistrationLasts, [Next]_vars PROVE RegistrationLasts'
    OBVIOUS
  <2>0. /\ pc \in [Threads -> Steps]
        /\ job \in [Dispatchers -> SUBSET Responses]
        /\ requestInfoMutex \subseteq Dispatchers
    BY DEF Typed, TypeOK
  <2> USE <2>0 DEF RegistrationLasts, flags, locks, pending, call, server, caller
  <2>1. ASSUME NEW t \in Threads, Invoke(t) PROVE RegistrationLasts'
    <3> USE DEF Goto
    <3>1. CASE Refuse(t) \/ Begin(t)
      BY <3>1 DEF Refuse, Begin
    <3>2. CASE Register(t)
      BY <3>2 DEF Register
    <3>3. CASE RegisterFails(t)
      BY <3>3 DEF RegisterFails
    <3>4. CASE AllocatePacketId(t) \/ InsertResponse(t)
      BY <3>4 DEF AllocatePacketId, InsertResponse
    <3>5. CASE SendRequest(t) \/ SendFails(t) \/ SendErrorReturn(t)
      BY <3>5 DEF SendRequest, SendFails, SendErrorReturn
    <3>6. CASE EndWait(t) \/ RemoveResponse(t)
      BY <3>6 DEF EndWait, RemoveResponse
    <3>7. CASE Unregister(t)
      BY <3>7 DEF Unregister
    <3> QED
      BY <2>1, <3>1, <3>2, <3>3, <3>4, <3>5, <3>6, <3>7 DEF Invoke
  <2>2. ASSUME NEW w \in Dispatchers, Dispatch(w) PROVE RegistrationLasts'
    <3>1. CASE \E r \in inFlight : TakeResponse(w, r)
      BY <3>1 DEF TakeResponse
    <3>2. CASE \E r \in job[w] : FindRequest(w, r)
      BY <3>2 DEF FindRequest
    <3>3. CASE \E r \in job[w] : RequestNotFound(w, r)
      BY <3>3 DEF RequestNotFound
    <3>4. CASE \E r \in job[w] : Deliver(w, r)
      BY <3>4 DEF Deliver
    <3> QED
      BY <2>2, <3>1, <3>2, <3>3, <3>4 DEF Dispatch
  <2>3. CASE Server \/ Loss
    BY <2>3 DEF Server, Answer, Loss, Lose
  <2>4. CASE LifeCycle
    BY <2>4 DEF LifeCycle, SetClosed, SetStopped, SetDisposing, ClearResponses
  <2>5. CASE UNCHANGED vars
    BY <2>5 DEF vars
  <2> QED
    BY <2>1, <2>2, <2>3, <2>4, <2>5 DEF Next
<1>3. Init => Typed
  BY TypeInit
<1>4. Typed /\ [Next]_vars => Typed'
  BY TypeStep
<1> QED
  BY <1>1, <1>2, <1>3, <1>4, PTL DEF Spec

-----------------------------------------------------------------------------
LEMMA VerdictInit == Init => WaitMutexHeld /\ VerdictFinal
BY DEF Init, WaitMutexHeld, VerdictFinal

LEMMA VerdictStep ==
    ASSUME Typed, WaitMutexHeld, VerdictFinal, [Next]_vars
    PROVE  (WaitMutexHeld /\ VerdictFinal)'
<1>0. /\ pc \in [Threads -> Steps]
      /\ packetId \in [Threads -> PacketIds \cup {-1}]
      /\ result \in [Threads -> Results]
      /\ response \in [Threads -> [PacketIds -> SUBSET Responses]]
      /\ job \in [Dispatchers -> SUBSET Responses]
  BY DEF Typed, TypeOK
<1> USE <1>0 DEF WaitMutexHeld, VerdictFinal, flags, locks, pending, call, server, caller
<1>1. ASSUME NEW t \in Threads, Invoke(t) PROVE (WaitMutexHeld /\ VerdictFinal)'
  <2> USE DEF Goto
  <2>1. CASE Refuse(t)
    BY <2>1 DEF Refuse
  <2>2. CASE Begin(t)
    BY <2>2 DEF Begin
  <2>3. CASE Register(t)
    BY <2>3 DEF Register
  <2>4. CASE RegisterFails(t)
    BY <2>4 DEF RegisterFails
  <2>5. CASE AllocatePacketId(t)
    BY <2>5 DEF AllocatePacketId
  <2>6. CASE InsertResponse(t)
    BY <2>6 DEF InsertResponse
  <2>7. CASE SendRequest(t) \/ SendFails(t)
    BY <2>7 DEF SendRequest, SendFails
  <2>8. CASE SendErrorReturn(t)
    BY <2>8 DEF SendErrorReturn
  <2>9. CASE EndWait(t)
    BY <2>9 DEF EndWait
  <2>10. CASE RemoveResponse(t)
    BY <2>10 DEF RemoveResponse
  <2>11. CASE Unregister(t)
    BY <2>11 DEF Unregister
  <2> QED
    BY <1>1, <2>1, <2>2, <2>3, <2>4, <2>5, <2>6, <2>7, <2>8, <2>9, <2>10, <2>11
       DEF Invoke
<1>2. ASSUME NEW w \in Dispatchers, Dispatch(w) PROVE (WaitMutexHeld /\ VerdictFinal)'
  <2>1. CASE \E r \in inFlight : TakeResponse(w, r)
    BY <2>1 DEF TakeResponse
  <2>2. CASE \E r \in job[w] : FindRequest(w, r) \/ RequestNotFound(w, r)
    BY <2>2 DEF FindRequest, RequestNotFound
  <2>3. CASE \E r \in job[w] : Deliver(w, r)
    <3>1. PICK r \in job[w] : Deliver(w, r)
      BY <2>3
    <3>2. \A t \in Threads : t \in waitMutex => response'[t] = response[t]
      BY <3>1 DEF Deliver
    <3> QED
      BY <3>1, <3>2 DEF Deliver
  <2> QED
    BY <1>2, <2>1, <2>2, <2>3 DEF Dispatch
<1>3. CASE Server \/ Loss
  BY <1>3 DEF Server, Answer, Loss, Lose
<1>4. CASE LifeCycle
  BY <1>4 DEF LifeCycle, SetClosed, SetStopped, SetDisposing, ClearResponses
<1>5. CASE UNCHANGED vars
  BY <1>5 DEF vars
<1> QED
  BY <1>1, <1>2, <1>3, <1>4, <1>5 DEF Next

(* A result once computed stays the verdict on the call: the thread holds  *)
(* waitMutex from then on, and a dispatcher stores responses only under    *)
(* the waitMutex of their thread.                                          *)
THEOREM VerdictFinalAlways == Spec => []VerdictFinal
<1>1. Init => Typed /\ WaitMutexHeld /\ VerdictFinal
  BY TypeInit, VerdictInit
<1>2. (Typed /\ WaitMutexHeld /\ VerdictFinal) /\ [Next]_vars
        => (Typed /\ WaitMutexHeld /\ VerdictFinal)'
  BY TypeStep, VerdictStep
<1> QED
  BY <1>1, <1>2, PTL DEF Spec

-----------------------------------------------------------------------------
(***************************************************************************)
(* Proof that RpcCalls implements RemoteCalls: whatever is lost, late,     *)
(* reordered or of the wrong size, the server executes a call at most once *)
(* and invoke returns an error or the answer computed for this call.       *)
(***************************************************************************)

(* The responses that have not been lost. *)
Kept == inFlight \cup Delivering \cup Stored

(* The parameters tell calls apart: no two threads and no two requests     *)
(* have the same, those of a call that was not sent are in no request, and *)
(* those of the next call are nowhere yet.                                 *)
CallsDistinct ==
    /\ \A t \in Threads : parameters[t] <= calls
    /\ \A t, u \in Threads : parameters[t] = parameters[u] => t = u \/ parameters[t] = 0
    /\ \A t \in Threads : pc[t] # "idle" => parameters[t] # 0
    /\ \A c \in requests : c.parameters <= calls
    /\ \A r \in Kept : r.value <= calls
    /\ \A c, d \in requests : c.parameters = d.parameters => c = d
    /\ \A t \in Threads : pc[t] \in {"register", "allocate", "insert", "send"} =>
          \A c \in requests : c.parameters # parameters[t]

Inv == Typed /\ AnswersFit /\ OwnAnswer /\ WaitMutexHeld /\ VerdictFinal /\ CallsDistinct

-----------------------------------------------------------------------------
LEMMA KeptElements ==
    \A r : r \in Kept <=>
        \/ r \in inFlight
        \/ \E w \in Dispatchers : r \in job[w]
        \/ \E t \in Threads, p \in PacketIds : r \in response[t][p]
BY DEF Kept, Delivering, Stored

(* No thread creates a response, and only the server answers: a response   *)
(* that a thread or a fault touches moves on or is lost.                   *)
LEMMA KeptStep ==
    ASSUME Typed,
           \/ \E t \in Threads : Invoke(t)
           \/ \E w \in Dispatchers : Dispatch(w)
           \/ Loss \/ LifeCycle \/ UNCHANGED vars
    PROVE  Kept' \subseteq Kept
<1> USE DEF flags, locks, pending, call, server, caller
<1>0. /\ response \in [Threads -> [PacketIds -> SUBSET Responses]]
      /\ job \in [Dispatchers -> SUBSET Responses]
  BY DEF Typed, TypeOK
<1> SUFFICES ASSUME NEW r \in Kept' PROVE r \in Kept
  OBVIOUS
<1> DEFINE Somewhere ==
      \/ r \in inFlight
      \/ \E w \in Dispatchers : r \in job[w]
      \/ \E t \in Threads, p \in PacketIds : r \in response[t][p]
<1>b. Somewhere'
  BY KeptElements DEF Kept, Delivering, Stored
<1>c. SUFFICES Somewhere
  BY KeptElements
<1>1. ASSUME NEW t \in Threads, InsertResponse(t) PROVE Somewhere
  BY <1>0, <1>1, <1>b DEF InsertResponse
<1>2. ASSUME NEW t \in Threads, Invoke(t), ~InsertResponse(t) PROVE Somewhere
  <2>1. UNCHANGED <<inFlight, job, response>>
    BY <1>2 DEF Invoke, Refuse, Begin, Register, RegisterFails, AllocatePacketId, SendRequest,
                SendFails, SendErrorReturn, EndWait, RemoveResponse, Unregister
  <2> QED
    BY <1>b, <2>1
<1>3. ASSUME NEW w \in Dispatchers, Dispatch(w) PROVE Somewhere
  <2>1. CASE \E q \in inFlight : TakeResponse(w, q)
    BY <1>0, <1>b, <2>1 DEF TakeResponse
  <2>2. CASE \E q \in job[w] : FindRequest(w, q) \/ RequestNotFound(w, q)
    BY <1>0, <1>b, <2>2 DEF FindRequest, RequestNotFound
  <2>3. CASE \E q \in job[w] : Deliver(w, q)
    BY <1>0, <1>b, <2>3 DEF Deliver
  <2> QED
    BY <1>3, <2>1, <2>2, <2>3 DEF Dispatch
<1>4. CASE Loss
  BY <1>4, <1>b DEF Loss, Lose
<1>5. CASE LifeCycle
  BY <1>5, <1>b DEF LifeCycle, SetClosed, SetStopped, SetDisposing, ClearResponses
<1>6. CASE UNCHANGED vars
  BY <1>6, <1>b DEF vars
<1> QED
  BY <1>1, <1>2, <1>3, <1>4, <1>5, <1>6

LEMMA DistinctInit == Init => CallsDistinct
<1>1. Init => Kept = {}
  BY KeptElements DEF Init
<1> QED
  BY <1>1, CallsAssumption DEF Init, CallsDistinct

LEMMA DistinctStep ==
    ASSUME Typed, CallsDistinct, [Next]_vars
    PROVE  CallsDistinct'
<1> USE DEF flags, locks, pending, call, server, caller
<1>a. Kept \in SUBSET Responses
  BY KeptElements DEF Typed, TypeOK
<1>0. /\ calls \in Nat
      /\ pc \in [Threads -> Steps]
      /\ parameters \in [Threads -> Values]
      /\ Values \subseteq Nat
      /\ \A c \in requests : c.parameters \in Nat
      /\ \A r \in Kept : r.value \in Nat
  BY <1>a, CallsAssumption DEF Typed, TypeOK, Requests, Responses, Values
<1> HIDE DEF Kept
<1>1. ASSUME NEW t \in Threads, Invoke(t) PROVE CallsDistinct'
  <2>0. Kept' \subseteq Kept
    BY <1>1, KeptStep
  <2> USE <1>0, <2>0 DEF CallsDistinct, Goto, Steps
  <2>1. CASE Begin(t)
    <3>1. /\ calls' = calls + 1 /\ UNCHANGED requests
          /\ \A u \in Threads : parameters'[u] = IF u = t THEN calls + 1 ELSE parameters[u]
          /\ \A u \in Threads : pc'[u] = IF u = t THEN "register" ELSE pc[u]
      BY <2>1 DEF Begin
    <3>2. \A u \in Threads : parameters[u] # calls + 1
      OBVIOUS
    <3> HIDE <1>0
    <3>3. calls \in Nat /\ \A u \in Threads : parameters[u] \in Nat
      BY <1>0
    <3>4. \A c \in requests : c.parameters \in Nat /\ c.parameters <= calls
      BY <1>0
    <3>5. \A r \in Kept : r.value \in Nat /\ r.value <= calls
      BY <1>0
    <3> QED
      BY <3>1, <3>2, <3>3, <3>4, <3>5
  <2>2. CASE Refuse(t) \/ Register(t) \/ RegisterFails(t)
    BY <2>2 DEF Refuse, Register, RegisterFails
  <2>3. CASE AllocatePacketId(t) \/ InsertResponse(t)
    BY <2>3 DEF AllocatePacketId, InsertResponse
  <2>4. CASE SendRequest(t)
    BY <2>4 DEF SendRequest
  <2>5. CASE SendFails(t) \/ SendErrorReturn(t)
    BY <2>5 DEF SendFails, SendErrorReturn
  <2>6. CASE EndWait(t) \/ RemoveResponse(t) \/ Unregister(t)
    BY <2>6 DEF EndWait, RemoveResponse, Unregister
  <2> QED
    BY <1>1, <2>1, <2>2, <2>3, <2>4, <2>5, <2>6 DEF Invoke
<1>2. ASSUME NEW w \in Dispatchers, Dispatch(w) PROVE CallsDistinct'
  <2>1. Kept' \subseteq Kept
    BY <1>2, KeptStep
  <2>2. UNCHANGED <<caller, requests>>
    BY <1>2 DEF Dispatch, TakeResponse, FindRequest, RequestNotFound, Deliver
  <2> QED
    BY <2>1, <2>2 DEF CallsDistinct
<1>3. CASE Server
  <2>1. PICK c \in requests, size \in {2, 3, 4} : Answer(c, size)
    BY <1>3 DEF Server
  <2>2. \A r \in Kept' : r \in Kept \/ r.value = c.parameters
    BY <2>1 DEF Answer, Kept, Delivering, Stored
  <2> QED
    BY <2>1, <2>2 DEF CallsDistinct, Answer
<1>4. CASE Loss \/ LifeCycle \/ UNCHANGED vars
  <2>1. Kept' \subseteq Kept
    BY <1>4, KeptStep
  <2>2. requests' \subseteq requests /\ UNCHANGED caller
    BY <1>4 DEF vars, Loss, Lose, LifeCycle, SetClosed, SetStopped, SetDisposing,
                ClearResponses
  <2> QED
    BY <2>1, <2>2 DEF CallsDistinct
<1> QED
  BY <1>1, <1>2, <1>3, <1>4 DEF Next

-----------------------------------------------------------------------------
(* The state of RemoteCalls under the refinement mapping. *)
phase == [t \in Threads |-> PhaseOf(pc[t])]
outstanding == {c.parameters : c \in requests}
answers == {r.value : r \in inFlight \cup Delivering \cup Stored}
answer == [t \in Threads |-> IF pc[t] = "idle" THEN result[t].value ELSE {}]

Mapped == <<phase, parameters, outstanding, answers, answer>>

LEMMA RemoteInit == Init => Remote!Init
<1> SUFFICES ASSUME Init PROVE Remote!Init
  OBVIOUS
<1>1. Kept = {}
  BY KeptElements DEF Init
<1>2. answers = {} /\ outstanding = {}
  BY <1>1 DEF Kept, answers, outstanding, Init
<1>3. phase = [t \in Threads |-> "idle"] /\ answer = [t \in Threads |-> {}]
  BY DEF phase, answer, PhaseOf, Init, Return
<1> QED
  BY <1>2, <1>3 DEF Remote!Init, Init, phase, answer, answers, outstanding

(* What a step of invoke does to the mapped state: to goes the thread, and *)
(* its result is returned with it if it goes to "idle".                    *)
LEMMA MappedStep ==
    ASSUME Typed, NEW t \in Threads, NEW from, NEW to, Goto(t, from, to),
           \A u \in Threads : u # t => result'[u] = result[u]
    PROVE  /\ phase[t] = PhaseOf(from)
           /\ phase' = [phase EXCEPT ![t] = PhaseOf(to)]
           /\ answer' = [answer EXCEPT ![t] = IF to = "idle" THEN result'[t].value ELSE {}]
           /\ answer[t] = IF from = "idle" THEN result[t].value ELSE {}
BY DEF Typed, TypeOK, Goto, phase, answer

LEMMA LoseStep ==
    ASSUME Typed, requests' \subseteq requests, Kept' \subseteq Kept,
           UNCHANGED <<phase, parameters, answer>>
    PROVE  Remote!Lose
BY DEF Remote!Lose, Kept, phase, answer, outstanding, answers

(* An update that stores what is there. *)
LEMMA ExceptSame ==
    ASSUME NEW S, NEW f, f = [u \in S |-> f[u]], NEW t \in S, NEW value, value = f[t]
    PROVE  [f EXCEPT ![t] = value] = f
OBVIOUS

(* A step inside invoke that does not change its phase. *)
LEMMA QuietStep ==
    ASSUME Typed, NEW t \in Threads, NEW from, NEW to, Goto(t, from, to),
           from # "idle", to # "idle", PhaseOf(from) = PhaseOf(to),
           \A u \in Threads : u # t => result'[u] = result[u]
    PROVE  UNCHANGED <<phase, answer>>
<1>1. /\ phase[t] = PhaseOf(from)
      /\ phase' = [phase EXCEPT ![t] = PhaseOf(to)]
      /\ answer' = [answer EXCEPT ![t] = {}]
      /\ answer[t] = {}
  BY MappedStep
<1>2. phase = [u \in Threads |-> phase[u]] /\ answer = [u \in Threads |-> answer[u]]
  BY DEF phase, answer
<1>3. phase' = phase
  BY <1>1, <1>2, ExceptSame
<1>4. answer' = answer
  BY <1>1, <1>2, ExceptSame
<1> QED
  BY <1>3, <1>4

LEMMA RemoteCallStep ==
    ASSUME Inv, NEW t \in Threads, Invoke(t)
    PROVE  [Remote!Next]_Mapped
<1> USE DEF flags, locks, pending, call, server, caller
<1>0. Typed /\ result \in [Threads -> Results]
  BY DEF Inv, Typed, TypeOK
<1>a. UNCHANGED <<inFlight, job, response>> => UNCHANGED answers
  BY DEF answers, Delivering, Stored
<1>b. UNCHANGED <<phase, parameters, requests, inFlight, job, response, answer>>
         => UNCHANGED Mapped
  BY <1>a DEF Mapped, outstanding
<1>1. CASE Refuse(t)
  <2>1. Goto(t, "idle", "idle") /\ UNCHANGED <<requests, parameters, inFlight, job, response>>
    BY <1>1 DEF Refuse
  <2>2. result'[t].value = {} /\ \A u \in Threads : u # t => result'[u] = result[u]
    BY <1>0, <1>1 DEF Refuse, Return
  <2>3. UNCHANGED phase
    BY <2>1 DEF phase, Goto
  <2>4. /\ phase[t] = "idle" /\ UNCHANGED <<phase, parameters, outstanding, answers>>
        /\ answer' = [answer EXCEPT ![t] = {}]
    BY <1>0, <1>a, <2>1, <2>2, <2>3, MappedStep DEF PhaseOf, outstanding
  <2>5. Remote!Refuse(t)
    BY <2>4 DEF Remote!Refuse, phase, answer, outstanding, answers
  <2> QED
    BY <2>5 DEF Remote!Next
<1>2. CASE Begin(t)
  <2>1. /\ Goto(t, "idle", "register") /\ UNCHANGED <<requests, inFlight, job, response>>
        /\ parameters' = [parameters EXCEPT ![t] = calls + 1]
        /\ calls < MaxCalls
    BY <1>2 DEF Begin
  <2>2. \A u \in Threads : u # t => result'[u] = result[u]
    BY <1>0, <1>2 DEF Begin
  <2>3. /\ phase[t] = "idle" /\ phase' = [phase EXCEPT ![t] = "calling"]
        /\ UNCHANGED <<outstanding, answers>>
        /\ answer' = [answer EXCEPT ![t] = {}]
    BY <1>0, <1>a, <2>1, <2>2, MappedStep DEF PhaseOf, outstanding
  <2>4. calls + 1 \in Values /\ calls \in Nat
    BY <1>0, <2>1, CallsAssumption DEF Typed, TypeOK, Values
  <2>5. calls + 1 \notin outstanding \cup answers
    <3>1. \A c \in requests : c.parameters \in Nat /\ c.parameters <= calls
      BY <1>0, CallsAssumption DEF Inv, CallsDistinct, Typed, TypeOK, Requests, Values
    <3>2. \A r \in Kept : r.value \in Nat /\ r.value <= calls
      BY <1>0, KeptElements, CallsAssumption
         DEF Inv, CallsDistinct, Typed, TypeOK, Responses, Values
    <3> QED
      BY <2>4, <3>1, <3>2 DEF outstanding, answers, Kept
  <2>6. \A u \in Threads : parameters[u] # calls + 1
    BY <1>0, <2>4, CallsAssumption DEF Inv, CallsDistinct, Typed, TypeOK, Values
  <2>7. PICK c \in Values : c = calls + 1
    BY <2>4
  <2>8. Remote!Call(t, c)
    BY <2>1, <2>3, <2>5, <2>6, <2>7
       DEF Remote!Call, Remote!Fresh, phase, answer, outstanding, answers
  <2> QED
    BY <2>8 DEF Remote!Next
<1>3. CASE Register(t) \/ AllocatePacketId(t) \/ SendFails(t) \/ EndWait(t)
             \/ RemoveResponse(t)
  <2>1. PICK from \in {"register", "allocate", "send", "wait", "remove"},
             to \in {"allocate", "insert", "sendError", "remove", "unregister"} :
           Goto(t, from, to) /\ PhaseOf(from) = PhaseOf(to)
    BY <1>3 DEF Register, AllocatePacketId, SendFails, EndWait, RemoveResponse, PhaseOf
  <2>2. /\ \A u \in Threads : u # t => result'[u] = result[u]
        /\ UNCHANGED <<requests, parameters, inFlight, job, response>>
    BY <1>0, <1>3 DEF Register, AllocatePacketId, SendFails, EndWait, RemoveResponse
  <2> QED
    BY <1>0, <1>b, <2>1, <2>2, QuietStep
<1>4. CASE InsertResponse(t)
  <2>1. /\ Goto(t, "insert", "send") /\ UNCHANGED <<requests, parameters, result>>
        /\ PhaseOf("insert") = PhaseOf("send")
    BY <1>4 DEF InsertResponse, PhaseOf
  <2>2. UNCHANGED <<phase, answer>>
    BY <1>0, <2>1, QuietStep
  <2>3. Remote!Lose
    BY <1>0, <1>4, <2>1, <2>2, KeptStep, LoseStep
  <2> QED
    BY <2>3 DEF Remote!Next
<1>5. CASE SendRequest(t)
  <2>1. /\ Goto(t, "send", "wait") /\ UNCHANGED <<parameters, result, inFlight, job, response>>
        /\ requests' = requests \cup {[threadId |-> t, packetId |-> packetId[t],
                                       parameters |-> parameters[t]]}
    BY <1>5 DEF SendRequest
  <2>2. /\ phase[t] = "calling" /\ phase' = [phase EXCEPT ![t] = "waiting"]
        /\ answer' = [answer EXCEPT ![t] = {}] /\ answer[t] = {}
        /\ UNCHANGED answers
    BY <1>0, <1>a, <2>1, MappedStep DEF PhaseOf
  <2>3. UNCHANGED answer
    BY <2>2 DEF answer
  <2>4. outstanding' = outstanding \cup {parameters[t]}
    <3> DEFINE c == [threadId |-> t, packetId |-> packetId[t], parameters |-> parameters[t]]
    <3>1. requests' = requests \cup {c} /\ c.parameters = parameters[t]
      BY <2>1
    <3> HIDE DEF c
    <3> QED
      BY <3>1 DEF outstanding
  <2>5. Remote!Send(t)
    BY <2>1, <2>2, <2>3, <2>4 DEF Remote!Send, phase, answer, outstanding, answers
  <2> QED
    BY <2>5 DEF Remote!Next
<1>6. CASE RegisterFails(t) \/ SendErrorReturn(t)
  <2>1. PICK from \in {"register", "sendError"} : Goto(t, from, "idle")
    BY <1>6 DEF RegisterFails, SendErrorReturn
  <2>2. /\ result'[t].value = {} /\ \A u \in Threads : u # t => result'[u] = result[u]
        /\ UNCHANGED <<requests, parameters, inFlight, job, response>>
    BY <1>0, <1>6 DEF RegisterFails, SendErrorReturn, Return
  <2>3. /\ phase[t] # "idle" /\ phase' = [phase EXCEPT ![t] = "idle"]
        /\ answer' = [answer EXCEPT ![t] = {}]
        /\ UNCHANGED <<parameters, outstanding, answers>>
    BY <1>0, <1>a, <2>1, <2>2, MappedStep DEF PhaseOf, outstanding
  <2>4. Remote!Fail(t)
    BY <2>3 DEF Remote!Fail, phase, answer, outstanding, answers
  <2> QED
    BY <2>4 DEF Remote!Next
<1>7. CASE Unregister(t)
  <2>1. /\ Goto(t, "unregister", "idle")
        /\ UNCHANGED <<requests, parameters, result, inFlight, job, response>>
    BY <1>7 DEF Unregister
  <2>2. /\ phase[t] = "waiting" /\ phase' = [phase EXCEPT ![t] = "idle"]
        /\ answer' = [answer EXCEPT ![t] = result[t].value]
        /\ UNCHANGED <<parameters, outstanding, answers>>
    BY <1>0, <1>a, <2>1, MappedStep DEF PhaseOf, outstanding
  <2>3. CASE result[t].value = {}
    <3>1. Remote!Fail(t)
      BY <2>2, <2>3 DEF Remote!Fail, phase, answer, outstanding, answers
    <3> QED
      BY <3>1 DEF Remote!Next
  <2>4. CASE result[t].value # {}
    <3>1. result[t].value = {parameters[t]}
      BY <2>4 DEF Inv, OwnAnswer
    <3>2. packetId[t] \in PacketIds
      BY <2>1 DEF Inv, Typed, HasPacketId, Goto
    <3>3. response[t][packetId[t]] \in SUBSET Responses
      BY <1>0, <3>2 DEF Typed, TypeOK
    <3>4. result[t] = ResultOf(response[t][packetId[t]], packetId[t])
      BY <2>1 DEF Inv, VerdictFinal, Goto
    <3>5. PICK r \in response[t][packetId[t]] : r.value = parameters[t]
      BY <3>1, <3>3, <3>4, ResultOfType
    <3>6. parameters[t] \in answers
      BY <3>2, <3>5, KeptElements DEF answers, Kept
    <3>7. Remote!Return(t)
      BY <2>2, <3>1, <3>6 DEF Remote!Return, phase, answer, outstanding, answers
    <3> QED
      BY <3>7 DEF Remote!Next
  <2> QED
    BY <2>3, <2>4
<1> QED
  BY <1>1, <1>2, <1>3, <1>4, <1>5, <1>6, <1>7 DEF Invoke

LEMMA RemoteStep ==
    ASSUME Inv, [Next]_vars
    PROVE  [Remote!Next]_Mapped
<1> USE DEF flags, locks, pending, call, server, caller
<1>0. Typed
  BY DEF Inv
<1>1. CASE \E t \in Threads : Invoke(t)
  BY <1>1, RemoteCallStep
<1>2. CASE \E w \in Dispatchers : Dispatch(w)
  <2>1. UNCHANGED <<caller, requests>>
    BY <1>2 DEF Dispatch, TakeResponse, FindRequest, RequestNotFound, Deliver
  <2>2. Remote!Lose
    BY <1>0, <1>2, <2>1, KeptStep, LoseStep DEF phase, answer
  <2> QED
    BY <2>2 DEF Remote!Next
<1>3. CASE Server
  <2>1. PICK c \in requests, size \in {2, 3, 4} : Answer(c, size)
    BY <1>3 DEF Server
  <2> DEFINE r == [threadId |-> c.threadId, packetId |-> c.packetId, size |-> size,
                   value |-> c.parameters]
  <2>2. /\ requests' = requests \ {c} /\ inFlight' = inFlight \cup {r}
        /\ r.value = c.parameters
        /\ UNCHANGED <<job, response, pc, result, parameters>>
    BY <2>1 DEF Answer
  <2> HIDE DEF r
  <2>3. UNCHANGED <<phase, parameters, answer>>
    BY <2>2 DEF phase, answer
  <2>4. c.parameters \in outstanding /\ outstanding' = outstanding \ {c.parameters}
    BY <2>2 DEF outstanding, Inv, CallsDistinct
  <2>5. answers' = answers \cup {c.parameters}
    BY <2>2 DEF answers, Delivering, Stored
  <2>6. Remote!Execute(c.parameters)
    BY <2>3, <2>4, <2>5 DEF Remote!Execute, phase, answer, outstanding, answers
  <2> QED
    BY <2>4, <2>6 DEF Remote!Next, outstanding
<1>4. CASE Loss \/ LifeCycle
  <2>1. UNCHANGED caller /\ requests' \subseteq requests
    BY <1>4 DEF Loss, Lose, LifeCycle, SetClosed, SetStopped, SetDisposing, ClearResponses
  <2>2. Remote!Lose
    BY <1>0, <1>4, <2>1, KeptStep, LoseStep DEF phase, answer
  <2> QED
    BY <2>2 DEF Remote!Next
<1>5. CASE UNCHANGED vars
  BY <1>5 DEF vars, Mapped, phase, answer, outstanding, answers, Delivering, Stored
<1> QED
  BY <1>1, <1>2, <1>3, <1>4, <1>5 DEF Next

(* The calls of RpcCalls are those of RemoteCalls, in every behaviour.     *)
THEOREM RemoteCallsImplemented == Spec => IsRemoteCalls
<1>1. Init => Inv /\ Remote!Init
  BY TypeInit, AnswersInit, VerdictInit, DistinctInit, RemoteInit DEF Inv
<1>2. Inv /\ [Next]_vars => Inv'
  BY TypeStep, AnswersStep, VerdictStep, DistinctStep DEF Inv
<1>3. Inv /\ [Next]_vars => [Remote!Next]_Remote!vars
  BY RemoteStep DEF Remote!vars, Mapped, phase, answer, outstanding, answers
<1> QED
  BY <1>1, <1>2, <1>3, PTL DEF Spec, IsRemoteCalls, Remote!Spec
=============================================================================
