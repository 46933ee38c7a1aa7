-------------------------- MODULE IIpcClientProofs --------------------------
(***************************************************************************)
(* Proofs about IIpcClient: the threads of the life cycle leave the        *)
(* descriptor, the maintenance thread and queue 1 to one another in good   *)
(* order, and the calls are those of RpcCalls, so that what is proved      *)
(* there holds here.                                                       *)
(***************************************************************************)
EXTENDS IIpcClient, TLAPS

(* RpcCalls once more, with what is proved about it. *)
Proved == INSTANCE RpcCallsProofs WITH
    Threads <- {app, maintenance},
    Dispatchers <- {dispatcher},
    MaxCalls <- MaxAppCalls + MaxCallbackCalls + MaxConnects,
    TimeoutArgs <- {FALSE},
    Faults <- {"close", "stop", "dispose", "sendError", "lose"}

(* How far start, stop and dispose are determines which threads there are, *)
(* whether queue 1 is open, and the flags; closed alone changes in between.*)
Phases ==
    /\ control \in {"idle", "starting", "joinMaint", "stopQueue", "disposed"} => mainPc = "none"
    /\ control \in {"idle", "starting", "stopQueue", "disposed"} => maintPc = "none"
    /\ control \in {"starting", "running"} <=> ~stopped
    /\ control \in {"starting", "running", "joinMain", "joinMaint"} <=> queueOpen
    /\ control \in {"stopQueue", "idle", "disposed"} => closed
    /\ control \in {"idle", "disposed"} => queued = {} /\ job[dispatcher] = {}

(* While init is under way the main thread stays in its loop, with the     *)
(* client open, or is on its way out of it: so it does not connect, and    *)
(* only init closes the descriptor, which then names a socket that is      *)
(* open.  Only between its close and its reset does it name none.          *)
InitSteps == {"init", "setPid", "close", "reset", "setClosed"}

InLoop == {"loop", "check", "select", "lost", "sleep"}

Descriptor ==
    /\ maintPc \in InitSteps =>
          mainPc \in {"none", "exited", "joinLost"} \/ (mainPc \in InLoop /\ ~closed)
    /\ mainPc = "joinInit" => ~closed
    /\ mainPc \in {"connecting", "opened", "joinInit"} => fdSet
    /\ mainPc \in {"opened", "joinInit"} => link # "closed"
    /\ maintPc \in {"init", "setPid", "close"} => fdSet /\ link # "closed"
    /\ fdSet /\ link = "closed" => maintPc = "reset"

-----------------------------------------------------------------------------
(* What steps of RpcCalls leave alone                                      *)

LEMMA InvokeFrame ==
    ASSUME NEW t \in {app, maintenance}, Calls!Invoke(t)
    PROVE  UNCHANGED <<flags, inFlight, job>>
BY DEF Calls!Invoke, Calls!Refuse, Calls!Begin, Calls!Register, Calls!RegisterFails,
       Calls!AllocatePacketId, Calls!InsertResponse, Calls!SendRequest, Calls!SendFails,
       Calls!SendErrorReturn, Calls!EndWait, Calls!RemoveResponse, Calls!Unregister,
       Calls!flags, Calls!server, flags

LEMMA DispatchFrame ==
    ASSUME job[dispatcher] # {}, Calls!Dispatch(dispatcher)
    PROVE  UNCHANGED <<flags, requests, inFlight>>
BY DEF Calls!Dispatch, Calls!TakeResponse, Calls!FindRequest, Calls!RequestNotFound,
       Calls!Deliver, Calls!flags, Calls!server, flags

LEMMA ServerFrame ==
    ASSUME Calls!Server
    PROVE  UNCHANGED <<flags, job>> /\ inFlight \subseteq inFlight'
BY DEF Calls!Server, Calls!Answer, Calls!flags, flags

(* A step of the calls changes nothing of the life cycle but where the     *)
(* maintenance thread is, which the properties of the life cycle do not    *)
(* tell apart.                                                             *)
CallSteps ==
    \/ AppInvokes \/ Respond \/ Dispatch
    \/ InvokeSetPid \/ SetPidStep \/ CallbackInvokes \/ CallbackStep

LEMMA CallStepsFrame ==
    ASSUME CallSteps
    PROVE  /\ UNCHANGED <<flags, control, mainPc, ret, fdSet, link, queueOpen, connects,
                          starts, troubles>>
           /\ queued' \subseteq queued
           /\ queued = {} /\ job[dispatcher] = {} => job' = job
           /\ \/ maintPc' = maintPc
              \/ maintPc = "init" /\ maintPc' = "setPid"
              \/ maintPc = "callback" /\ maintPc' = "calling"
           /\ appCalls' = appCalls \/ (appCalls < MaxAppCalls /\ appCalls' = appCalls + 1)
           /\ \/ callbackCalls' = callbackCalls
              \/ callbackCalls < MaxCallbackCalls /\ callbackCalls' = callbackCalls + 1
<1> USE DEF life, socket, bounds
<1>1. CASE AppInvokes
  <2>1. Calls!Invoke(app)
    BY <1>1 DEF AppInvokes, InvokeStep, Calls!Invoke
  <2>2. UNCHANGED <<flags, inFlight, job>>
    BY <2>1, InvokeFrame
  <2> QED
    BY <1>1, <2>2 DEF AppInvokes, InvokeStep
<1>2. CASE Respond
  BY <1>2, ServerFrame DEF Respond
<1>3. CASE Dispatch
  <2>1. CASE \E r \in queued :
                /\ queueOpen
                /\ Calls!TakeResponse(dispatcher, r)
                /\ queued' = queued \ {r}
                /\ UNCHANGED <<control, mainPc, ret, maintPc, socket, queueOpen, bounds>>
    BY <2>1 DEF Calls!TakeResponse, Calls!flags, flags
  <2>2. CASE job[dispatcher] # {} /\ Calls!Dispatch(dispatcher) /\ UNCHANGED life
    BY <2>2, DispatchFrame
  <2> QED
    BY <1>3, <2>1, <2>2 DEF Dispatch
<1>4. CASE InvokeSetPid
  <2>1. Calls!Invoke(maintenance)
    BY <1>4 DEF InvokeSetPid, Calls!Invoke
  <2>2. UNCHANGED <<flags, inFlight, job>>
    BY <2>1, InvokeFrame
  <2> QED
    BY <1>4, <2>2 DEF InvokeSetPid, MaintGoes
<1>5. CASE SetPidStep \/ CallbackStep
  <2>1. Calls!Invoke(maintenance) /\ UNCHANGED life
    BY <1>5 DEF SetPidStep, CallbackStep, InvokeStep
  <2>2. UNCHANGED <<flags, inFlight, job>>
    BY <2>1, InvokeFrame
  <2> QED
    BY <2>1, <2>2
<1>6. CASE CallbackInvokes
  <2>1. Calls!Invoke(maintenance)
    BY <1>6 DEF CallbackInvokes, Calls!Invoke
  <2>2. UNCHANGED <<flags, inFlight, job>>
    BY <2>1, InvokeFrame
  <2> QED
    BY <1>6, <2>2 DEF CallbackInvokes, MaintGoes
<1> QED
  BY <1>1, <1>2, <1>3, <1>4, <1>5, <1>6 DEF CallSteps

-----------------------------------------------------------------------------
(* The life cycle                                                          *)

LEMMA BoundTypes ==
    /\ MaxAppCalls \in Nat /\ MaxCallbackCalls \in Nat /\ MaxConnects \in Nat
    /\ MaxStarts \in Nat /\ MaxTroubles \in Nat
BY ClientAssumption

LEMMA TroubleTyped == LifeTyped /\ Trouble => troubles' \in 0 .. MaxTroubles
BY BoundTypes DEF LifeTyped, Trouble

LEMMA LifeInit == Init => LifeTyped /\ Phases /\ Descriptor
<1> SUFFICES ASSUME Init PROVE LifeTyped /\ Phases /\ Descriptor
  OBVIOUS
<1>1. LifeTyped
  <2>1. /\ 0 \in 0 .. MaxAppCalls /\ 0 \in 0 .. MaxCallbackCalls /\ 0 \in 0 .. MaxConnects
        /\ 0 \in 0 .. MaxStarts /\ 0 \in 0 .. MaxTroubles
    BY BoundTypes
  <2> QED
    BY <2>1 DEF Init, LifeTyped
<1>2. closed /\ stopped /\ job[dispatcher] = {}
  BY DEF Init, Calls!Init
<1>3. Phases /\ Descriptor
  BY <1>2 DEF Init, Phases, Descriptor, InitSteps, InLoop
<1> QED
  BY <1>1, <1>3

LEMMA LifeTypedStep == LifeTyped /\ [Next]_vars => LifeTyped'
<1> SUFFICES ASSUME LifeTyped, [Next]_vars PROVE LifeTyped'
  OBVIOUS
<1> USE DEF life, socket, bounds, traffic, callVars
<1>1. CASE CallSteps
  BY BoundTypes, <1>1, CallStepsFrame DEF LifeTyped
<1>2. CASE Connect \/ SocketFails \/ ConnectSucceeds \/ ConnectFails \/ Opened
  <2>1. CASE Connect
    BY <2>1 DEF LifeTyped, Connect
  <2>2. CASE SocketFails
    BY <2>2, TroubleTyped DEF LifeTyped, SocketFails
  <2>3. CASE ConnectSucceeds
    BY BoundTypes, <2>3 DEF LifeTyped, ConnectSucceeds
  <2>4. CASE ConnectFails
    BY <2>4, TroubleTyped DEF LifeTyped, ConnectFails
  <2>5. CASE Opened
    BY <2>5 DEF LifeTyped, Opened
  <2> QED
    BY <1>2, <2>1, <2>2, <2>3, <2>4, <2>5
<1>3. CASE StartInit \/ StartOnConnectError \/ StartOnDisconnect
  BY <1>3 DEF LifeTyped, StartInit, StartOnConnectError, StartOnDisconnect, StartMaintenance
<1>4. CASE Loop \/ Check \/ WakeUp \/ NothingToRead \/ LinkLost
  BY <1>4 DEF LifeTyped, Loop, Check, WakeUp, NothingToRead, LinkLost, MainGoes
<1>5. CASE ReadResponse \/ Lost
  BY <1>5 DEF LifeTyped, ReadResponse, Lost
<1>6. CASE SetPidDone \/ CloseDescriptor \/ ResetDescriptor \/ InitSetsClosed \/ CallbackReturns
  BY <1>6 DEF LifeTyped, SetPidDone, CloseDescriptor, ResetDescriptor, InitSetsClosed,
              CallbackReturns, MaintGoes
<1>7. CASE SetPidFailed \/ Break
  BY <1>7, TroubleTyped DEF LifeTyped, SetPidFailed, Break, MaintGoes
<1>8. CASE Start \/ StartMain \/ Stop \/ Dispose
  <2>1. CASE Start
    BY BoundTypes, <2>1 DEF LifeTyped, Start
  <2>2. CASE StartMain \/ Stop
    BY <2>2 DEF LifeTyped, StartMain, Stop
  <2>3. CASE Dispose
    BY <2>3, TroubleTyped DEF LifeTyped, Dispose
  <2> QED
    BY <1>8, <2>1, <2>2, <2>3
<1>9. CASE JoinMain \/ JoinMaintenance \/ StopQueue \/ ClearResponses
  BY <1>9 DEF LifeTyped, JoinMain, JoinMaintenance, StopQueue, ClearResponses
<1>10. CASE UNCHANGED vars
  BY <1>10 DEF LifeTyped, vars
<1> QED
  BY <1>1, <1>2, <1>3, <1>4, <1>5, <1>6, <1>7, <1>8, <1>9, <1>10
     DEF Next, CallSteps, Main, Maintain, Control

LEMMA PhasesStep == LifeTyped /\ Phases /\ [Next]_vars => Phases'
<1> SUFFICES ASSUME LifeTyped, Phases, [Next]_vars PROVE Phases'
  OBVIOUS
<1> USE DEF life, socket, traffic, callVars, flags, invoking
<1>1. CASE CallSteps
  <2>1. /\ UNCHANGED <<flags, control, mainPc, queueOpen>>
        /\ maintPc = "none" => maintPc' = "none"
        /\ queued = {} /\ job[dispatcher] = {} => queued' = {} /\ job'[dispatcher] = {}
    BY <1>1, CallStepsFrame
  <2> QED
    BY <2>1 DEF Phases
<1>2. CASE Connect \/ SocketFails \/ ConnectSucceeds \/ ConnectFails \/ Opened
  BY <1>2 DEF LifeTyped, Phases, Connect, SocketFails, ConnectSucceeds, ConnectFails, Opened
<1>3. CASE StartInit \/ StartOnConnectError \/ StartOnDisconnect
  BY <1>3 DEF LifeTyped, Phases, StartInit, StartOnConnectError, StartOnDisconnect,
              StartMaintenance
<1>4. CASE Loop \/ Check \/ WakeUp \/ NothingToRead \/ LinkLost
  BY <1>4 DEF LifeTyped, Phases, Loop, Check, WakeUp, NothingToRead, LinkLost, MainGoes
<1>5. CASE ReadResponse \/ Lost
  BY <1>5 DEF LifeTyped, Phases, ReadResponse, Lost
<1>6. CASE SetPidDone \/ SetPidFailed \/ CallbackReturns \/ ResetDescriptor
  BY <1>6 DEF LifeTyped, Phases, SetPidDone, SetPidFailed, CallbackReturns, ResetDescriptor,
              MaintGoes
<1>7. CASE CloseDescriptor \/ InitSetsClosed \/ Break
  BY <1>7 DEF LifeTyped, Phases, CloseDescriptor, InitSetsClosed, MaintGoes, Break
<1>8. CASE Start \/ StartMain \/ Stop \/ Dispose
  BY <1>8 DEF LifeTyped, Phases, Start, StartMain, Stop, Dispose
<1>9. CASE JoinMain \/ JoinMaintenance
  BY <1>9 DEF LifeTyped, Phases, JoinMain, JoinMaintenance, Joined
<1>10. CASE StopQueue \/ ClearResponses
  BY <1>10 DEF LifeTyped, Phases, StopQueue, ClearResponses, Calls!ClearResponses, Calls!flags
<1>11. CASE UNCHANGED vars
  BY <1>11 DEF LifeTyped, Phases, vars
<1> QED
  BY <1>1, <1>2, <1>3, <1>4, <1>5, <1>6, <1>7, <1>8, <1>9, <1>10, <1>11
     DEF Next, CallSteps, Main, Maintain, Control

LEMMA DescriptorStep == LifeTyped /\ Phases /\ Descriptor /\ [Next]_vars => Descriptor'
<1> SUFFICES ASSUME LifeTyped, Phases, Descriptor, [Next]_vars PROVE Descriptor'
  OBVIOUS
<1> USE DEF life, socket, traffic, callVars, flags, invoking, InitSteps, InLoop
<1>1. CASE CallSteps
  <2>1. /\ UNCHANGED <<flags, mainPc, fdSet, link>>
        /\ \/ maintPc' = maintPc
           \/ maintPc = "init" /\ maintPc' = "setPid"
           \/ maintPc = "callback" /\ maintPc' = "calling"
    BY <1>1, CallStepsFrame
  <2> QED
    BY <2>1 DEF Descriptor
<1>2. CASE Connect \/ SocketFails \/ ConnectSucceeds \/ ConnectFails \/ Opened
  BY <1>2 DEF LifeTyped, Descriptor, Connect, SocketFails, ConnectSucceeds, ConnectFails, Opened
<1>3. CASE StartInit \/ StartOnConnectError \/ StartOnDisconnect
  BY <1>3 DEF LifeTyped, Descriptor, StartInit, StartOnConnectError, StartOnDisconnect,
              StartMaintenance, Joined
<1>4. CASE Loop \/ Check \/ WakeUp \/ NothingToRead \/ LinkLost
  BY <1>4 DEF LifeTyped, Descriptor, Loop, Check, WakeUp, NothingToRead, LinkLost, MainGoes
<1>5. CASE ReadResponse \/ Lost
  BY <1>5 DEF LifeTyped, Descriptor, ReadResponse, Lost
<1>6. CASE SetPidDone \/ SetPidFailed \/ CallbackReturns \/ ResetDescriptor
  BY <1>6 DEF LifeTyped, Descriptor, SetPidDone, SetPidFailed, CallbackReturns,
              ResetDescriptor, MaintGoes
<1>7. CASE CloseDescriptor \/ InitSetsClosed \/ Break
  BY <1>7 DEF LifeTyped, Descriptor, CloseDescriptor, InitSetsClosed, MaintGoes, Break
<1>8. CASE Start \/ StartMain \/ Stop \/ Dispose
  BY <1>8 DEF LifeTyped, Phases, Descriptor, Start, StartMain, Stop, Dispose
<1>9. CASE JoinMain \/ JoinMaintenance
  BY <1>9 DEF LifeTyped, Phases, Descriptor, JoinMain, JoinMaintenance, Joined
<1>10. CASE StopQueue \/ ClearResponses
  BY <1>10 DEF LifeTyped, Descriptor, StopQueue, ClearResponses, Calls!ClearResponses,
               Calls!flags
<1>11. CASE UNCHANGED vars
  BY <1>11 DEF LifeTyped, Descriptor, vars
<1> QED
  BY <1>1, <1>2, <1>3, <1>4, <1>5, <1>6, <1>7, <1>8, <1>9, <1>10, <1>11
     DEF Next, CallSteps, Main, Maintain, Control

LEMMA LifeStep ==
    LifeTyped /\ Phases /\ Descriptor /\ [Next]_vars => (LifeTyped /\ Phases /\ Descriptor)'
BY LifeTypedStep, PhasesStep, DescriptorStep

(* stop never joins the maintenance thread while the main thread could.    *)
THEOREM MaintenanceAlwaysJoinedByOne == Spec => []JoinedByOne
<1>1. Phases => JoinedByOne
  BY DEF Phases, JoinedByOne
<1> QED
  BY <1>1, LifeInit, LifeStep, PTL DEF Spec

(* Neither connect nor init closes a descriptor the other has closed,      *)
(* although neither takes a lock.                                          *)
THEOREM DescriptorAlwaysClosedOnce == Spec => []ClosedOnce
<1>1. LifeTyped /\ Descriptor => ClosedOnce
  BY DEF LifeTyped, Descriptor, InitSteps, InLoop, ClosedOnce
<1> QED
  BY <1>1, LifeInit, LifeStep, PTL DEF Spec

(* When stop has returned no thread of the client is left, nothing is      *)
(* queued and the client is closed, however far the threads were.          *)
THEOREM StoppedIsAlwaysQuiet == Spec => []StoppedIsQuiet
<1>1. Phases => StoppedIsQuiet
  BY DEF Phases, StoppedIsQuiet
<1> QED
  BY <1>1, LifeInit, LifeStep, PTL DEF Spec

(* Nothing is ever put in queue 1 before it is started or after it is      *)
(* stopped, whatever the main thread was doing when stop was called.       *)
THEOREM EnqueuesOnlyWhenOpen == Spec => EnqueueOpen
<1>1. LifeTyped /\ Phases /\ [Next]_vars => [queueOpen \/ queued' \subseteq queued]_vars
  <2> SUFFICES ASSUME LifeTyped, Phases, [Next]_vars
               PROVE  queueOpen \/ queued' \subseteq queued
    OBVIOUS
  <2> USE DEF life, socket, traffic
  <2>1. CASE ReadResponse
    BY <2>1 DEF LifeTyped, Phases, ReadResponse
  <2>2. CASE CallSteps
    BY <2>2, CallStepsFrame
  <2>3. CASE StopQueue \/ ClearResponses
    BY <2>3 DEF StopQueue, ClearResponses
  <2>4. CASE Connect \/ SocketFails \/ ConnectSucceeds \/ ConnectFails \/ Opened \/ Lost
    BY <2>4 DEF Connect, SocketFails, ConnectSucceeds, ConnectFails, Opened, Lost
  <2>5. CASE StartInit \/ StartOnConnectError \/ StartOnDisconnect
    BY <2>5 DEF StartInit, StartOnConnectError, StartOnDisconnect, StartMaintenance
  <2>6. CASE Loop \/ Check \/ WakeUp \/ NothingToRead \/ LinkLost
    BY <2>6 DEF Loop, Check, WakeUp, NothingToRead, LinkLost, MainGoes
  <2>7. CASE SetPidDone \/ SetPidFailed \/ CallbackReturns \/ ResetDescriptor
             \/ CloseDescriptor \/ InitSetsClosed
    BY <2>7 DEF SetPidDone, SetPidFailed, CallbackReturns, ResetDescriptor, CloseDescriptor,
                InitSetsClosed, MaintGoes
  <2>8. CASE Start \/ StartMain \/ Stop \/ Dispose \/ Break \/ JoinMain \/ JoinMaintenance
    BY <2>8 DEF Start, StartMain, Stop, Dispose, Break, JoinMain, JoinMaintenance
  <2>9. CASE UNCHANGED vars
    BY <2>9 DEF vars
  <2> QED
    BY <2>1, <2>2, <2>3, <2>4, <2>5, <2>6, <2>7, <2>8, <2>9
       DEF Next, CallSteps, Main, Maintain, Control
<1> QED
  BY <1>1, LifeInit, LifeStep, PTL DEF Spec, EnqueueOpen

-----------------------------------------------------------------------------
(* The calls                                                               *)

(* The responses read and not yet taken are those queue 1 holds. *)
LEMMA QueuedStep ==
    queued \subseteq inFlight /\ [Next]_vars => (queued \subseteq inFlight)'
<1> SUFFICES ASSUME queued \subseteq inFlight, [Next]_vars PROVE (queued \subseteq inFlight)'
  OBVIOUS
<1> USE DEF life, socket, traffic, callVars
<1>1. CASE AppInvokes \/ InvokeSetPid \/ SetPidStep \/ CallbackInvokes \/ CallbackStep
  <2>1. PICK t \in {app, maintenance} : Calls!Invoke(t)
    BY <1>1 DEF AppInvokes, InvokeSetPid, SetPidStep, CallbackInvokes, CallbackStep, InvokeStep,
                Calls!Invoke
  <2>2. UNCHANGED inFlight
    BY <2>1, InvokeFrame
  <2>3. queued' \subseteq queued
    BY <1>1, CallStepsFrame DEF CallSteps
  <2> QED
    BY <2>2, <2>3
<1>2. CASE Respond
  BY <1>2, ServerFrame DEF Respond
<1>3. CASE Dispatch
  <2>1. ASSUME NEW r \in queued, Calls!TakeResponse(dispatcher, r), queued' = queued \ {r}
        PROVE  queued' \subseteq inFlight'
    BY <2>1 DEF Calls!TakeResponse
  <2>2. CASE job[dispatcher] # {} /\ Calls!Dispatch(dispatcher) /\ UNCHANGED life
    BY <2>2, DispatchFrame
  <2> QED
    BY <1>3, <2>1, <2>2 DEF Dispatch
<1>4. CASE Connect \/ SocketFails
  BY <1>4 DEF Connect, SocketFails, DropLink
<1>5. CASE ConnectSucceeds \/ ConnectFails \/ Opened \/ Lost
  BY <1>5 DEF ConnectSucceeds, ConnectFails, Opened, Lost
<1>6. CASE StartInit \/ StartOnConnectError \/ StartOnDisconnect
  BY <1>6 DEF StartInit, StartOnConnectError, StartOnDisconnect, StartMaintenance
<1>7. CASE Loop \/ Check \/ WakeUp \/ NothingToRead \/ LinkLost
  BY <1>7 DEF Loop, Check, WakeUp, NothingToRead, LinkLost, MainGoes
<1>8. CASE ReadResponse
  BY <1>8 DEF ReadResponse, OnWire
<1>9. CASE SetPidDone \/ SetPidFailed \/ CallbackReturns \/ ResetDescriptor \/ InitSetsClosed
  BY <1>9 DEF SetPidDone, SetPidFailed, CallbackReturns, ResetDescriptor, InitSetsClosed,
              MaintGoes
<1>10. CASE CloseDescriptor
  BY <1>10 DEF CloseDescriptor, MaintGoes, DropLink
<1>11. CASE Start \/ StartMain \/ Stop \/ Dispose \/ Break \/ JoinMain \/ JoinMaintenance
  BY <1>11 DEF Start, StartMain, Stop, Dispose, Break, JoinMain, JoinMaintenance
<1>12. CASE StopQueue
  BY <1>12 DEF StopQueue
<1>13. CASE ClearResponses
  BY <1>13 DEF ClearResponses, Calls!ClearResponses, Calls!server
<1>14. CASE UNCHANGED vars
  BY <1>14 DEF vars
<1> QED
  BY <1>1, <1>2, <1>3, <1>4, <1>5, <1>6, <1>7, <1>8, <1>9, <1>10, <1>11, <1>12, <1>13, <1>14
     DEF Next, Main, Maintain, Control

(* What the client does to its flags and to its socket is what RpcCalls    *)
(* allows the environment of the calls to do.                              *)
LEMMA LossAllowed ==
    ASSUME requests' \subseteq requests, inFlight' \subseteq inFlight, UNCHANGED <<flags, invoking>>
    PROVE  Calls!Next
<1>1. requests \ requests' \in SUBSET requests /\ inFlight \ inFlight' \in SUBSET inFlight
  OBVIOUS
<1>2. requests' = requests \ (requests \ requests') /\ inFlight' = inFlight \ (inFlight \ inFlight')
  OBVIOUS
<1>3. Calls!Lose(requests \ requests', inFlight \ inFlight')
  BY <1>2 DEF Calls!Lose, Calls!flags, Calls!locks, Calls!pending, Calls!caller, Calls!call,
              flags, invoking
<1> QED
  BY <1>1, <1>3 DEF Calls!Next, Calls!Loss

LEMMA FlagsAllowed ==
    ASSUME closed \in BOOLEAN, stopped \in BOOLEAN, disposing \in BOOLEAN,
           UNCHANGED <<invoking, requests, inFlight>>,
           \/ closed' \in BOOLEAN /\ UNCHANGED <<stopped, disposing>>
           \/ stopped' \in BOOLEAN /\ UNCHANGED <<closed, disposing>>
           \/ disposing' = TRUE /\ UNCHANGED <<closed, stopped>>
    PROVE  [Calls!Next]_(Calls!vars)
<1> USE DEF Calls!flags, Calls!locks, Calls!pending, Calls!caller, Calls!call, Calls!server,
            invoking
<1>1. CASE closed' \in BOOLEAN /\ UNCHANGED <<stopped, disposing>>
  <2>1. Calls!SetClosed \/ closed' = closed
    BY <1>1 DEF Calls!SetClosed
  <2> QED
    BY <1>1, <2>1 DEF Calls!Next, Calls!LifeCycle, Calls!vars
<1>2. CASE stopped' \in BOOLEAN /\ UNCHANGED <<closed, disposing>>
  <2>1. Calls!SetStopped \/ stopped' = stopped
    BY <1>2 DEF Calls!SetStopped
  <2> QED
    BY <1>2, <2>1 DEF Calls!Next, Calls!LifeCycle, Calls!vars
<1>3. CASE disposing' = TRUE /\ UNCHANGED <<closed, stopped>>
  <2>1. Calls!SetDisposing \/ disposing' = disposing
    BY <1>3 DEF Calls!SetDisposing
  <2> QED
    BY <1>3, <2>1 DEF Calls!Next, Calls!LifeCycle, Calls!vars
<1> QED
  BY <1>1, <1>2, <1>3

LEMMA CallsUnchanged ==
    ASSUME UNCHANGED callVars
    PROVE  [Calls!Next]_(Calls!vars)
BY DEF callVars, flags, invoking, Calls!flags, Calls!locks, Calls!pending, Calls!caller,
       Calls!call, Calls!server, Calls!vars

FlagsTyped == closed \in BOOLEAN /\ stopped \in BOOLEAN /\ disposing \in BOOLEAN

LEMMA CallsStep ==
    FlagsTyped /\ queued \subseteq inFlight /\ [Next]_vars => [Calls!Next]_(Calls!vars)
<1> SUFFICES ASSUME FlagsTyped, queued \subseteq inFlight, [Next]_vars
             PROVE  [Calls!Next]_(Calls!vars)
  OBVIOUS
<1> USE DEF FlagsTyped, life, socket, traffic
<1>1. CASE AppInvokes \/ InvokeSetPid \/ SetPidStep \/ CallbackInvokes \/ CallbackStep
  <2>1. PICK t \in {app, maintenance} : Calls!Invoke(t)
    BY <1>1 DEF AppInvokes, InvokeSetPid, SetPidStep, CallbackInvokes, CallbackStep, InvokeStep,
                Calls!Invoke
  <2> QED
    BY <2>1 DEF Calls!Next
<1>2. CASE Respond
  BY <1>2 DEF Respond, Calls!Next
<1>3. CASE Dispatch
  <2>1. Calls!Dispatch(dispatcher)
    BY <1>3 DEF Dispatch, Calls!Dispatch
  <2> QED
    BY <2>1 DEF Calls!Next
<1>4. CASE Connect \/ SocketFails \/ CloseDescriptor
  <2>1. /\ requests' \subseteq requests /\ inFlight' \subseteq inFlight
        /\ UNCHANGED <<flags, invoking>>
    BY <1>4 DEF Connect, SocketFails, CloseDescriptor, DropLink
  <2> QED
    BY <2>1, LossAllowed
<1>5. CASE Break \/ StopQueue
  <2>1. /\ requests' \subseteq requests /\ inFlight' \subseteq inFlight
        /\ UNCHANGED <<flags, invoking>>
    BY <1>5 DEF Break, StopQueue, OnWire
  <2> QED
    BY <2>1, LossAllowed
<1>6. CASE Opened \/ Lost \/ InitSetsClosed \/ JoinMaintenance
  <2>1. closed' \in BOOLEAN /\ UNCHANGED <<stopped, disposing, invoking, requests, inFlight>>
    BY <1>6 DEF Opened, Lost, InitSetsClosed, JoinMaintenance
  <2> QED
    BY <2>1, FlagsAllowed
<1>7. CASE Start \/ Stop \/ Dispose
  <2>1. /\ UNCHANGED <<invoking, requests, inFlight>>
        /\ \/ stopped' \in BOOLEAN /\ UNCHANGED <<closed, disposing>>
           \/ disposing' = TRUE /\ UNCHANGED <<closed, stopped>>
    BY <1>7 DEF Start, Stop, Dispose
  <2> QED
    BY <2>1, FlagsAllowed
<1>8. CASE ClearResponses
  BY <1>8 DEF ClearResponses, Calls!Next, Calls!LifeCycle
<1>9. CASE ConnectSucceeds \/ ConnectFails
  BY <1>9, CallsUnchanged DEF ConnectSucceeds, ConnectFails
<1>10. CASE StartInit \/ StartOnConnectError \/ StartOnDisconnect
  BY <1>10, CallsUnchanged DEF StartInit, StartOnConnectError, StartOnDisconnect, StartMaintenance
<1>11. CASE Loop \/ Check \/ WakeUp \/ NothingToRead \/ LinkLost
  BY <1>11, CallsUnchanged DEF Loop, Check, WakeUp, NothingToRead, LinkLost, MainGoes
<1>12. CASE SetPidDone \/ SetPidFailed \/ CallbackReturns \/ ResetDescriptor
  BY <1>12, CallsUnchanged DEF SetPidDone, SetPidFailed, CallbackReturns, ResetDescriptor
<1>13. CASE ReadResponse \/ StartMain \/ JoinMain
  BY <1>13, CallsUnchanged DEF ReadResponse, StartMain, JoinMain
<1>14. CASE UNCHANGED vars
  BY <1>14, CallsUnchanged DEF vars
<1> QED
  BY <1>1, <1>2, <1>3, <1>4, <1>5, <1>6, <1>7, <1>8, <1>9, <1>10, <1>11, <1>12, <1>13, <1>14
     DEF Next, Main, Maintain, Control

LEMMA FlagsTypedStep == FlagsTyped /\ [Next]_vars => FlagsTyped'
<1> SUFFICES ASSUME FlagsTyped, [Next]_vars PROVE FlagsTyped'
  OBVIOUS
<1> USE DEF FlagsTyped, flags, life, socket, traffic, callVars
<1>1. CASE CallSteps
  BY <1>1, CallStepsFrame
<1>2. CASE Connect \/ SocketFails \/ ConnectSucceeds \/ ConnectFails \/ Opened \/ Lost
  BY <1>2 DEF Connect, SocketFails, ConnectSucceeds, ConnectFails, Opened, Lost
<1>3. CASE StartInit \/ StartOnConnectError \/ StartOnDisconnect
  BY <1>3 DEF StartInit, StartOnConnectError, StartOnDisconnect, StartMaintenance
<1>4. CASE Loop \/ Check \/ WakeUp \/ NothingToRead \/ LinkLost \/ ReadResponse
  BY <1>4 DEF Loop, Check, WakeUp, NothingToRead, LinkLost, MainGoes, ReadResponse
<1>5. CASE SetPidDone \/ SetPidFailed \/ CallbackReturns \/ ResetDescriptor
           \/ CloseDescriptor \/ InitSetsClosed
  BY <1>5 DEF SetPidDone, SetPidFailed, CallbackReturns, ResetDescriptor, CloseDescriptor,
              InitSetsClosed
<1>6. CASE Start \/ StartMain \/ Stop \/ Dispose \/ Break \/ JoinMain \/ JoinMaintenance
  BY <1>6 DEF Start, StartMain, Stop, Dispose, Break, JoinMain, JoinMaintenance
<1>7. CASE StopQueue \/ ClearResponses
  BY <1>7 DEF StopQueue, ClearResponses, Calls!ClearResponses, Calls!flags
<1>8. CASE UNCHANGED vars
  BY <1>8 DEF vars
<1> QED
  BY <1>1, <1>2, <1>3, <1>4, <1>5, <1>6, <1>7, <1>8
     DEF Next, CallSteps, Main, Maintain, Control

(* The client implements RpcCalls: whatever start, stop, dispose, connect, *)
(* init, the callbacks and the server do to the flags, to the socket and   *)
(* to queue 1 is one of the losses and of the changes of the flags that    *)
(* the calls are specified, and proved, to survive.                        *)
THEOREM CallsAlwaysHold == Spec => CallsHold
<1>1. Init => Calls!Init /\ FlagsTyped /\ queued \subseteq inFlight
  BY DEF Init, Calls!Init, FlagsTyped
<1> QED
  BY <1>1, FlagsTypedStep, QueuedStep, CallsStep, PTL DEF Spec, CallsHold, Calls!Spec

-----------------------------------------------------------------------------
(* What is proved about RpcCalls holds here                                *)

LEMMA SameCalls ==
    /\ Calls!Init <=> Proved!Init
    /\ Calls!vars = Proved!vars
    /\ [Calls!Next]_(Calls!vars) <=> [Proved!Next]_(Proved!vars)
<1> USE DEF Calls!flags, Calls!locks, Calls!pending, Calls!caller, Calls!call, Calls!server,
            Calls!vars, Proved!flags, Proved!locks, Proved!pending, Proved!caller, Proved!call,
            Proved!server, Proved!vars, Calls!Goto, Proved!Goto, Calls!Return, Proved!Return,
            Calls!NotOpen, Proved!NotOpen
<1>1. Calls!Init <=> Proved!Init
  BY DEF Calls!Init, Proved!Init, Calls!PacketIds, Proved!PacketIds
<1>2. ASSUME NEW t PROVE Calls!Invoke(t) <=> Proved!Invoke(t)
  BY DEF Calls!Invoke, Calls!Refuse, Calls!Begin, Calls!Register, Calls!RegisterFails,
         Calls!AllocatePacketId, Calls!InsertResponse, Calls!SendRequest, Calls!SendFails,
         Calls!SendErrorReturn, Calls!EndWait, Calls!RemoveResponse, Calls!Unregister,
         Calls!WaitOver, Calls!ResultOf,
         Proved!Invoke, Proved!Refuse, Proved!Begin, Proved!Register, Proved!RegisterFails,
         Proved!AllocatePacketId, Proved!InsertResponse, Proved!SendRequest, Proved!SendFails,
         Proved!SendErrorReturn, Proved!EndWait, Proved!RemoveResponse, Proved!Unregister,
         Proved!WaitOver, Proved!ResultOf
<1>3. ASSUME NEW w PROVE Calls!Dispatch(w) <=> Proved!Dispatch(w)
  BY DEF Calls!Dispatch, Calls!TakeResponse, Calls!FindRequest, Calls!RequestNotFound,
         Calls!Deliver, Proved!Dispatch, Proved!TakeResponse, Proved!FindRequest,
         Proved!RequestNotFound, Proved!Deliver
<1>4. (Calls!Server <=> Proved!Server) /\ (Calls!Loss <=> Proved!Loss)
  BY DEF Calls!Server, Calls!Answer, Calls!Loss, Calls!Lose,
         Proved!Server, Proved!Answer, Proved!Loss, Proved!Lose
<1>5. Calls!LifeCycle <=> Proved!LifeCycle
  BY DEF Calls!LifeCycle, Calls!SetClosed, Calls!SetStopped, Calls!SetDisposing,
         Calls!ClearResponses, Proved!LifeCycle, Proved!SetClosed, Proved!SetStopped,
         Proved!SetDisposing, Proved!ClearResponses
<1>6. Calls!vars = Proved!vars
  OBVIOUS
<1>7. Calls!Next <=> Proved!Next
  BY <1>2, <1>3, <1>4, <1>5 DEF Calls!Next, Proved!Next
<1> QED
  BY <1>1, <1>6, <1>7

LEMMA SameSpec == Calls!Spec => Proved!Spec
BY SameCalls, PTL DEF Calls!Spec, Proved!Spec

LEMMA CallsAssumed == Proved!CallsAssumption
BY ClientAssumption DEF Proved!CallsAssumption, Proved!AllFaults

(* Every variable of the client keeps to its type in every behaviour: the  *)
(* calls as well as the life cycle, and queue 1 holds responses that were  *)
(* sent and not yet taken.                                                 *)
THEOREM TypeAlways == Spec => []TypeOK
<1>1. Spec => []Proved!TypeOK
  BY CallsAlwaysHold, SameSpec, CallsAssumed, Proved!TypeCorrect, PTL DEF CallsHold
<1>2. Spec => [](queued \subseteq inFlight)
  <2>1. Init => queued \subseteq inFlight
    BY DEF Init
  <2> QED
    BY <2>1, QueuedStep, PTL DEF Spec
<1>3. Spec => []LifeTyped
  BY LifeInit, LifeStep, PTL DEF Spec
<1>4. Proved!TypeOK /\ queued \subseteq inFlight /\ LifeTyped => TypeOK
  BY DEF Proved!TypeOK, Calls!TypeOK, TypeOK, Proved!Steps, Calls!Steps,
         Proved!Results, Calls!Results, Proved!Outcomes, Calls!Outcomes, Proved!Values,
         Calls!Values, Proved!Requests, Calls!Requests, Proved!Responses, Calls!Responses,
         Proved!PacketIds, Calls!PacketIds
<1> QED
  BY <1>1, <1>2, <1>3, <1>4, PTL

(* So what RpcCalls promises its callers holds with the life cycle around  *)
(* it: no call is ever told the answer to another, none leaves a pending   *)
(* response behind, a call stays registered while it can be answered, and  *)
(* what it is told is final.                                               *)
THEOREM CallsAlwaysRight ==
    Spec => [](/\ Calls!OwnAnswer /\ Calls!PendingResponses
               /\ Calls!RegistrationLasts /\ Calls!VerdictFinal)
<1>1. Spec => Proved!Spec
  BY CallsAlwaysHold, SameSpec DEF CallsHold
<1>2. Spec => [](/\ Proved!OwnAnswer /\ Proved!PendingResponses
                 /\ Proved!RegistrationLasts /\ Proved!VerdictFinal)
  BY <1>1, CallsAssumed, Proved!OwnAnswerAlways, Proved!PendingResponsesAlways,
     Proved!RegistrationLastsAlways, Proved!VerdictFinalAlways, PTL
<1>3. /\ Proved!OwnAnswer <=> Calls!OwnAnswer
      /\ Proved!PendingResponses <=> Calls!PendingResponses
      /\ Proved!RegistrationLasts <=> Calls!RegistrationLasts
      /\ Proved!VerdictFinal <=> Calls!VerdictFinal
  BY DEF Proved!OwnAnswer, Calls!OwnAnswer, Proved!PendingResponses, Calls!PendingResponses,
         Proved!RegistrationLasts, Calls!RegistrationLasts, Proved!VerdictFinal,
         Calls!VerdictFinal, Proved!ResultOf, Calls!ResultOf, Proved!Return, Calls!Return
<1> QED
  BY <1>2, <1>3, PTL

(* And so they are calls as a caller sees them (RemoteCalls): executed at  *)
(* most once, and told an error or the answer computed for them.           *)
THEOREM RemoteCallsImplemented == Spec => Calls!IsRemoteCalls
<1>1. Spec => Proved!IsRemoteCalls
  BY CallsAlwaysHold, SameSpec, CallsAssumed, Proved!RemoteCallsImplemented DEF CallsHold
<1>2. /\ Proved!Remote!Init <=> Calls!Remote!Init
      /\ [Proved!Remote!Next]_(Proved!Remote!vars) <=> [Calls!Remote!Next]_(Calls!Remote!vars)
  BY DEF Calls!Remote!Init, Proved!Remote!Init, Calls!Remote!Next, Proved!Remote!Next,
         Calls!Remote!Call, Proved!Remote!Call, Calls!Remote!Refuse, Proved!Remote!Refuse,
         Calls!Remote!Send, Proved!Remote!Send, Calls!Remote!Execute, Proved!Remote!Execute,
         Calls!Remote!Lose, Proved!Remote!Lose, Calls!Remote!Fail, Proved!Remote!Fail,
         Calls!Remote!Return, Proved!Remote!Return, Calls!Remote!vars, Proved!Remote!vars,
         Calls!Remote!Fresh, Proved!Remote!Fresh, Calls!PhaseOf, Proved!PhaseOf,
         Calls!Stored, Proved!Stored, Calls!Delivering, Proved!Delivering, Calls!PacketIds,
         Proved!PacketIds, Calls!Values, Proved!Values, Calls!Responses, Proved!Responses
<1> QED
  BY <1>1, <1>2, PTL DEF Proved!IsRemoteCalls, Calls!IsRemoteCalls, Proved!Remote!Spec,
                         Calls!Remote!Spec
=============================================================================
