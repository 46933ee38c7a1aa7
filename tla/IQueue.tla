------------------------------- MODULE IQueue -------------------------------
(***************************************************************************)
(* One queue of IQueue: the ring buffer, its mutex and its two condition   *)
(* variables, the threads that enqueue, the processing threads and the     *)
(* thread that starts and stops the queue.  The queues of an IQueue share  *)
(* nothing, so one of them stands for each.                                *)
(*                                                                         *)
(* A critical section is one step, except that a thread about to sleep     *)
(* evaluates the wait predicate in one step and blocks in the next, still  *)
(* holding the mutex: _stopProcessingThread is written without the mutex   *)
(* and can change in between.                                              *)
(***************************************************************************)
EXTENDS Integers, FiniteSets, Sequences

CONSTANTS
    Producers,      \* threads that call enqueue
    Waiting,        \* the producers that pass waitWhenFull
    Workers,        \* processing threads of a started queue
    BufferSize,     \* _bufferSize
    MaxEntries,     \* bound on the entries enqueued
    MaxStarts,      \* bound on the calls of startQueue
    MaxPolls        \* bound on the 1 s timeouts of the waits

ASSUME QueueAssumption ==
    /\ Waiting \subseteq Producers
    /\ IsFiniteSet(Producers) /\ IsFiniteSet(Workers) /\ Producers \cap Workers = {}
    /\ BufferSize \in Nat \ {0}
    /\ {MaxEntries, MaxStarts, MaxPolls} \subseteq Nat

VARIABLES
    stop,           \* _stopProcessingThread
    head, tail, count,
    buffer,         \* _buffer: its domain is empty while it is not allocated
    mutex,          \* the thread that sleeps next and holds _queueMutex
    pc,             \* of producers and workers
    entry,          \* the entry a producer adds, or a worker has popped
    control,        \* where startQueue or stopQueue is
    starts, entries, polls, \* counters of the bounds
    added, handled  \* entries stored in the buffer, given to the handler

ring == <<head, tail, count, buffer>>
counters == <<starts, entries, polls>>
history == <<added, handled>>
vars == <<stop, ring, mutex, pc, entry, control, counters, history>>

Threads == Producers \cup Workers
Entries == 1 .. MaxEntries
None == 0
Slots == 0 .. BufferSize - 1
Allocated == buffer # <<>>

TypeOK ==
    /\ stop \in BOOLEAN
    /\ head \in Slots /\ tail \in Slots /\ count \in 0 .. BufferSize
    /\ buffer = <<>> \/ buffer \in [Slots -> Entries \cup {None}]
    /\ mutex \subseteq Threads /\ Cardinality(mutex) <= 1
    /\ \A p \in Producers : pc[p] \in {"idle", "lock", "sleep", "waiting", "notify"}
    /\ \A w \in Workers : pc[w] \in {"none", "loop", "lock", "sleep", "waiting", "popped",
                                     "handle", "again", "exited"}
    /\ entry \in [Threads -> Entries \cup {None}]
    /\ control \in {"stopped", "reset", "spawned", "running", "stopSet", "notify", "join"}
    /\ starts \in 0 .. MaxStarts /\ entries \in 0 .. MaxEntries /\ polls \in 0 .. MaxPolls
    /\ added \subseteq Entries /\ handled \subseteq Entries

Init ==
    /\ stop = TRUE
    /\ head = 0 /\ tail = 0 /\ count = 0 /\ buffer = <<>>
    /\ mutex = {}
    /\ pc = [x \in Threads |-> IF x \in Workers THEN "none" ELSE "idle"]
    /\ entry = [x \in Threads |-> None]
    /\ control = "stopped"
    /\ starts = 0 /\ entries = 0 /\ polls = 0
    /\ added = {} /\ handled = {}

Goto(x, from, to) == pc[x] = from /\ pc' = [pc EXCEPT ![x] = to]

-----------------------------------------------------------------------------
(* Waiting on a condition variable                                         *)

(* The predicate was false: release the mutex and block. *)
Sleep(x) ==
    /\ Goto(x, "sleep", "waiting")
    /\ mutex' = {}
    /\ UNCHANGED <<stop, ring, entry, control, counters, history>>

(* wait_for gives up after 1 s and evaluates its predicate again.          *)
Poll(x) ==
    /\ polls < MaxPolls /\ polls' = polls + 1
    /\ Goto(x, "waiting", "lock")
    /\ UNCHANGED <<stop, ring, mutex, entry, control, starts, entries, history>>

(* notify_one by thread x, which goes on at label "to": one of the waiting *)
(* threads wakes, if there is one.                                         *)
NotifyOne(x, from, to, sleepers) ==
    /\ pc[x] = from
    /\ LET waiting == {y \in sleepers : pc[y] = "waiting"}
       IN  IF waiting = {} THEN pc' = [pc EXCEPT ![x] = to]
           ELSE \E y \in waiting : pc' = [pc EXCEPT ![x] = to, ![y] = "lock"]
    /\ UNCHANGED <<stop, ring, mutex, entry, control, counters, history>>

-----------------------------------------------------------------------------
(* enqueue                                                                 *)

(* The rule under which the queue is used: enqueue is not called while     *)
(* startQueue runs, and only waiting producers are inside it when          *)
(* stopQueue is called.  IIpcClient keeps it: only its main thread         *)
(* enqueues, which start() creates last and stop() joins first.            *)
Enqueuing == {p \in Producers : pc[p] # "idle"}

(* The check of _stopProcessingThread without the mutex. *)
EnqueueStopped(p) ==
    /\ Goto(p, "idle", "idle")
    /\ control \notin {"reset", "spawned"}
    /\ entries < MaxEntries
    /\ stop
    /\ entries' = entries + 1
    /\ UNCHANGED <<stop, ring, mutex, entry, control, starts, polls, history>>

Enqueue(p) ==
    /\ Goto(p, "idle", "lock")
    /\ control \notin {"reset", "spawned"}
    /\ entries < MaxEntries
    /\ ~stop
    /\ entries' = entries + 1
    /\ entry' = [entry EXCEPT ![p] = entries']
    /\ UNCHANGED <<stop, ring, mutex, control, starts, polls, history>>

(* With the mutex: the entry goes to the tail. *)
StoreUnchecked(p) ==
    /\ mutex = {}
    /\ Goto(p, "lock", "notify")
    /\ buffer' = [buffer EXCEPT ![tail] = entry[p]]
    /\ tail' = (tail + 1) % BufferSize
    /\ count' = count + 1
    /\ added' = added \cup {entry[p]}
    /\ UNCHANGED <<stop, head, mutex, entry, control, counters, handled>>

(* Mutations of Store: no check for space; no check for the stop after the *)
(* wait.                                                                   *)
StoreUnbounded(p) == (p \in Waiting => ~stop) /\ StoreUnchecked(p)
StoreStopped(p) == count < BufferSize /\ StoreUnchecked(p)

(* Store the entry if there is space ... *)
Store(p) ==
    /\ count < BufferSize
    /\ p \in Waiting => ~stop
    /\ StoreUnchecked(p)

(* ... or, if the buffer is full and the producer does not wait or the     *)
(* queue was stopped while it waited, return without it ...                *)
GiveUp(p) ==
    /\ mutex = {}
    /\ IF p \in Waiting THEN stop ELSE count >= BufferSize
    /\ Goto(p, "lock", "idle")
    /\ entry' = [entry EXCEPT ![p] = None]
    /\ UNCHANGED <<stop, ring, mutex, control, counters, history>>

(* ... or find the predicate of the wait false. *)
AwaitSpace(p) ==
    /\ mutex = {}
    /\ p \in Waiting /\ count >= BufferSize /\ ~stop
    /\ Goto(p, "lock", "sleep")
    /\ mutex' = {p}
    /\ UNCHANGED <<stop, ring, entry, control, counters, history>>

(* Mutation: the other condition variable is notified. *)
NotifyWorkerNot(p) == NotifyOne(p, "notify", "idle", Producers)

NotifyWorker(p) == NotifyOne(p, "notify", "idle", Workers)

-----------------------------------------------------------------------------
(* process                                                                 *)

CheckStop(w) ==
    /\ Goto(w, "loop", IF stop THEN "exited" ELSE "lock")
    /\ UNCHANGED <<stop, ring, mutex, entry, control, counters, history>>

(* With the mutex: return when stopped ... *)
LeaveStopped(w) ==
    /\ mutex = {}
    /\ stop
    /\ Goto(w, "lock", "exited")
    /\ UNCHANGED <<stop, ring, mutex, entry, control, counters, history>>

(* ... pop an entry, from the wait or from the inner loop ... *)
Pop(w) ==
    /\ mutex = {}
    /\ ~stop /\ count > 0
    /\ pc[w] \in {"lock", "again"}
    /\ pc' = [pc EXCEPT ![w] = "popped"]
    /\ entry' = [entry EXCEPT ![w] = buffer[head]]
    /\ buffer' = [buffer EXCEPT ![head] = None]
    /\ head' = (head + 1) % BufferSize
    /\ count' = count - 1
    /\ UNCHANGED <<stop, tail, mutex, control, counters, history>>

(* ... find the predicate of the wait false ... *)
AwaitEntry(w) ==
    /\ mutex = {}
    /\ ~stop /\ count = 0
    /\ Goto(w, "lock", "sleep")
    /\ mutex' = {w}
    /\ UNCHANGED <<stop, ring, entry, control, counters, history>>

(* ... or leave the inner loop. *)
LeaveLoop(w) ==
    /\ mutex = {}
    /\ stop \/ count = 0
    /\ Goto(w, "again", "loop")
    /\ UNCHANGED <<stop, ring, mutex, entry, control, counters, history>>

(* Mutation: the other condition variable is notified. *)
NotifyProducerNot(w) == NotifyOne(w, "popped", "handle", Workers)

NotifyProducer(w) == NotifyOne(w, "popped", "handle", Producers)

(* processQueueEntry returns, or throws out of the inner loop. *)
Handle(w) ==
    /\ \E next \in {"again", "loop"} : Goto(w, "handle", next)
    /\ handled' = handled \cup ({entry[w]} \ {None})
    /\ entry' = [entry EXCEPT ![w] = None]
    /\ UNCHANGED <<stop, ring, mutex, control, counters, added>>

-----------------------------------------------------------------------------
(* startQueue and stopQueue                                                *)

StartUnreset ==
    /\ control = "stopped"
    /\ Enqueuing = {}
    /\ starts < MaxStarts
    /\ starts' = starts + 1
    /\ control' = "reset"
    /\ stop' = FALSE
    /\ UNCHANGED <<buffer, mutex, pc, entry, entries, polls, history>>

(* Mutations: head, or count, keeps its value. *)
StartKeepsHead == StartUnreset /\ tail' = 0 /\ count' = 0 /\ UNCHANGED head
StartKeepsCount == StartUnreset /\ head' = 0 /\ tail' = 0 /\ UNCHANGED count

StartReset == StartUnreset /\ head' = 0 /\ tail' = 0 /\ count' = 0

StartThreads ==
    /\ control = "reset"
    /\ control' = "spawned"
    /\ pc' = [x \in Threads |-> IF x \in Workers THEN "loop" ELSE pc[x]]
    /\ UNCHANGED <<stop, ring, mutex, entry, counters, history>>

(* The buffer is sized after the threads were started. *)
StartBuffer ==
    /\ control = "spawned"
    /\ control' = "running"
    /\ buffer' = [i \in Slots |-> None]
    /\ UNCHANGED <<stop, head, tail, count, mutex, pc, entry, counters, history>>

StopSet ==
    /\ control = "running"
    /\ Enqueuing \subseteq Waiting
    /\ control' = "stopSet"
    /\ stop' = TRUE
    /\ UNCHANGED <<ring, mutex, pc, entry, counters, history>>

(* Mutation: the mutex is not taken between the flag and the notification. *)
StopUnlocked ==
    /\ control = "stopSet"
    /\ control' = "notify"
    /\ UNCHANGED <<stop, ring, mutex, pc, entry, counters, history>>

(* Lock and unlock the mutex. *)
StopLock ==
    /\ control = "stopSet"
    /\ mutex = {}
    /\ control' = "notify"
    /\ UNCHANGED <<stop, ring, mutex, pc, entry, counters, history>>

StopNotify ==
    /\ control = "notify"
    /\ control' = "join"
    /\ pc' = [x \in Threads |-> IF pc[x] = "waiting" THEN "lock" ELSE pc[x]]
    /\ UNCHANGED <<stop, ring, mutex, entry, counters, history>>

StopJoin ==
    /\ control = "join"
    /\ \A w \in Workers : pc[w] = "exited"
    /\ control' = "stopped"
    /\ buffer' = <<>>
    /\ pc' = [x \in Threads |-> IF x \in Workers THEN "none" ELSE pc[x]]
    /\ UNCHANGED <<stop, head, tail, count, mutex, entry, counters, history>>

Produce(p) ==
    \/ EnqueueStopped(p) \/ Enqueue(p)
    \/ Store(p) \/ GiveUp(p) \/ AwaitSpace(p) \/ NotifyWorker(p)
    \/ Sleep(p)

Process(w) ==
    \/ CheckStop(w) \/ LeaveStopped(w) \/ Pop(w) \/ AwaitEntry(w) \/ LeaveLoop(w)
    \/ NotifyProducer(w) \/ Handle(w)
    \/ Sleep(w)

Start == StartReset \/ StartThreads \/ StartBuffer
Stop == StopLock \/ StopNotify \/ StopJoin

Next ==
    \/ \E p \in Producers : Produce(p)
    \/ \E w \in Workers : Process(w)
    \/ Start \/ StopSet \/ Stop
    \/ \E x \in Threads : Poll(x)

Spec == Init /\ [][Next]_vars

(* Threads keep running and handlers return.  Nobody has to enqueue, to    *)
(* start the queue or to stop it, and no wait has to time out: what is     *)
(* live is so by the condition variables alone.  Weak fairness is enough   *)
(* for the mutex: entries, starts and timeouts are bounded, so it is       *)
(* contended finitely often.                                               *)
FairSpec ==
    /\ Spec
    /\ \A p \in Producers : WF_vars(pc[p] # "idle" /\ Produce(p))
    /\ \A w \in Workers : WF_vars(Process(w))
    /\ WF_vars(StartThreads \/ StartBuffer) /\ WF_vars(Stop)

-----------------------------------------------------------------------------
(* Properties                                                              *)

Window == {(head + i) % BufferSize : i \in 0 .. count - 1}

(* While the queue is open the ring holds count entries from head on, each *)
(* a different one, nothing elsewhere, and tail follows the last of them:  *)
(* no start finds what an earlier life of the queue left behind.           *)
RingConsistent ==
    control = "running" =>
        /\ Allocated
        /\ tail = (head + count) % BufferSize
        /\ \A i \in Slots : buffer[i] # None <=> i \in Window
        /\ \A i, j \in Window : buffer[i] = buffer[j] => i = j

(* No thread indexes _buffer while it has no elements: threads run before  *)
(* startQueue has sized it, and producers may outlive it in stopQueue.     *)
BufferAccessed ==
    /\ mutex = {}
    /\ \/ \E p \in Producers :
             pc[p] = "lock" /\ count < BufferSize /\ (p \in Waiting => ~stop)
       \/ \E w \in Workers : pc[w] \in {"lock", "again"} /\ count > 0 /\ ~stop
    => Allocated

Contents ==
    IF Allocated THEN [i \in 1 .. count |-> buffer[(head + i - 1) % BufferSize]]
    ELSE <<>>

(* The queue is the bounded first-in first-out queue of WorkQueue. *)
Abstract == INSTANCE WorkQueue WITH
    Capacity <- BufferSize,
    open <- ~stop,
    queue <- Contents,
    taken <- handled \cup ({entry[w] : w \in Workers} \ {None})

IsWorkQueue == Abstract!Spec

(* An entry that is in the buffer is handled, unless the queue is stopped. *)
Stored(e) == Allocated /\ \E i \in Slots : buffer[i] = e

EntryHandled == \A e \in Entries : Stored(e) ~> (e \in handled \/ stop)

(* stopQueue returns: even if no wait times out, every processing thread   *)
(* learns that it has to end.                                              *)
StopReturns == (control = "stopSet") ~> (control = "stopped")

(* A producer that waits for space gets it or is told that the queue was   *)
(* stopped; it does not sleep forever.                                     *)
EnqueueReturns == \A p \in Waiting : (pc[p] = "lock") ~> (pc[p] = "idle")
=============================================================================
