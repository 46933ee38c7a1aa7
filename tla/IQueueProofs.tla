---------------------------- MODULE IQueueProofs ----------------------------
(***************************************************************************)
(* Proofs about IQueue: its safety properties, and that it implements the  *)
(* queue of WorkQueue, for every set of producers and processing threads,  *)
(* any size of the buffer and any number of starts.                        *)
(***************************************************************************)
EXTENDS IQueue, SequenceTheorems, FiniteSetTheorems, TLAPS

Labels == {"idle", "lock", "sleep", "waiting", "notify", "none", "loop", "popped", "handle",
           "again", "exited"}

Typed == TypeOK /\ pc \in [Threads -> Labels]

(* The mutex is held between two steps by a thread about to sleep only, by *)
(* one at a time.                                                          *)
MutexHeld ==
    /\ \A x \in Threads : x \in mutex <=> pc[x] = "sleep"
    /\ \A x, y \in mutex : x = y

(* A thread about to sleep still has reason to: the buffer is as it saw it *)
(* and the notification of stopQueue has yet to come.  Nobody sleeps past  *)
(* that notification.                                                      *)
SleepersWoken ==
    \A x \in Threads :
        /\ pc[x] = "sleep" =>
              /\ count = IF x \in Workers THEN 0 ELSE BufferSize
              /\ control \in {"spawned", "running", "stopSet"}
        /\ pc[x] = "waiting" => control \in {"spawned", "running", "stopSet", "notify"}

(* What the life of the queue says about its flag, its buffer and the      *)
(* threads inside it.                                                      *)
Life ==
    /\ stop <=> control \in {"stopped", "stopSet", "notify", "join"}
    /\ Allocated <=> control \in {"running", "stopSet", "notify", "join"}
    /\ control \in {"reset", "spawned"} =>
          head = 0 /\ tail = 0 /\ count = 0 /\ Enqueuing = {}
    /\ stop => Enqueuing \subseteq Waiting
    /\ \A w \in Workers : pc[w] = "none" <=> control \in {"stopped", "reset"}

(* The ring keeps its shape while the queue is stopped, too. *)
Ring ==
    Allocated =>
        /\ tail = (head + count) % BufferSize
        /\ \A i \in Slots : buffer[i] # None <=> i \in Window
        /\ \A i, j \in Window : buffer[i] = buffer[j] => i = j

Taken == handled \cup ({entry[w] : w \in Workers} \ {None})

(* An entry that a producer is about to add is nowhere else; one that is   *)
(* in the buffer was added and has not been taken.                         *)
Holding == {p \in Producers : pc[p] \in {"lock", "sleep", "waiting"}}

EntriesDistinct ==
    /\ added \subseteq 1 .. entries
    /\ Taken \subseteq added
    /\ \A p \in Holding : entry[p] \in (1 .. entries) \ added
    /\ \A p, q \in Holding : entry[p] = entry[q] => p = q
    /\ \A w \in Workers : entry[w] # None <=> pc[w] \in {"popped", "handle"}
    /\ Allocated => \A i \in Slots : buffer[i] # None => buffer[i] \in added \ Taken

Inv == Typed /\ MutexHeld /\ SleepersWoken /\ Life /\ Ring /\ EntriesDistinct

-----------------------------------------------------------------------------
(* Positions in the ring                                                   *)

LEMMA PositionValue ==
    ASSUME NEW h \in Slots, NEW i \in 0 .. BufferSize
    PROVE  /\ (h + i) % BufferSize = IF h + i < BufferSize THEN h + i ELSE h + i - BufferSize
           /\ (h + i) % BufferSize \in Slots
<1>1. BufferSize \in Nat /\ BufferSize > 0 /\ h \in Nat /\ h < BufferSize /\ i \in Nat
  BY QueueAssumption DEF Slots
<1>2. CASE h + i < BufferSize
  BY <1>1, <1>2 DEF Slots
<1>3. CASE h + i >= BufferSize
  <2>1. (h + i) % BufferSize = (h + i - BufferSize) % BufferSize
    BY <1>1
  <2> QED
    BY <1>1, <1>3, <2>1 DEF Slots
<1> QED
  BY <1>1, <1>2, <1>3

LEMMA PositionInjective ==
    ASSUME NEW h \in Slots, NEW i \in Slots, NEW j \in Slots,
           (h + i) % BufferSize = (h + j) % BufferSize
    PROVE  i = j
<1>1. /\ BufferSize \in Nat /\ h \in 0 .. BufferSize - 1
      /\ i \in 0 .. BufferSize - 1 /\ j \in 0 .. BufferSize - 1
      /\ i \in 0 .. BufferSize /\ j \in 0 .. BufferSize
  BY QueueAssumption DEF Slots
<1>2. (h + i) % BufferSize = IF h + i < BufferSize THEN h + i ELSE h + i - BufferSize
  BY <1>1, PositionValue
<1>3. (h + j) % BufferSize = IF h + j < BufferSize THEN h + j ELSE h + j - BufferSize
  BY <1>1, PositionValue
<1> QED
  BY <1>1, <1>2, <1>3

LEMMA PositionNext ==
    ASSUME NEW h \in Slots, NEW i \in Slots
    PROVE  /\ (((h + i) % BufferSize) + 1) % BufferSize = (h + (i + 1)) % BufferSize
           /\ (((h + 1) % BufferSize) + i) % BufferSize = (h + (i + 1)) % BufferSize
<1>1. BufferSize \in Nat /\ BufferSize > 0 /\ h \in 0 .. BufferSize - 1 /\ i \in 0 .. BufferSize - 1
  BY QueueAssumption DEF Slots
<1>2. (h + i) % BufferSize \in Slots /\ (h + 1) % BufferSize \in Slots
  BY <1>1, PositionValue
<1>3. i \in 0 .. BufferSize /\ i + 1 \in 0 .. BufferSize /\ 1 \in 0 .. BufferSize
  BY <1>1
<1>4. (h + i) % BufferSize = IF h + i < BufferSize THEN h + i ELSE h + i - BufferSize
  BY <1>3, PositionValue
<1>5. (h + 1) % BufferSize = IF h + 1 < BufferSize THEN h + 1 ELSE h + 1 - BufferSize
  BY <1>3, PositionValue
<1>6. (h + (i + 1)) % BufferSize
        = IF h + (i + 1) < BufferSize THEN h + (i + 1) ELSE h + (i + 1) - BufferSize
  BY <1>3, PositionValue
<1>7. ASSUME NEW s \in Slots, NEW d \in 0 .. BufferSize
      PROVE  (s + d) % BufferSize = IF s + d < BufferSize THEN s + d ELSE s + d - BufferSize
  BY PositionValue
<1>8. (((h + i) % BufferSize) + 1) % BufferSize = (h + (i + 1)) % BufferSize
  <2> DEFINE s == (h + i) % BufferSize
  <2>1. (s + 1) % BufferSize = IF s + 1 < BufferSize THEN s + 1 ELSE s + 1 - BufferSize
    BY <1>2, <1>3, <1>7
  <2>2. s = IF h + i < BufferSize THEN h + i ELSE h + i - BufferSize
    BY <1>4
  <2> HIDE DEF s
  <2>3. (s + 1) % BufferSize = (h + (i + 1)) % BufferSize
    BY <1>1, <1>6, <2>1, <2>2
  <2> QED
    BY <2>3 DEF s
<1>9. (((h + 1) % BufferSize) + i) % BufferSize = (h + (i + 1)) % BufferSize
  <2> DEFINE s == (h + 1) % BufferSize
  <2>1. (s + i) % BufferSize = IF s + i < BufferSize THEN s + i ELSE s + i - BufferSize
    BY <1>2, <1>3, <1>7
  <2>2. s = IF h + 1 < BufferSize THEN h + 1 ELSE h + 1 - BufferSize
    BY <1>5
  <2> HIDE DEF s
  <2>3. (s + i) % BufferSize = (h + (i + 1)) % BufferSize
    BY <1>1, <1>6, <2>1, <2>2
  <2> QED
    BY <2>3 DEF s
<1> QED
  BY <1>8, <1>9

-----------------------------------------------------------------------------
LEMMA InitInv == Init => Inv
<1> SUFFICES ASSUME Init PROVE Inv
  OBVIOUS
<1> USE QueueAssumption DEF Init
<1>1. Typed
  <2>1. Cardinality(mutex) = 0
    BY FS_EmptySet
  <2> QED
    BY <2>1 DEF Typed, TypeOK, Slots, Labels, Threads, Entries
<1>2. MutexHeld /\ SleepersWoken
  BY DEF MutexHeld, SleepersWoken, Threads
<1>3. Life
  BY DEF Life, Allocated, Enqueuing, Threads
<1>4. Ring
  BY DEF Ring, Allocated
<1>5. EntriesDistinct
  BY DEF EntriesDistinct, Taken, Holding, Allocated, Threads
<1> QED
  BY <1>1, <1>2, <1>3, <1>4, <1>5 DEF Inv

(* Entries are stored and popped only while the queue is open. *)
LEMMA OpenInside ==
    ASSUME Inv
    PROVE  /\ \A p \in Producers :
                 pc[p] # "idle" /\ (p \in Waiting => ~stop) => control = "running" /\ Allocated
           /\ ~stop /\ count > 0 => control = "running" /\ Allocated
BY DEF Inv, Life, Typed, TypeOK, Enqueuing

LEMMA MutexStep ==
    ASSUME [Next]_vars
    PROVE  mutex' = mutex \/ \E x \in Threads : mutex' \subseteq {x}
<1> USE DEF Threads
<1>1. ASSUME NEW p \in Producers, Produce(p) PROVE \E x \in Threads : mutex' \subseteq {x} \/ mutex' = mutex
  BY <1>1 DEF Produce, EnqueueStopped, Enqueue, Store, StoreUnchecked, GiveUp, AwaitSpace,
              NotifyWorker, NotifyOne, Sleep
<1>2. ASSUME NEW w \in Workers, Process(w) PROVE \E x \in Threads : mutex' \subseteq {x} \/ mutex' = mutex
  BY <1>2 DEF Process, CheckStop, LeaveStopped, Pop, AwaitEntry, LeaveLoop, NotifyProducer,
              NotifyOne, Handle, Sleep
<1>3. CASE Start \/ StopSet \/ Stop \/ \E x \in Threads : Poll(x)
  BY <1>3 DEF Start, StartReset, StartUnreset, StartThreads, StartBuffer, StopSet, Stop,
              StopLock, StopNotify, StopJoin, Poll
<1> QED
  BY <1>1, <1>2, <1>3 DEF Next, vars

LEMMA TypedStep ==
    ASSUME Inv, [Next]_vars
    PROVE  Typed'
<1> USE QueueAssumption DEF ring, counters, history, Threads, None
<1>0. /\ head \in Slots /\ tail \in Slots /\ count \in 0 .. BufferSize
      /\ pc \in [Threads -> Labels]
      /\ entry \in [Threads -> Entries \cup {None}]
      /\ added \subseteq Entries /\ handled \subseteq Entries
      /\ entries \in 0 .. MaxEntries /\ starts \in 0 .. MaxStarts /\ polls \in 0 .. MaxPolls
  BY DEF Inv, Typed, TypeOK
<1>a. Allocated => buffer \in [Slots -> Entries \cup {None}]
  BY DEF Inv, Typed, TypeOK, Allocated
<1>1. mutex' \subseteq Threads /\ Cardinality(mutex') <= 1
  <2>1. CASE mutex' = mutex
    BY <2>1 DEF Inv, Typed, TypeOK
  <2>2. ASSUME NEW x \in Threads, mutex' \subseteq {x} PROVE mutex' \subseteq Threads /\ Cardinality(mutex') <= 1
    <3>1. Cardinality({}) = 0 /\ Cardinality({x}) = 1
      BY FS_EmptySet, FS_Singleton
    <3>2. mutex' = {} \/ mutex' = {x}
      BY <2>2
    <3> QED
      BY <3>1, <3>2
  <2> QED
    BY <2>1, <2>2, MutexStep
<1>2. ASSUME NEW p \in Producers, Produce(p) PROVE Typed'
  <2> USE <1>0, <1>1 DEF Inv, Typed, TypeOK, Goto, Labels
  <2>1. CASE EnqueueStopped(p)
    BY <2>1 DEF EnqueueStopped
  <2>2. CASE Enqueue(p)
    BY <2>2 DEF Enqueue, Entries
  <2>3. CASE Store(p)
    <3>1. Allocated
      BY <2>3, OpenInside DEF Store, StoreUnchecked
    <3>2. tail' \in Slots
      BY <2>3, PositionValue DEF Store, StoreUnchecked
    <3>3. entry[p] \in Entries
      BY <2>3 DEF Store, StoreUnchecked, EntriesDistinct, Holding, Entries
    <3> QED
      BY <1>a, <2>3, <3>1, <3>2, <3>3 DEF Store, StoreUnchecked
  <2>4. CASE GiveUp(p)
    BY <2>4 DEF GiveUp
  <2>5. CASE AwaitSpace(p) \/ Sleep(p)
    BY <2>5 DEF AwaitSpace, Sleep
  <2>6. CASE NotifyWorker(p)
    BY <2>6 DEF NotifyWorker, NotifyOne
  <2> QED
    BY <1>2, <2>1, <2>2, <2>3, <2>4, <2>5, <2>6 DEF Produce
<1>3. ASSUME NEW w \in Workers, Process(w) PROVE Typed'
  <2> USE <1>0, <1>1 DEF Inv, Typed, TypeOK, Goto, Labels
  <2>1. CASE CheckStop(w) \/ LeaveStopped(w)
    BY <2>1 DEF CheckStop, LeaveStopped
  <2>2. CASE Pop(w)
    <3>1. Allocated
      BY <2>2, OpenInside DEF Pop
    <3>2. head' \in Slots
      BY <2>2, PositionValue DEF Pop
    <3> QED
      BY <1>a, <2>2, <3>1, <3>2 DEF Pop
  <2>3. CASE AwaitEntry(w) \/ LeaveLoop(w) \/ Sleep(w)
    BY <2>3 DEF AwaitEntry, LeaveLoop, Sleep
  <2>4. CASE NotifyProducer(w)
    BY <2>4 DEF NotifyProducer, NotifyOne
  <2>5. CASE Handle(w)
    BY <2>5 DEF Handle
  <2> QED
    BY <1>3, <2>1, <2>2, <2>3, <2>4, <2>5 DEF Process
<1>4. CASE Start \/ StopSet \/ Stop
  <2> USE <1>0, <1>1 DEF Inv, Typed, TypeOK, Labels
  <2>1. CASE StartReset
    <3>1. 0 \in Slots /\ 0 \in 0 .. BufferSize /\ starts' \in 0 .. MaxStarts
      BY <2>1 DEF StartReset, StartUnreset, Slots
    <3> QED
      BY <2>1, <3>1 DEF StartReset, StartUnreset
  <2>2. CASE StartThreads
    BY <2>2 DEF StartThreads
  <2>3. CASE StartBuffer
    BY <2>3 DEF StartBuffer
  <2>4. CASE StopSet \/ StopLock
    BY <2>4 DEF StopSet, StopLock
  <2>5. CASE StopNotify
    BY <2>5 DEF StopNotify
  <2>6. CASE StopJoin
    BY <2>6 DEF StopJoin
  <2> QED
    BY <1>4, <2>1, <2>2, <2>3, <2>4, <2>5, <2>6 DEF Start, Stop
<1>5. ASSUME NEW x \in Threads, Poll(x) PROVE Typed'
  BY <1>0, <1>1, <1>5 DEF Poll, Inv, Typed, TypeOK, Goto, Labels
<1>6. CASE UNCHANGED vars
  BY <1>6 DEF vars, Inv, Typed, TypeOK
<1> QED
  BY <1>2, <1>3, <1>4, <1>5, <1>6 DEF Next

LEMMA MutexHeldStep ==
    ASSUME Inv, [Next]_vars
    PROVE  MutexHeld'
<1> USE DEF MutexHeld, Goto, Threads
<1>0. /\ pc \in [Threads -> Labels] /\ MutexHeld
      /\ Producers \cap Workers = {} /\ mutex \subseteq Threads
  BY QueueAssumption DEF Inv, Typed, TypeOK
<1>1. ASSUME NEW p \in Producers, Produce(p) PROVE MutexHeld'
  <2> USE <1>0
  <2>1. CASE EnqueueStopped(p) \/ Enqueue(p)
    BY <2>1 DEF EnqueueStopped, Enqueue
  <2>2. CASE Store(p) \/ GiveUp(p)
    BY <2>2 DEF Store, StoreUnchecked, GiveUp
  <2>3. CASE AwaitSpace(p)
    BY <2>3 DEF AwaitSpace
  <2>4. CASE NotifyWorker(p)
    BY <2>4 DEF NotifyWorker, NotifyOne
  <2>5. CASE Sleep(p)
    BY <2>5 DEF Sleep
  <2> QED
    BY <1>1, <2>1, <2>2, <2>3, <2>4, <2>5 DEF Produce
<1>2. ASSUME NEW w \in Workers, Process(w) PROVE MutexHeld'
  <2> USE <1>0
  <2>1. CASE CheckStop(w) \/ LeaveStopped(w) \/ Pop(w)
    BY <2>1 DEF CheckStop, LeaveStopped, Pop
  <2>2. CASE AwaitEntry(w)
    BY <2>2 DEF AwaitEntry
  <2>3. CASE LeaveLoop(w) \/ Handle(w)
    BY <2>3 DEF LeaveLoop, Handle
  <2>4. CASE NotifyProducer(w)
    BY <2>4 DEF NotifyProducer, NotifyOne
  <2>5. CASE Sleep(w)
    BY <2>5 DEF Sleep
  <2> QED
    BY <1>2, <2>1, <2>2, <2>3, <2>4, <2>5 DEF Process
<1>3. CASE Start
  <2>1. CASE StartThreads
    BY <1>0, <2>1 DEF StartThreads, Inv, Life
  <2>2. CASE StartReset \/ StartBuffer
    BY <1>0, <2>2 DEF StartReset, StartUnreset, StartBuffer
  <2> QED
    BY <1>3, <2>1, <2>2 DEF Start
<1>4. CASE StopSet \/ Stop
  BY <1>0, <1>4 DEF StopSet, Stop, StopLock, StopNotify, StopJoin
<1>5. ASSUME NEW x \in Threads, Poll(x) PROVE MutexHeld'
  BY <1>0, <1>5 DEF Poll
<1>6. CASE UNCHANGED vars
  BY <1>0, <1>6 DEF vars
<1> QED
  BY <1>1, <1>2, <1>3, <1>4, <1>5, <1>6 DEF Next

LEMMA SleepersWokenStep ==
    ASSUME Inv, [Next]_vars
    PROVE  SleepersWoken'
<1> USE DEF SleepersWoken, MutexHeld, Goto, Threads, ring
<1>0. /\ pc \in [Threads -> Labels] /\ SleepersWoken /\ MutexHeld
      /\ Producers \cap Workers = {} /\ mutex \subseteq Threads
      /\ count \in 0 .. BufferSize /\ BufferSize \in Nat
      /\ stop <=> control \in {"stopped", "stopSet", "notify", "join"}
  BY QueueAssumption DEF Inv, Typed, TypeOK, Life
<1>1. ASSUME NEW p \in Producers, Produce(p) PROVE SleepersWoken'
  <2> USE <1>0
  <2>1. CASE EnqueueStopped(p) \/ Enqueue(p)
    BY <2>1 DEF EnqueueStopped, Enqueue
  <2>2. CASE Store(p) \/ GiveUp(p)
    BY <2>2 DEF Store, StoreUnchecked, GiveUp
  <2>3. CASE AwaitSpace(p)
    BY <2>3, OpenInside DEF AwaitSpace
  <2>4. CASE NotifyWorker(p)
    BY <2>4 DEF NotifyWorker, NotifyOne
  <2>5. CASE Sleep(p)
    BY <2>5 DEF Sleep
  <2> QED
    BY <1>1, <2>1, <2>2, <2>3, <2>4, <2>5 DEF Produce
<1>2. ASSUME NEW w \in Workers, Process(w) PROVE SleepersWoken'
  <2> USE <1>0
  <2>1. CASE CheckStop(w) \/ LeaveStopped(w) \/ Pop(w)
    BY <2>1 DEF CheckStop, LeaveStopped, Pop
  <2>2. CASE AwaitEntry(w)
    <3>1. control \in {"spawned", "running"}
      BY <2>2 DEF AwaitEntry, Inv, Typed, TypeOK, Life
    <3> QED
      BY <2>2, <3>1 DEF AwaitEntry
  <2>3. CASE LeaveLoop(w) \/ Handle(w)
    BY <2>3 DEF LeaveLoop, Handle
  <2>4. CASE NotifyProducer(w)
    BY <2>4 DEF NotifyProducer, NotifyOne
  <2>5. CASE Sleep(w)
    BY <2>5 DEF Sleep
  <2> QED
    BY <1>2, <2>1, <2>2, <2>3, <2>4, <2>5 DEF Process
<1>3. CASE Start
  <2>1. CASE StartReset
    BY <1>0, <2>1 DEF StartReset, StartUnreset
  <2>2. CASE StartThreads \/ StartBuffer
    BY <1>0, <2>2 DEF StartThreads, StartBuffer, Inv, Life
  <2> QED
    BY <1>3, <2>1, <2>2 DEF Start
<1>4. CASE StopSet \/ Stop
  <2>1. CASE StopSet
    BY <1>0, <2>1 DEF StopSet
  <2>2. CASE StopLock
    BY <1>0, <2>2 DEF StopLock
  <2>3. CASE StopNotify
    BY <1>0, <2>3 DEF StopNotify
  <2>4. CASE StopJoin
    BY <1>0, <2>4 DEF StopJoin
  <2> QED
    BY <1>4, <2>1, <2>2, <2>3, <2>4 DEF Stop
<1>5. ASSUME NEW x \in Threads, Poll(x) PROVE SleepersWoken'
  BY <1>0, <1>5 DEF Poll
<1>6. CASE UNCHANGED vars
  BY <1>0, <1>6 DEF vars
<1> QED
  BY <1>1, <1>2, <1>3, <1>4, <1>5, <1>6 DEF Next

LEMMA LifeStep ==
    ASSUME Inv, [Next]_vars
    PROVE  Life'
<1> USE DEF Goto, Threads, ring, Labels, Allocated, Enqueuing, Life
<1>0. /\ pc \in [Threads -> Labels] /\ Life
      /\ Producers \cap Workers = {} /\ Waiting \subseteq Producers
      /\ control \in {"stopped", "reset", "spawned", "running", "stopSet", "notify", "join"}
      /\ stop \in BOOLEAN /\ count \in 0 .. BufferSize /\ BufferSize \in Nat
      /\ Allocated => buffer \in [Slots -> Entries \cup {None}]
  BY QueueAssumption DEF Inv, Typed, TypeOK
<1>a. \A f : f \in [Slots -> Entries \cup {None}] => f # <<>>
  <2>1. 0 \in Slots /\ 0 \notin {}
    BY QueueAssumption DEF Slots
  <2> QED
    BY <2>1
<1>1. ASSUME NEW p \in Producers, Produce(p) PROVE Life'
  <2> USE <1>0
  <2>1. CASE EnqueueStopped(p) \/ Enqueue(p)
    BY <2>1 DEF EnqueueStopped, Enqueue
  <2>2. CASE Store(p)
    <3>1. control = "running" /\ Allocated
      BY <2>2, OpenInside DEF Store, StoreUnchecked
    <3>2. Allocated'
      BY <1>a, <2>2, <3>1 DEF Store, StoreUnchecked
    <3> QED
      BY <2>2, <3>1, <3>2 DEF Store, StoreUnchecked
  <2>3. CASE GiveUp(p) \/ AwaitSpace(p) \/ Sleep(p)
    BY <2>3 DEF GiveUp, AwaitSpace, Sleep
  <2>4. CASE NotifyWorker(p)
    BY <2>4 DEF NotifyWorker, NotifyOne
  <2> QED
    BY <1>1, <2>1, <2>2, <2>3, <2>4 DEF Produce
<1>2. ASSUME NEW w \in Workers, Process(w) PROVE Life'
  <2> USE <1>0
  <2>1. CASE CheckStop(w) \/ LeaveStopped(w)
    BY <2>1 DEF CheckStop, LeaveStopped
  <2>2. CASE Pop(w)
    BY <2>2, OpenInside DEF Pop
  <2>3. CASE AwaitEntry(w) \/ LeaveLoop(w) \/ Sleep(w) \/ Handle(w)
    BY <2>3 DEF AwaitEntry, LeaveLoop, Sleep, Handle
  <2>4. CASE NotifyProducer(w)
    BY <2>4 DEF NotifyProducer, NotifyOne
  <2> QED
    BY <1>2, <2>1, <2>2, <2>3, <2>4 DEF Process
<1>3. CASE Start
  <2>1. CASE StartReset
    BY <1>0, <2>1 DEF StartReset, StartUnreset
  <2>2. CASE StartThreads
    BY <1>0, <2>2 DEF StartThreads
  <2>3. CASE StartBuffer
    <3>1. Allocated'
      BY <1>a, <2>3 DEF StartBuffer
    <3> QED
      BY <1>0, <2>3, <3>1 DEF StartBuffer
  <2> QED
    BY <1>3, <2>1, <2>2, <2>3 DEF Start
<1>4. CASE StopSet \/ Stop
  <2>1. CASE StopSet \/ StopLock
    BY <1>0, <2>1 DEF StopSet, StopLock
  <2>2. CASE StopNotify
    BY <1>0, <2>2 DEF StopNotify
  <2>3. CASE StopJoin
    BY <1>0, <2>3 DEF StopJoin
  <2> QED
    BY <1>4, <2>1, <2>2, <2>3 DEF Stop
<1>5. ASSUME NEW x \in Threads, Poll(x) PROVE Life'
  BY <1>0, <1>5 DEF Poll
<1>6. CASE UNCHANGED vars
  BY <1>0, <1>6 DEF vars
<1> QED
  BY <1>1, <1>2, <1>3, <1>4, <1>5, <1>6 DEF Next

-----------------------------------------------------------------------------
(* The ring and the entries                                                *)

(* Window in terms of positions, and the slot behind it. *)
LEMMA WindowPositions ==
    ASSUME Inv
    PROVE  /\ \A k : k \in Window <=> \E i \in 0 .. count - 1 : k = (head + i) % BufferSize
           /\ Window \subseteq Slots
           /\ count < BufferSize => (head + count) % BufferSize \notin Window
           /\ count > 0 => head \in Window
<1>0. /\ BufferSize \in Nat /\ BufferSize > 0 /\ head \in Slots /\ count \in 0 .. BufferSize
      /\ head \in 0 .. BufferSize - 1
  BY QueueAssumption DEF Inv, Typed, TypeOK, Slots
<1>1. \A k : k \in Window <=> \E i \in 0 .. count - 1 : k = (head + i) % BufferSize
  BY DEF Window
<1>2. Window \subseteq Slots
  <2> SUFFICES ASSUME NEW i \in 0 .. count - 1 PROVE (head + i) % BufferSize \in Slots
    BY <1>1
  <2>1. i \in 0 .. BufferSize
    BY <1>0
  <2> QED
    BY <1>0, <2>1, PositionValue
<1>3. ASSUME count < BufferSize PROVE (head + count) % BufferSize \notin Window
  <2> SUFFICES ASSUME NEW i \in 0 .. count - 1,
                      (head + count) % BufferSize = (head + i) % BufferSize
               PROVE  FALSE
    BY <1>1
  <2>1. i \in Slots /\ count \in Slots /\ i # count
    BY <1>0, <1>3 DEF Slots
  <2> QED
    BY <1>0, <2>1, PositionInjective
<1>4. ASSUME count > 0 PROVE head \in Window
  <2>1. 0 \in 0 .. BufferSize /\ 0 \in 0 .. count - 1
    BY <1>0, <1>4
  <2>2. (head + 0) % BufferSize = head
    BY <1>0, <2>1, PositionValue
  <2> QED
    BY <1>1, <2>1, <2>2
<1> QED
  BY <1>1, <1>2, <1>3, <1>4

(* Storing adds the slot behind the window to it. *)
LEMMA WindowStore ==
    ASSUME Inv, count < BufferSize, count' = count + 1, head' = head
    PROVE  Window' = Window \cup {(head + count) % BufferSize}
<1>1. count \in Nat
  BY QueueAssumption DEF Inv, Typed, TypeOK
<1>2. \A i : i \in 0 .. count' - 1 <=> i \in 0 .. count - 1 \/ i = count
  BY <1>1
<1> QED
  BY <1>2 DEF Window

(* Popping takes the first slot off the window. *)
LEMMA WindowPop ==
    ASSUME Inv, count > 0, count' = count - 1, head' = (head + 1) % BufferSize
    PROVE  Window' = Window \ {head}
<1>0. /\ BufferSize \in Nat /\ BufferSize > 0 /\ head \in Slots /\ count \in 0 .. BufferSize
      /\ head \in 0 .. BufferSize - 1
  BY QueueAssumption DEF Inv, Typed, TypeOK, Slots
<1>1. \A k : k \in Window' <=> \E i \in 0 .. count' - 1 : k = (head' + i) % BufferSize
  BY DEF Window
<1>2. \A k : k \in Window <=> \E i \in 0 .. count - 1 : k = (head + i) % BufferSize
  BY WindowPositions
<1>3. \A i \in 0 .. count - 1 : i \in Slots /\ 0 \in Slots
  BY <1>0 DEF Slots
<1>4. (head + 0) % BufferSize = head
  <2>1. 0 \in 0 .. BufferSize
    BY <1>0
  <2> QED
    BY <1>0, <2>1, PositionValue
<1>5. \A i \in 0 .. count' - 1 : (head' + i) % BufferSize = (head + (i + 1)) % BufferSize
  <2> SUFFICES ASSUME NEW i \in 0 .. count' - 1
               PROVE  (head' + i) % BufferSize = (head + (i + 1)) % BufferSize
    OBVIOUS
  <2>1. i \in Slots
    BY <1>0 DEF Slots
  <2> QED
    BY <1>0, <2>1, PositionNext
<1>6. ASSUME NEW k \in Window' PROVE k \in Window \ {head}
  <2>1. PICK i \in 0 .. count' - 1 : k = (head + (i + 1)) % BufferSize
    BY <1>1, <1>5, <1>6
  <2>2. i + 1 \in 0 .. count - 1 /\ i + 1 # 0
    BY <1>0, <2>1
  <2>3. k # head
    BY <1>0, <1>3, <1>4, <2>1, <2>2, PositionInjective
  <2> QED
    BY <1>2, <2>1, <2>2, <2>3
<1>7. ASSUME NEW k \in Window \ {head} PROVE k \in Window'
  <2>1. PICK i \in 0 .. count - 1 : k = (head + i) % BufferSize
    BY <1>2, <1>7
  <2>2. i # 0
    BY <1>4, <1>7, <2>1
  <2>3. PICK j \in 0 .. count' - 1 : i = j + 1
    <3>1. i - 1 \in 0 .. count' - 1 /\ i = (i - 1) + 1
      BY <1>0, <2>1, <2>2
    <3> QED
      BY <3>1
  <2>4. k = (head' + j) % BufferSize
    BY <1>5, <2>1, <2>3
  <2> QED
    BY <1>1, <2>4
<1> QED
  BY <1>6, <1>7

LEMMA RingStep ==
    ASSUME Inv, [Next]_vars
    PROVE  Ring'
<1> USE DEF ring
<1>0. /\ BufferSize \in Nat /\ head \in Slots /\ tail \in Slots /\ count \in 0 .. BufferSize
      /\ Allocated => buffer \in [Slots -> Entries \cup {None}]
      /\ \A e \in Entries : e # None
  BY QueueAssumption DEF Inv, Typed, TypeOK, Allocated, Entries, None
<1>a. UNCHANGED ring => Ring'
  BY DEF Inv, Ring, Allocated, Window
<1>1. ASSUME NEW p \in Producers, Produce(p) PROVE Ring'
  <2>1. CASE Store(p)
    <3>1. Allocated /\ entry[p] \in Entries /\ count < BufferSize
      <4>1. Allocated /\ count < BufferSize /\ p \in Holding
        BY <2>1, OpenInside DEF Store, StoreUnchecked, Goto, Holding
      <4>2. entry[p] \in 1 .. entries /\ entries \in 0 .. MaxEntries
        BY <4>1 DEF Inv, EntriesDistinct, Typed, TypeOK
      <4> QED
        BY <4>1, <4>2, QueueAssumption DEF Entries
    <3>2. /\ buffer' = [buffer EXCEPT ![tail] = entry[p]]
          /\ tail' = (tail + 1) % BufferSize
          /\ count' = count + 1 /\ head' = head
      BY <2>1 DEF Store, StoreUnchecked
    <3>3. tail = (head + count) % BufferSize
      BY <3>1 DEF Inv, Ring
    <3>4. Window' = Window \cup {tail} /\ tail \notin Window /\ Window \subseteq Slots
      BY <3>1, <3>2, <3>3, WindowStore, WindowPositions
    <3>5. tail' = (head' + count') % BufferSize
      <4>1. count \in Slots
        BY <1>0, <3>1 DEF Slots
      <4> QED
        BY <1>0, <3>2, <3>3, <4>1, PositionNext
    <3>6. \A i \in Slots : buffer'[i] = IF i = tail THEN entry[p] ELSE buffer[i]
      BY <1>0, <3>1, <3>2
    <3>7. \A i \in Slots : buffer[i] # None => buffer[i] # entry[p]
      BY <2>1, <3>1 DEF Inv, EntriesDistinct, Holding, Store, StoreUnchecked, Goto
    <3>8. \A i \in Slots : buffer'[i] # None <=> i \in Window'
      BY <1>0, <3>1, <3>4, <3>6 DEF Inv, Ring
    <3>9. \A i, j \in Window' : buffer'[i] = buffer'[j] => i = j
      BY <1>0, <3>1, <3>4, <3>6, <3>7 DEF Inv, Ring
    <3> QED
      BY <3>5, <3>8, <3>9 DEF Ring
  <2>2. CASE ~Store(p)
    BY <1>1, <1>a, <2>2 DEF Produce, EnqueueStopped, Enqueue, GiveUp, AwaitSpace, NotifyWorker,
                            NotifyOne, Sleep
  <2> QED
    BY <2>1, <2>2
<1>2. ASSUME NEW w \in Workers, Process(w) PROVE Ring'
  <2>1. CASE Pop(w)
    <3>1. Allocated /\ count > 0
      BY <2>1, OpenInside DEF Pop
    <3>2. /\ buffer' = [buffer EXCEPT ![head] = None]
          /\ head' = (head + 1) % BufferSize
          /\ count' = count - 1 /\ tail' = tail
      BY <2>1 DEF Pop
    <3>3. Window' = Window \ {head} /\ head \in Window /\ Window \subseteq Slots
      BY <3>1, <3>2, WindowPop, WindowPositions
    <3>4. tail' = (head' + count') % BufferSize
      <4>1. count - 1 \in Slots /\ (count - 1) + 1 = count
        BY <1>0, <3>1 DEF Slots
      <4>2. (((head + 1) % BufferSize) + (count - 1)) % BufferSize = (head + count) % BufferSize
        BY <1>0, <4>1, PositionNext
      <4> QED
        BY <3>1, <3>2, <4>2 DEF Inv, Ring
    <3>5. \A i \in Slots : buffer'[i] = IF i = head THEN None ELSE buffer[i]
      BY <1>0, <3>1, <3>2
    <3>6. \A i \in Slots : buffer'[i] # None <=> i \in Window'
      BY <3>1, <3>3, <3>5 DEF Inv, Ring
    <3>7. \A i, j \in Window' : buffer'[i] = buffer'[j] => i = j
      BY <3>1, <3>3, <3>5 DEF Inv, Ring
    <3> QED
      BY <3>4, <3>6, <3>7 DEF Ring
  <2>2. CASE ~Pop(w)
    BY <1>2, <1>a, <2>2 DEF Process, CheckStop, LeaveStopped, AwaitEntry, LeaveLoop,
                            NotifyProducer, NotifyOne, Handle, Sleep
  <2> QED
    BY <2>1, <2>2
<1>3. CASE Start
  <2>1. CASE StartReset
    BY <2>1 DEF StartReset, StartUnreset, Ring, Allocated, Inv, Life
  <2>2. CASE StartThreads
    BY <1>a, <2>2 DEF StartThreads
  <2>3. CASE StartBuffer
    <3>1. /\ buffer' = [i \in Slots |-> None]
          /\ head' = 0 /\ tail' = 0 /\ count' = 0
      BY <2>3 DEF StartBuffer, Inv, Life
    <3>2. Window' = {}
      BY <3>1 DEF Window
    <3>3. (0 + 0) % BufferSize = 0
      <4>1. 0 \in Slots /\ 0 \in 0 .. BufferSize
        BY QueueAssumption DEF Slots
      <4> QED
        BY <1>0, <4>1, QueueAssumption, PositionValue
    <3> QED
      BY <3>1, <3>2, <3>3 DEF Ring
  <2> QED
    BY <1>3, <2>1, <2>2, <2>3 DEF Start
<1>4. CASE StopSet \/ Stop
  <2>1. CASE StopJoin
    BY <2>1 DEF StopJoin, Ring, Allocated
  <2>2. CASE ~StopJoin
    BY <1>4, <1>a, <2>2 DEF StopSet, Stop, StopLock, StopNotify
  <2> QED
    BY <2>1, <2>2
<1>5. ASSUME NEW x \in Threads, Poll(x) PROVE Ring'
  BY <1>5, <1>a DEF Poll
<1>6. CASE UNCHANGED vars
  BY <1>6, <1>a DEF vars
<1> QED
  BY <1>1, <1>2, <1>3, <1>4, <1>5, <1>6 DEF Next

LEMMA EntriesStep ==
    ASSUME Inv, [Next]_vars
    PROVE  EntriesDistinct'
<1> USE DEF ring, counters, history, Goto
<1>0. /\ pc \in [Threads -> Labels] /\ entry \in [Threads -> Entries \cup {None}]
      /\ Producers \cap Workers = {} /\ Threads = Producers \cup Workers
      /\ head \in Slots /\ tail \in Slots /\ entries \in 0 .. MaxEntries /\ MaxEntries \in Nat
      /\ Allocated => buffer \in [Slots -> Entries \cup {None}]
      /\ \A e \in Entries : e # None
      /\ EntriesDistinct
  BY QueueAssumption DEF Inv, Typed, TypeOK, Allocated, Entries, None, Threads
<1>a. ASSUME Holding' = Holding, UNCHANGED <<buffer, entry, entries, added, handled>>,
             \A v \in Workers : pc[v] \in {"popped", "handle"} <=> pc'[v] \in {"popped", "handle"}
      PROVE  EntriesDistinct'
  BY <1>0, <1>a DEF EntriesDistinct, Taken, Allocated
<1>1. ASSUME NEW p \in Producers, Produce(p) PROVE EntriesDistinct'
  <2>1. CASE EnqueueStopped(p)
    <3>1. 1 .. entries \subseteq 1 .. entries'
      BY <1>0, <2>1 DEF EnqueueStopped
    <3> QED
      BY <1>0, <2>1, <3>1 DEF EnqueueStopped, EntriesDistinct, Holding, Taken, Allocated
  <2>2. CASE Enqueue(p)
    <3>1. /\ 1 .. entries \subseteq 1 .. entries' /\ entries' \in 1 .. entries'
          /\ entries' \notin 1 .. entries
      BY <1>0, <2>2 DEF Enqueue
    <3>2. Holding' = Holding \cup {p} /\ p \notin Holding
      BY <1>0, <2>2 DEF Enqueue, Holding
    <3>3. entry' = [entry EXCEPT ![p] = entries'] /\ UNCHANGED <<buffer, added, handled>>
      BY <2>2 DEF Enqueue
    <3>4. Taken' = Taken
      BY <1>0, <3>3 DEF Taken
    <3>5. \A w \in Workers : entry'[w] = entry[w] /\ pc'[w] = pc[w]
      BY <1>0, <2>2 DEF Enqueue
    <3>6. entry'[p] = entries' /\ \A q \in Holding : entry'[q] = entry[q]
      BY <1>0, <3>2, <3>3 DEF Holding
    <3>7. entries' \notin added
      BY <1>0, <3>1 DEF EntriesDistinct
    <3>8. \A q \in Holding' : entry'[q] \in (1 .. entries') \ added'
      BY <1>0, <3>1, <3>2, <3>3, <3>6, <3>7 DEF EntriesDistinct
    <3>9. \A q, r \in Holding' : entry'[q] = entry'[r] => q = r
      BY <1>0, <3>1, <3>2, <3>6 DEF EntriesDistinct
    <3>10. added' \subseteq 1 .. entries' /\ Taken' \subseteq added'
      BY <1>0, <3>1, <3>3, <3>4 DEF EntriesDistinct
    <3>11. Allocated' => \A i \in Slots : buffer'[i] # None => buffer'[i] \in added' \ Taken'
      BY <1>0, <3>3, <3>4 DEF EntriesDistinct, Allocated
    <3> QED
      BY <1>0, <3>5, <3>8, <3>9, <3>10, <3>11 DEF EntriesDistinct
  <2>3. CASE Store(p)
    <3>1. Allocated /\ p \in Holding
      BY <2>3, OpenInside DEF Store, StoreUnchecked, Holding
    <3>2. /\ buffer' = [buffer EXCEPT ![tail] = entry[p]]
          /\ added' = added \cup {entry[p]}
          /\ UNCHANGED <<entry, entries, handled>>
          /\ pc' = [pc EXCEPT ![p] = "notify"]
      BY <2>3 DEF Store, StoreUnchecked
    <3>3. Holding' = Holding \ {p}
      BY <1>0, <3>2 DEF Holding
    <3>4. Taken' = Taken /\ entry[p] \notin Taken /\ entry[p] \in 1 .. entries
      BY <1>0, <3>1, <3>2 DEF Taken, EntriesDistinct
    <3>5. \A i \in Slots : buffer'[i] = IF i = tail THEN entry[p] ELSE buffer[i]
      BY <1>0, <3>1, <3>2
    <3>6. \A w \in Workers : pc'[w] = pc[w]
      BY <1>0, <3>2
    <3>7. added' \subseteq 1 .. entries' /\ Taken' \subseteq added'
      BY <1>0, <3>2, <3>4 DEF EntriesDistinct
    <3>8. \A q \in Holding' : entry'[q] \in (1 .. entries') \ added'
      BY <1>0, <3>1, <3>2, <3>3 DEF EntriesDistinct
    <3>9. \A i \in Slots : buffer'[i] # None => buffer'[i] \in added' \ Taken'
      BY <1>0, <3>1, <3>2, <3>4, <3>5 DEF EntriesDistinct
    <3> QED
      BY <1>0, <3>2, <3>3, <3>6, <3>7, <3>8, <3>9 DEF EntriesDistinct
  <2>4. CASE GiveUp(p)
    <3>1. /\ Holding' = Holding \ {p}
          /\ \A x \in Threads : x # p => entry'[x] = entry[x] /\ pc'[x] = pc[x]
      BY <1>0, <2>4 DEF GiveUp, Holding
    <3>2. Taken' = Taken /\ Holding \subseteq Threads
      BY <1>0, <2>4, <3>1 DEF GiveUp, Taken, Holding
    <3> QED
      BY <1>0, <2>4, <3>1, <3>2 DEF GiveUp, EntriesDistinct, Allocated
  <2>5. CASE AwaitSpace(p) \/ Sleep(p)
    <3>1. Holding' = Holding /\ \A w \in Workers : pc'[w] = pc[w]
      BY <1>0, <2>5 DEF AwaitSpace, Sleep, Holding
    <3>2. UNCHANGED <<buffer, entry, entries, added, handled>>
      BY <2>5 DEF AwaitSpace, Sleep
    <3> QED
      BY <1>a, <3>1, <3>2
  <2>6. CASE NotifyWorker(p)
    <3>1. /\ Holding' = Holding
          /\ \A w \in Workers : pc[w] \in {"popped", "handle"} <=> pc'[w] \in {"popped", "handle"}
      BY <1>0, <2>6 DEF NotifyWorker, NotifyOne, Holding
    <3>2. UNCHANGED <<buffer, entry, entries, added, handled>>
      BY <2>6 DEF NotifyWorker, NotifyOne
    <3> QED
      BY <1>a, <3>1, <3>2
  <2> QED
    BY <1>1, <2>1, <2>2, <2>3, <2>4, <2>5, <2>6 DEF Produce
<1>2. ASSUME NEW w \in Workers, Process(w) PROVE EntriesDistinct'
  <2>1. CASE CheckStop(w) \/ LeaveStopped(w) \/ AwaitEntry(w) \/ LeaveLoop(w) \/ Sleep(w)
    <3>1. /\ Holding' = Holding
          /\ \A v \in Workers : pc[v] \in {"popped", "handle"} <=> pc'[v] \in {"popped", "handle"}
      BY <1>0, <2>1 DEF CheckStop, LeaveStopped, AwaitEntry, LeaveLoop, Sleep, Holding
    <3>2. UNCHANGED <<buffer, entry, entries, added, handled>>
      BY <2>1 DEF CheckStop, LeaveStopped, AwaitEntry, LeaveLoop, Sleep
    <3> QED
      BY <1>a, <3>1, <3>2
  <2>2. CASE Pop(w)
    <3>1. Allocated /\ count > 0 /\ head \in Window
      BY <2>2, OpenInside, WindowPositions DEF Pop
    <3>2. /\ entry' = [entry EXCEPT ![w] = buffer[head]]
          /\ buffer' = [buffer EXCEPT ![head] = None]
          /\ UNCHANGED <<entries, added, handled>>
          /\ pc' = [pc EXCEPT ![w] = "popped"]
          /\ pc[w] \in {"lock", "again"}
      BY <2>2 DEF Pop
    <3>3. buffer[head] # None /\ buffer[head] \in added \ Taken
      BY <1>0, <3>1 DEF Inv, Ring, EntriesDistinct
    <3>4. entry[w] = None
      BY <1>0, <3>2 DEF EntriesDistinct
    <3>5. Holding' = Holding /\ \A q \in Holding : entry'[q] = entry[q]
      BY <1>0, <3>2 DEF Holding
    <3>6. \A v \in Workers : entry'[v] = (IF v = w THEN buffer[head] ELSE entry[v])
      BY <1>0, <3>2
    <3>7. Taken' = Taken \cup {buffer[head]}
      BY <3>2, <3>3, <3>4, <3>6 DEF Taken
    <3>8. \A i \in Slots : buffer'[i] = IF i = head THEN None ELSE buffer[i]
      BY <1>0, <3>1, <3>2
    <3>9. \A i \in Slots : buffer'[i] # None => buffer'[i] # buffer[head]
      BY <3>1, <3>8 DEF Inv, Ring
    <3>10. \A i \in Slots : buffer'[i] # None => buffer'[i] \in added' \ Taken'
      BY <1>0, <3>1, <3>2, <3>7, <3>8, <3>9 DEF EntriesDistinct
    <3>11. \A v \in Workers : entry'[v] # None <=> pc'[v] \in {"popped", "handle"}
      BY <1>0, <3>2, <3>3, <3>6 DEF EntriesDistinct
    <3>12. added' \subseteq 1 .. entries' /\ Taken' \subseteq added'
      BY <1>0, <3>2, <3>3, <3>7 DEF EntriesDistinct
    <3>13. /\ \A q \in Holding' : entry'[q] \in (1 .. entries') \ added'
           /\ \A q, r \in Holding' : entry'[q] = entry'[r] => q = r
      BY <1>0, <3>2, <3>5 DEF EntriesDistinct
    <3> QED
      BY <3>10, <3>11, <3>12, <3>13 DEF EntriesDistinct
  <2>3. CASE NotifyProducer(w)
    <3>1. /\ Holding' = Holding
          /\ \A v \in Workers : pc[v] \in {"popped", "handle"} <=> pc'[v] \in {"popped", "handle"}
      BY <1>0, <2>3 DEF NotifyProducer, NotifyOne, Holding
    <3>2. UNCHANGED <<buffer, entry, entries, added, handled>>
      BY <2>3 DEF NotifyProducer, NotifyOne
    <3> QED
      BY <1>a, <3>1, <3>2
  <2>4. CASE Handle(w)
    <3>1. /\ handled' = handled \cup ({entry[w]} \ {None})
          /\ entry' = [entry EXCEPT ![w] = None]
          /\ UNCHANGED <<buffer, entries, added>>
          /\ \E next \in {"again", "loop"} : pc' = [pc EXCEPT ![w] = next]
      BY <2>4 DEF Handle
    <3>2. \A v \in Workers : entry'[v] = IF v = w THEN None ELSE entry[v]
      BY <1>0, <3>1
    <3>3. Taken' = Taken
      BY <3>1, <3>2 DEF Taken
    <3>4. Holding' = Holding /\ \A q \in Holding : entry'[q] = entry[q]
      BY <1>0, <3>1 DEF Holding
    <3>5. \A v \in Workers : entry'[v] # None <=> pc'[v] \in {"popped", "handle"}
      BY <1>0, <3>1, <3>2 DEF EntriesDistinct
    <3> QED
      BY <1>0, <3>1, <3>3, <3>4, <3>5 DEF EntriesDistinct, Allocated
  <2> QED
    BY <1>2, <2>1, <2>2, <2>3, <2>4 DEF Process
<1>3. CASE Start
  <2>1. CASE StartReset \/ StartThreads
    <3>1. Holding' = Holding /\ UNCHANGED <<buffer, entry, entries, added, handled>>
      BY <1>0, <2>1 DEF StartReset, StartUnreset, StartThreads, Holding
    <3>2. \A v \in Workers : pc[v] \in {"popped", "handle"} <=> pc'[v] \in {"popped", "handle"}
      BY <1>0, <2>1 DEF StartReset, StartUnreset, StartThreads, Inv, Life
    <3> QED
      BY <1>a, <3>1, <3>2
  <2>2. CASE StartBuffer
    BY <1>0, <2>2 DEF StartBuffer, EntriesDistinct, Taken, Holding
  <2> QED
    BY <1>3, <2>1, <2>2 DEF Start
<1>4. CASE StopSet \/ Stop
  <2>1. CASE StopJoin
    <3>1. Holding' = Holding /\ buffer' = <<>> /\ UNCHANGED <<entry, entries, added, handled>>
      BY <1>0, <2>1 DEF StopJoin, Holding
    <3>2. \A v \in Workers : pc[v] \in {"popped", "handle"} <=> pc'[v] \in {"popped", "handle"}
      BY <1>0, <2>1 DEF StopJoin
    <3> QED
      BY <1>0, <3>1, <3>2 DEF EntriesDistinct, Taken, Allocated
  <2>2. CASE StopSet \/ StopLock \/ StopNotify
    <3>1. Holding' = Holding /\ UNCHANGED <<buffer, entry, entries, added, handled>>
      BY <1>0, <2>2 DEF StopSet, StopLock, StopNotify, Holding
    <3>2. \A v \in Workers : pc[v] \in {"popped", "handle"} <=> pc'[v] \in {"popped", "handle"}
      BY <1>0, <2>2 DEF StopSet, StopLock, StopNotify
    <3> QED
      BY <1>a, <3>1, <3>2
  <2> QED
    BY <1>4, <2>1, <2>2 DEF Stop
<1>5. ASSUME NEW x \in Threads, Poll(x) PROVE EntriesDistinct'
  <2>1. Holding' = Holding /\ UNCHANGED <<buffer, entry, entries, added, handled>>
    BY <1>0, <1>5 DEF Poll, Holding
  <2>2. \A v \in Workers : pc[v] \in {"popped", "handle"} <=> pc'[v] \in {"popped", "handle"}
    BY <1>0, <1>5 DEF Poll
  <2> QED
    BY <1>a, <2>1, <2>2
<1>6. CASE UNCHANGED vars
  BY <1>0, <1>6 DEF vars, EntriesDistinct, Taken, Holding, Allocated
<1> QED
  BY <1>1, <1>2, <1>3, <1>4, <1>5, <1>6 DEF Next

LEMMA InvStep == Inv /\ [Next]_vars => Inv'
BY TypedStep, MutexHeldStep, SleepersWokenStep, LifeStep, RingStep, EntriesStep DEF Inv

LEMMA InvAlways == Spec => []Inv
BY InitInv, InvStep, PTL DEF Spec

-----------------------------------------------------------------------------
(* Every variable of a queue keeps to its type in every behaviour: head    *)
(* and tail stay inside the buffer, count never exceeds _bufferSize and no *)
(* two threads hold _queueMutex.                                           *)
THEOREM TypeAlways == Spec => []TypeOK
BY InvAlways, PTL DEF Inv, Typed

(* While a queue runs its ring holds count different entries from _head    *)
(* on, nothing elsewhere, and _tail behind the last of them, whatever the  *)
(* threads did in its earlier lives.                                       *)
THEOREM RingAlwaysConsistent == Spec => []RingConsistent
<1>1. Inv => RingConsistent
  BY DEF Inv, Ring, Life, RingConsistent
<1> QED
  BY <1>1, InvAlways, PTL

(* No thread indexes _buffer while it has no elements, though startQueue   *)
(* sizes it after it has started the processing threads and stopQueue      *)
(* clears it while producers may still be inside enqueue.                  *)
THEOREM BufferAlwaysAccessed == Spec => []BufferAccessed
<1>1. Inv => BufferAccessed
  BY OpenInside, QueueAssumption DEF BufferAccessed
<1> QED
  BY <1>1, InvAlways, PTL

(* Nobody sleeps past the notification of stopQueue: it takes the mutex    *)
(* between setting the flag and notifying, so a thread that has found its  *)
(* predicate false is asleep by then.                                      *)
THEOREM NobodySleepsPastStop == Spec => []SleepersWoken
BY InvAlways, PTL DEF Inv

(* An entry is added at most once and taken at most once: what a producer  *)
(* is about to add, what the buffer holds and what was taken are disjoint. *)
THEOREM EntriesAlwaysDistinct == Spec => []EntriesDistinct
BY InvAlways, PTL DEF Inv

-----------------------------------------------------------------------------
(* Wake-ups                                                                *)

(* The threads that will look for an entry, or wake one that will. *)
Attending ==
    {w \in Workers : pc[w] \in {"loop", "lock", "popped", "handle", "again"}}
        \cup {p \in Producers : pc[p] = "notify"}

(* The threads that will look for space, or wake one that will. *)
Freeing ==
    {p \in Producers : pc[p] = "lock"} \cup {w \in Workers : pc[w] = "popped"}

Asleep(threads) == {x \in threads : pc[x] = "waiting"} # {}

(* No notification is lost: as long as a processing thread sleeps, every   *)
(* entry in the buffer has a thread of its own that attends to it ...      *)
EntriesAttended == ~stop /\ Asleep(Workers) => count <= Cardinality(Attending)

(* ... and as long as a producer sleeps, so has every free slot. *)
SpaceAttended == ~stop /\ Asleep(Producers) => BufferSize - count <= Cardinality(Freeing)

(* Sets of threads are finite, larger ones have more threads, and putting  *)
(* a thread in the place of another keeps their number.                    *)
LEMMA ThreadsCounted ==
    ASSUME NEW S, S \subseteq Threads, NEW T, T \subseteq Threads
    PROVE  /\ Cardinality(S) \in Nat /\ Cardinality(T) \in Nat
           /\ S \subseteq T => Cardinality(S) <= Cardinality(T)
           /\ \A x \in T : x \notin S /\ S \subseteq T => Cardinality(S) + 1 <= Cardinality(T)
           /\ \A x \in S : S \ {x} \subseteq T => Cardinality(S) - 1 <= Cardinality(T)
           /\ \A x \in S, y \in T :
                 y \notin S /\ S \ {x} \subseteq T => Cardinality(S) <= Cardinality(T)
<1>1. IsFiniteSet(Threads)
  BY QueueAssumption, FS_Union DEF Threads
<1>2. IsFiniteSet(S) /\ IsFiniteSet(T) /\ Cardinality(S) \in Nat /\ Cardinality(T) \in Nat
  BY <1>1, FS_Subset, FS_CardinalityType
<1>3. S \subseteq T => Cardinality(S) <= Cardinality(T)
  BY <1>2, FS_Subset
<1>4. ASSUME NEW x \in T, x \notin S, S \subseteq T PROVE Cardinality(S) + 1 <= Cardinality(T)
  <2>1. Cardinality(S \cup {x}) = Cardinality(S) + 1
    BY <1>2, <1>4, FS_AddElement
  <2>2. S \cup {x} \subseteq T
    BY <1>4
  <2> QED
    BY <1>2, <2>1, <2>2, FS_Subset
<1>5. ASSUME NEW x \in S, S \ {x} \subseteq T
      PROVE  /\ Cardinality(S) - 1 <= Cardinality(T)
             /\ \A y \in T : y \notin S => Cardinality(S) <= Cardinality(T)
  <2>1. IsFiniteSet(S \ {x}) /\ Cardinality(S \ {x}) = Cardinality(S) - 1
    BY <1>2, FS_RemoveElement
  <2>2. Cardinality(S) - 1 <= Cardinality(T)
    BY <1>2, <1>5, <2>1, FS_Subset
  <2>3. ASSUME NEW y \in T, y \notin S PROVE Cardinality(S) <= Cardinality(T)
    <3>1. Cardinality((S \ {x}) \cup {y}) = Cardinality(S) - 1 + 1
      BY <2>1, <2>3, FS_AddElement
    <3>2. (S \ {x}) \cup {y} \subseteq T
      BY <1>5
    <3> QED
      BY <1>2, <3>1, <3>2, FS_Subset
  <2> QED
    BY <2>2, <2>3
<1> QED
  BY <1>2, <1>3, <1>4, <1>5

LEMMA AttendedInit == Init => EntriesAttended /\ SpaceAttended
BY DEF Init, EntriesAttended, SpaceAttended

LEMMA EntriesAttendedStep ==
    ASSUME Inv, EntriesAttended, [Next]_vars
    PROVE  EntriesAttended'
<1> USE DEF ring, counters, history, Goto
<1>0. /\ pc \in [Threads -> Labels] /\ Producers \cap Workers = {}
      /\ Threads = Producers \cup Workers
      /\ count \in Nat /\ count' \in Nat /\ stop \in BOOLEAN
  BY TypedStep, QueueAssumption DEF Inv, Typed, TypeOK, Threads
<1>1. /\ Cardinality(Attending) \in Nat /\ Cardinality(Attending') \in Nat
      /\ Attending \subseteq Attending' => Cardinality(Attending) <= Cardinality(Attending')
      /\ \A x \in Attending' : x \notin Attending /\ Attending \subseteq Attending' =>
            Cardinality(Attending) + 1 <= Cardinality(Attending')
      /\ \A x \in Attending, y \in Attending' :
            y \notin Attending /\ Attending \ {x} \subseteq Attending' =>
               Cardinality(Attending) <= Cardinality(Attending')
  <2>1. Attending \subseteq Threads /\ Attending' \subseteq Threads
    BY DEF Attending, Threads
  <2> QED
    BY <2>1, ThreadsCounted
<1>2. /\ EntriesAttended <=> (~stop /\ (\E w \in Workers : pc[w] = "waiting") =>
                                 count <= Cardinality(Attending))
      /\ EntriesAttended' <=> (~stop' /\ (\E w \in Workers : pc'[w] = "waiting") =>
                                 count' <= Cardinality(Attending'))
  BY DEF EntriesAttended, Asleep
<1>3. ASSUME stop' \/ count' = 0 PROVE EntriesAttended'
  BY <1>1, <1>2, <1>3
<1>4. ASSUME stop' = stop, count' <= count, Attending \subseteq Attending',
             \A w \in Workers : pc'[w] = "waiting" => pc[w] = "waiting"
      PROVE  EntriesAttended'
  <2>1. count <= Cardinality(Attending) => count' <= Cardinality(Attending')
    BY <1>0, <1>1, <1>4
  <2> QED
    BY <1>2, <1>4, <2>1
<1>5. ASSUME NEW p \in Producers, Produce(p) PROVE EntriesAttended'
  <2>1. CASE Store(p)
    <3>1. /\ count' = count + 1 /\ stop' = stop
          /\ pc[p] = "lock" /\ pc' = [pc EXCEPT ![p] = "notify"]
      BY <2>1 DEF Store, StoreUnchecked
    <3>2. p \in Attending' /\ p \notin Attending /\ Attending \subseteq Attending'
      BY <1>0, <3>1 DEF Attending
    <3>3. \A w \in Workers : pc'[w] = pc[w]
      BY <1>0, <3>1
    <3>4. count <= Cardinality(Attending) => count' <= Cardinality(Attending')
      BY <1>0, <1>1, <3>1, <3>2
    <3> QED
      BY <1>2, <3>1, <3>3, <3>4
  <2>2. CASE NotifyWorker(p)
    <3>1. pc[p] = "notify" /\ count' = count /\ stop' = stop
      BY <2>2 DEF NotifyWorker, NotifyOne
    <3>2. CASE \A w \in Workers : pc[w] # "waiting"
      <4>1. pc' = [pc EXCEPT ![p] = "idle"]
        BY <2>2, <3>2 DEF NotifyWorker, NotifyOne
      <4>2. \A w \in Workers : pc'[w] # "waiting"
        BY <1>0, <3>2, <4>1
      <4> QED
        BY <1>2, <4>2
    <3>3. CASE \E w \in Workers : pc[w] = "waiting"
      <4>1. PICK w \in Workers : pc[w] = "waiting" /\ pc' = [pc EXCEPT ![p] = "idle", ![w] = "lock"]
        BY <2>2, <3>3 DEF NotifyWorker, NotifyOne
      <4>2. /\ p \in Attending /\ w \in Attending' /\ w \notin Attending
            /\ Attending \ {p} \subseteq Attending'
        BY <1>0, <3>1, <4>1 DEF Attending
      <4>3. count <= Cardinality(Attending) => count' <= Cardinality(Attending')
        BY <1>0, <1>1, <3>1, <4>2
      <4> QED
        BY <1>2, <3>1, <3>3, <4>3
    <3> QED
      BY <3>2, <3>3
  <2>3. CASE ~Store(p) /\ ~NotifyWorker(p)
    <3>1. /\ stop' = stop /\ count' = count
          /\ \E to \in Labels : pc[p] # "notify" /\ pc' = [pc EXCEPT ![p] = to]
      BY <1>5, <2>3 DEF Produce, EnqueueStopped, Enqueue, GiveUp, AwaitSpace, Sleep, Labels
    <3>2. Attending \subseteq Attending' /\ \A w \in Workers : pc'[w] = pc[w]
      BY <1>0, <3>1 DEF Attending
    <3> QED
      BY <1>0, <1>4, <3>1, <3>2
  <2> QED
    BY <2>1, <2>2, <2>3
<1>6. ASSUME NEW w \in Workers, Process(w) PROVE EntriesAttended'
  <2>0. stop' = stop
    BY <1>6 DEF Process, CheckStop, LeaveStopped, Pop, AwaitEntry, LeaveLoop, NotifyProducer,
                NotifyOne, Handle, Sleep
  <2>1. CASE LeaveStopped(w) \/ AwaitEntry(w) \/ LeaveLoop(w)
    BY <1>3, <2>1 DEF LeaveStopped, AwaitEntry, LeaveLoop
  <2>2. CASE Sleep(w)
    BY <1>0, <1>3, <2>2 DEF Sleep, Inv, SleepersWoken
  <2>3. CASE stop
    BY <1>3, <2>0, <2>3
  <2>4. CASE ~stop /\ (CheckStop(w) \/ Pop(w) \/ Handle(w))
    <3>1. /\ count' <= count
          /\ \E to \in {"lock", "popped", "again", "loop"} : pc' = [pc EXCEPT ![w] = to]
      BY <1>0, <2>4 DEF CheckStop, Pop, Handle
    <3>2. /\ Attending \subseteq Attending'
          /\ \A v \in Workers : pc'[v] = "waiting" => pc[v] = "waiting"
      BY <1>0, <3>1 DEF Attending
    <3> QED
      BY <1>4, <2>0, <3>1, <3>2
  <2>5. CASE NotifyProducer(w)
    <3>1. count' <= count
      BY <1>0, <2>5 DEF NotifyProducer, NotifyOne
    <3>2. /\ Attending \subseteq Attending'
          /\ \A v \in Workers : pc'[v] = "waiting" => pc[v] = "waiting"
      BY <1>0, <2>5 DEF NotifyProducer, NotifyOne, Attending
    <3> QED
      BY <1>4, <2>0, <3>1, <3>2
  <2> QED
    BY <1>6, <2>1, <2>2, <2>3, <2>4, <2>5 DEF Process
<1>7. CASE Start
  BY <1>3, <1>7 DEF Start, StartReset, StartUnreset, StartThreads, StartBuffer, Inv, Life
<1>8. CASE StopSet \/ Stop
  BY <1>3, <1>8 DEF StopSet, Stop, StopLock, StopNotify, StopJoin, Inv, Life
<1>9. ASSUME NEW x \in Threads, Poll(x) PROVE EntriesAttended'
  <2>1. Attending \subseteq Attending' /\ \A v \in Workers : pc'[v] = "waiting" => pc[v] = "waiting"
    BY <1>0, <1>9 DEF Poll, Attending
  <2> QED
    BY <1>0, <1>4, <1>9, <2>1 DEF Poll
<1>10. CASE UNCHANGED vars
  <2>1. Attending' = Attending
    BY <1>10 DEF vars, Attending
  <2> QED
    BY <1>0, <1>4, <1>10, <2>1 DEF vars
<1> QED
  BY <1>5, <1>6, <1>7, <1>8, <1>9, <1>10 DEF Next

LEMMA SpaceAttendedStep ==
    ASSUME Inv, SpaceAttended, [Next]_vars
    PROVE  SpaceAttended'
<1> USE DEF ring, counters, history, Goto
<1>0. /\ pc \in [Threads -> Labels] /\ Producers \cap Workers = {}
      /\ Threads = Producers \cup Workers
      /\ count \in Nat /\ count' \in Nat /\ stop \in BOOLEAN /\ BufferSize \in Nat
  BY TypedStep, QueueAssumption DEF Inv, Typed, TypeOK, Threads
<1>1. /\ Cardinality(Freeing) \in Nat /\ Cardinality(Freeing') \in Nat
      /\ Freeing \subseteq Freeing' => Cardinality(Freeing) <= Cardinality(Freeing')
      /\ \A x \in Freeing' : x \notin Freeing /\ Freeing \subseteq Freeing' =>
            Cardinality(Freeing) + 1 <= Cardinality(Freeing')
      /\ \A x \in Freeing : Freeing \ {x} \subseteq Freeing' =>
            Cardinality(Freeing) - 1 <= Cardinality(Freeing')
      /\ \A x \in Freeing, y \in Freeing' :
            y \notin Freeing /\ Freeing \ {x} \subseteq Freeing' =>
               Cardinality(Freeing) <= Cardinality(Freeing')
  <2>1. Freeing \subseteq Threads /\ Freeing' \subseteq Threads
    BY DEF Freeing, Threads
  <2> QED
    BY <2>1, ThreadsCounted
<1>2. /\ SpaceAttended <=> (~stop /\ (\E p \in Producers : pc[p] = "waiting") =>
                               BufferSize - count <= Cardinality(Freeing))
      /\ SpaceAttended' <=> (~stop' /\ (\E p \in Producers : pc'[p] = "waiting") =>
                               BufferSize - count' <= Cardinality(Freeing'))
  BY DEF SpaceAttended, Asleep
<1>3. ASSUME stop' \/ count' >= BufferSize \/ \A p \in Producers : pc'[p] # "waiting"
      PROVE  SpaceAttended'
  <2>1. count' >= BufferSize => BufferSize - count' <= Cardinality(Freeing')
    BY <1>0, <1>1
  <2> QED
    BY <1>2, <1>3, <2>1
<1>4. ASSUME stop' = stop, count' = count, Freeing \subseteq Freeing',
             \A p \in Producers : pc'[p] = "waiting" => pc[p] = "waiting"
      PROVE  SpaceAttended'
  <2>1. BufferSize - count <= Cardinality(Freeing) => BufferSize - count' <= Cardinality(Freeing')
    BY <1>0, <1>1, <1>4
  <2> QED
    BY <1>2, <1>4, <2>1
<1>5. ASSUME NEW p \in Producers, Produce(p) PROVE SpaceAttended'
  <2>1. CASE Store(p)
    <3>1. /\ count' = count + 1 /\ stop' = stop
          /\ pc[p] = "lock" /\ pc' = [pc EXCEPT ![p] = "notify"]
      BY <2>1 DEF Store, StoreUnchecked
    <3>2. p \in Freeing /\ Freeing \ {p} \subseteq Freeing'
      BY <1>0, <3>1 DEF Freeing
    <3>3. \A q \in Producers : pc'[q] = "waiting" => pc[q] = "waiting"
      BY <1>0, <3>1
    <3>4. BufferSize - count <= Cardinality(Freeing) => BufferSize - count' <= Cardinality(Freeing')
      BY <1>0, <1>1, <3>1, <3>2
    <3> QED
      BY <1>2, <3>1, <3>3, <3>4
  <2>2. CASE GiveUp(p) \/ AwaitSpace(p)
    BY <1>3, <2>2 DEF GiveUp, AwaitSpace
  <2>3. CASE Sleep(p)
    <3>1. count = BufferSize /\ count' = count
      BY <1>0, <2>3 DEF Sleep, Inv, SleepersWoken
    <3> QED
      BY <1>0, <1>3, <3>1
  <2>4. CASE EnqueueStopped(p) \/ Enqueue(p)
    <3>1. Freeing \subseteq Freeing' /\ \A q \in Producers : pc'[q] = "waiting" => pc[q] = "waiting"
      BY <1>0, <2>4 DEF EnqueueStopped, Enqueue, Freeing
    <3> QED
      BY <1>4, <2>4, <3>1 DEF EnqueueStopped, Enqueue
  <2>5. CASE NotifyWorker(p)
    <3>1. Freeing \subseteq Freeing' /\ \A q \in Producers : pc'[q] = "waiting" => pc[q] = "waiting"
      BY <1>0, <2>5 DEF NotifyWorker, NotifyOne, Freeing
    <3> QED
      BY <1>4, <2>5, <3>1 DEF NotifyWorker, NotifyOne
  <2> QED
    BY <1>5, <2>1, <2>2, <2>3, <2>4, <2>5 DEF Produce
<1>6. ASSUME NEW w \in Workers, Process(w) PROVE SpaceAttended'
  <2>1. CASE Pop(w)
    <3>1. /\ count' = count - 1 /\ stop' = stop
          /\ pc[w] \in {"lock", "again"} /\ pc' = [pc EXCEPT ![w] = "popped"]
      BY <2>1 DEF Pop
    <3>2. w \in Freeing' /\ w \notin Freeing /\ Freeing \subseteq Freeing'
      BY <1>0, <3>1 DEF Freeing
    <3>3. \A q \in Producers : pc'[q] = pc[q]
      BY <1>0, <3>1
    <3>4. BufferSize - count <= Cardinality(Freeing) => BufferSize - count' <= Cardinality(Freeing')
      BY <1>0, <1>1, <3>1, <3>2
    <3> QED
      BY <1>2, <3>1, <3>3, <3>4
  <2>2. CASE NotifyProducer(w)
    <3>1. pc[w] = "popped" /\ count' = count /\ stop' = stop
      BY <2>2 DEF NotifyProducer, NotifyOne
    <3>2. CASE \A p \in Producers : pc[p] # "waiting"
      <4>1. pc' = [pc EXCEPT ![w] = "handle"]
        BY <2>2, <3>2 DEF NotifyProducer, NotifyOne
      <4>2. \A p \in Producers : pc'[p] # "waiting"
        BY <1>0, <3>2, <4>1
      <4> QED
        BY <1>3, <4>2
    <3>3. CASE \E p \in Producers : pc[p] = "waiting"
      <4>1. PICK p \in Producers :
                pc[p] = "waiting" /\ pc' = [pc EXCEPT ![w] = "handle", ![p] = "lock"]
        BY <2>2, <3>3 DEF NotifyProducer, NotifyOne
      <4>2. /\ w \in Freeing /\ p \in Freeing' /\ p \notin Freeing
            /\ Freeing \ {w} \subseteq Freeing'
        BY <1>0, <3>1, <4>1 DEF Freeing
      <4>3. BufferSize - count <= Cardinality(Freeing) =>
                BufferSize - count' <= Cardinality(Freeing')
        BY <1>0, <1>1, <3>1, <4>2
      <4> QED
        BY <1>2, <3>1, <3>3, <4>3
    <3> QED
      BY <3>2, <3>3
  <2>3. CASE ~Pop(w) /\ ~NotifyProducer(w)
    <3>1. /\ stop' = stop /\ count' = count
          /\ \E to \in Labels : pc[w] # "popped" /\ pc' = [pc EXCEPT ![w] = to]
      BY <1>6, <2>3 DEF Process, CheckStop, LeaveStopped, AwaitEntry, LeaveLoop, Handle, Sleep,
                        Labels
    <3>2. Freeing \subseteq Freeing' /\ \A q \in Producers : pc'[q] = pc[q]
      BY <1>0, <3>1 DEF Freeing
    <3> QED
      BY <1>4, <3>1, <3>2
  <2> QED
    BY <2>1, <2>2, <2>3
<1>7. CASE Start
  <2>1. \A p \in Producers : pc[p] = "idle" /\ pc'[p] = pc[p]
    BY <1>0, <1>7 DEF Start, StartReset, StartUnreset, StartThreads, StartBuffer, Inv, Life,
                      Enqueuing
  <2> QED
    BY <1>3, <2>1
<1>8. CASE StopSet \/ Stop
  BY <1>3, <1>8 DEF StopSet, Stop, StopLock, StopNotify, StopJoin, Inv, Life
<1>9. ASSUME NEW x \in Threads, Poll(x) PROVE SpaceAttended'
  <2>1. Freeing \subseteq Freeing' /\ \A q \in Producers : pc'[q] = "waiting" => pc[q] = "waiting"
    BY <1>0, <1>9 DEF Poll, Freeing
  <2> QED
    BY <1>4, <1>9, <2>1 DEF Poll
<1>10. CASE UNCHANGED vars
  <2>1. Freeing' = Freeing
    BY <1>10 DEF vars, Freeing
  <2> QED
    BY <1>4, <1>10, <2>1 DEF vars
<1> QED
  BY <1>5, <1>6, <1>7, <1>8, <1>9, <1>10 DEF Next

(* No wake-up is lost.  A notify_one of enqueue or of process wakes one    *)
(* thread at most, or none if the thread it was for does not sleep yet;    *)
(* still, while the queue is open and a processing thread sleeps, there    *)
(* are as many other threads that will look for an entry as there are      *)
(* entries, and while a producer sleeps, as many that will look for space  *)
(* as there are free slots.  No timeout of a wait is needed for this.      *)
THEOREM NoWakeUpLost == Spec => [](EntriesAttended /\ SpaceAttended)
<1>1. Init => Inv /\ EntriesAttended /\ SpaceAttended
  BY InitInv, AttendedInit
<1>2. (Inv /\ EntriesAttended /\ SpaceAttended) /\ [Next]_vars
          => (Inv /\ EntriesAttended /\ SpaceAttended)'
  BY InvStep, EntriesAttendedStep, SpaceAttendedStep
<1> QED
  BY <1>1, <1>2, PTL DEF Spec

-----------------------------------------------------------------------------
(***************************************************************************)
(* IQueue implements WorkQueue: seen through the contents of its ring, in  *)
(* order, every step of its threads is a step of a bounded first-in        *)
(* first-out queue or leaves that queue unchanged.                         *)
(***************************************************************************)

(* The ring as a sequence. *)
ContentsShape ==
    /\ Contents \in Seq(Entries)
    /\ Allocated => /\ Len(Contents) = count
                    /\ \A i \in 1 .. count :
                          Contents[i] = buffer[(head + (i - 1)) % BufferSize]
    /\ ~Allocated => Contents = <<>>

LEMMA ContentsSequence == Inv => ContentsShape
<1> SUFFICES ASSUME Inv PROVE ContentsShape
  OBVIOUS
<1>0. /\ BufferSize \in Nat /\ head \in Slots /\ count \in 0 .. BufferSize
      /\ Allocated => buffer \in [Slots -> Entries \cup {None}]
  BY QueueAssumption DEF Inv, Typed, TypeOK, Allocated
<1>1. CASE Allocated
  <2>1. Contents = [i \in 1 .. count |-> buffer[(head + i - 1) % BufferSize]]
    BY <1>1 DEF Contents
  <2>2. \A i \in 1 .. count : buffer[(head + i - 1) % BufferSize] \in Entries
    <3> SUFFICES ASSUME NEW i \in 1 .. count
                 PROVE  buffer[(head + i - 1) % BufferSize] \in Entries
      OBVIOUS
    <3>1. i - 1 \in 0 .. count - 1 /\ head + i - 1 = head + (i - 1)
      BY <1>0 DEF Slots
    <3>2. (head + i - 1) % BufferSize \in Window /\ Window \subseteq Slots
      BY <3>1, WindowPositions
    <3> QED
      BY <1>0, <1>1, <3>2 DEF Inv, Ring
  <2>3. \A i \in 1 .. count : head + i - 1 = head + (i - 1)
    BY <1>0 DEF Slots
  <2>4. Contents \in [1 .. count -> Entries] /\ count \in Nat
    BY <1>0, <2>1, <2>2
  <2>5. Contents \in Seq(Entries) /\ Len(Contents) = count
    BY <2>4, LenProperties
  <2> QED
    BY <1>1, <2>1, <2>3, <2>5 DEF ContentsShape
<1>2. CASE ~Allocated
  BY <1>2, EmptySeq DEF Contents, ContentsShape
<1> QED
  BY <1>1, <1>2

LEMMA ContentsSequenceNext == Inv' => ContentsShape'
BY ContentsSequence, PTL

(* The contents depend on the ring alone. *)
LEMMA ContentsKept ==
    ASSUME UNCHANGED ring
    PROVE  Contents' = Contents
BY DEF ring, Contents, Allocated

(* Storing an entry appends it. *)
LEMMA ContentsStore ==
    ASSUME Inv, Inv', Allocated, count < BufferSize,
           NEW e \in Entries,
           buffer' = [buffer EXCEPT ![tail] = e],
           count' = count + 1, head' = head
    PROVE  Contents' = Append(Contents, e) /\ Len(Contents) < BufferSize
<1>0. /\ BufferSize \in Nat /\ head \in Slots /\ tail \in Slots /\ count \in 0 .. BufferSize
      /\ buffer \in [Slots -> Entries \cup {None}] /\ count \in Nat
  BY QueueAssumption DEF Inv, Typed, TypeOK, Allocated
<1>1. /\ Contents \in Seq(Entries) /\ Len(Contents) = count
      /\ \A i \in 1 .. count : Contents[i] = buffer[(head + (i - 1)) % BufferSize]
  BY ContentsSequence DEF ContentsShape
<1>2. Allocated'
  <2>1. buffer' \in [Slots -> Entries \cup {None}] /\ 0 \in Slots
    BY <1>0, QueueAssumption DEF Slots
  <2> QED
    BY <2>1 DEF Allocated
<1>3. /\ Contents' \in Seq(Entries) /\ Len(Contents') = count'
      /\ \A i \in 1 .. count' : Contents'[i] = buffer'[(head' + (i - 1)) % BufferSize]
  BY <1>2, ContentsSequenceNext DEF ContentsShape
<1>4. tail = (head + count) % BufferSize /\ count \in Slots
  BY <1>0 DEF Inv, Ring, Slots
<1>5. \A i \in 1 .. count : Contents'[i] = Contents[i]
  <2> SUFFICES ASSUME NEW i \in 1 .. count PROVE Contents'[i] = Contents[i]
    OBVIOUS
  <2>1. i - 1 \in Slots /\ i - 1 # count /\ i \in 1 .. count'
    BY <1>0 DEF Slots
  <2>2. (head + (i - 1)) % BufferSize \in Slots /\ (head + (i - 1)) % BufferSize # tail
    <3>1. i - 1 \in 0 .. BufferSize
      BY <1>0
    <3> QED
      BY <1>0, <1>4, <2>1, <3>1, PositionValue, PositionInjective
  <2>3. Contents'[i] = buffer'[(head + (i - 1)) % BufferSize]
    BY <1>3, <2>1
  <2> QED
    BY <1>0, <1>1, <2>2, <2>3
<1>6. Contents'[count + 1] = e
  <2>1. count + 1 \in 1 .. count' /\ (count + 1) - 1 = count
    BY <1>0
  <2>2. Contents'[count + 1] = buffer'[(head + count) % BufferSize]
    BY <1>3, <2>1
  <2> QED
    BY <1>0, <1>4, <2>2
<1>7. /\ Append(Contents, e) \in Seq(Entries)
      /\ Len(Append(Contents, e)) = count + 1
      /\ \A i \in 1 .. count : Append(Contents, e)[i] = Contents[i]
      /\ Append(Contents, e)[count + 1] = e
  BY <1>1, AppendProperties
<1>8. \A i \in 1 .. count + 1 : Contents'[i] = Append(Contents, e)[i]
  <2> SUFFICES ASSUME NEW i \in 1 .. count + 1 PROVE Contents'[i] = Append(Contents, e)[i]
    OBVIOUS
  <2>1. i \in 1 .. count \/ i = count + 1
    BY <1>0
  <2> QED
    BY <1>5, <1>6, <1>7, <2>1
<1>9. Contents' = Append(Contents, e)
  BY <1>3, <1>7, <1>8, SeqEqual
<1> QED
  BY <1>1, <1>9

(* Popping takes the head off. *)
LEMMA ContentsPop ==
    ASSUME Inv, Inv', Allocated, count > 0,
           buffer' = [buffer EXCEPT ![head] = None],
           count' = count - 1, head' = (head + 1) % BufferSize
    PROVE  Contents # <<>> /\ Head(Contents) = buffer[head] /\ Contents' = Tail(Contents)
<1>0. /\ BufferSize \in Nat /\ head \in Slots /\ count \in 0 .. BufferSize
      /\ buffer \in [Slots -> Entries \cup {None}] /\ count \in Nat
  BY QueueAssumption DEF Inv, Typed, TypeOK, Allocated
<1>1. /\ Contents \in Seq(Entries) /\ Len(Contents) = count
      /\ \A i \in 1 .. count : Contents[i] = buffer[(head + (i - 1)) % BufferSize]
  BY ContentsSequence DEF ContentsShape
<1>2. Allocated'
  <2>1. buffer' \in [Slots -> Entries \cup {None}] /\ 0 \in Slots
    BY <1>0, QueueAssumption DEF Slots
  <2> QED
    BY <2>1 DEF Allocated
<1>3. /\ Contents' \in Seq(Entries) /\ Len(Contents') = count'
      /\ \A i \in 1 .. count' : Contents'[i] = buffer'[(head' + (i - 1)) % BufferSize]
  BY <1>2, ContentsSequenceNext DEF ContentsShape
<1>4. (head + 0) % BufferSize = head /\ 0 \in Slots
  <2>1. 0 \in 0 .. BufferSize /\ 0 \in Slots /\ head \in 0 .. BufferSize - 1
    BY <1>0, QueueAssumption DEF Slots
  <2>2. (head + 0) % BufferSize = head
    BY <1>0, <2>1, PositionValue
  <2> QED
    BY <2>1, <2>2
<1>5. Contents # <<>>
  BY <1>0, <1>1, EmptySeq
<1>6. Head(Contents) = buffer[head]
  <2>1. 1 \in 1 .. count /\ 1 - 1 = 0
    BY <1>0
  <2>2. Contents[1] = buffer[head]
    BY <1>1, <1>4, <2>1
  <2> QED
    BY <2>2
<1>7. \A i \in 1 .. count' : Contents'[i] = Contents[i + 1]
  <2> SUFFICES ASSUME NEW i \in 1 .. count' PROVE Contents'[i] = Contents[i + 1]
    OBVIOUS
  <2>1. /\ i - 1 \in Slots /\ i \in Slots /\ i # 0 /\ i + 1 \in 1 .. count
        /\ (i - 1) + 1 = i /\ (i + 1) - 1 = i /\ i \in 0 .. BufferSize
    <3>1. i \in Int /\ 1 <= i /\ i <= count - 1 /\ count <= BufferSize
      BY <1>0
    <3> QED
      BY <1>0, <3>1 DEF Slots
  <2>2. (((head + 1) % BufferSize) + (i - 1)) % BufferSize = (head + i) % BufferSize
    BY <1>0, <2>1, PositionNext
  <2>3. (head + i) % BufferSize \in Slots /\ (head + i) % BufferSize # head
    BY <1>0, <1>4, <2>1, PositionValue, PositionInjective
  <2>4. Contents'[i] = buffer'[(head + i) % BufferSize]
    BY <1>3, <2>2
  <2>5. Contents[i + 1] = buffer[(head + i) % BufferSize]
    BY <1>1, <2>1
  <2> QED
    BY <1>0, <2>3, <2>4, <2>5
<1>8. /\ Tail(Contents) \in Seq(Entries) /\ Len(Tail(Contents)) = count - 1
      /\ \A i \in 1 .. count - 1 : Tail(Contents)[i] = Contents[i + 1]
  BY <1>1, <1>5, HeadTailProperties
<1>9. Contents' = Tail(Contents)
  BY <1>3, <1>7, <1>8, SeqEqual
<1> QED
  BY <1>5, <1>6, <1>9

-----------------------------------------------------------------------------
(* The abstract queue                                                      *)

Mapped == <<~stop, Contents, added, Taken>>

LEMMA QueueInit == Init => Abstract!Init
BY DEF Init, Abstract!Init, Contents, Allocated, Threads

(* A step of a thread that leaves the ring, the flag and the sets of added *)
(* and taken entries alone leaves the abstract queue alone.                *)
LEMMA QueueUnchanged ==
    ASSUME UNCHANGED <<stop, ring, added, Taken>>
    PROVE  UNCHANGED Mapped
BY ContentsKept DEF Mapped

LEMMA QueueStep ==
    ASSUME Inv, Inv', [Next]_vars
    PROVE  [Abstract!Next]_Mapped
<1> USE DEF ring, counters, history, Goto
<1>0. /\ entry \in [Threads -> Entries \cup {None}]
      /\ Producers \cap Workers = {} /\ Threads = Producers \cup Workers
      /\ head \in Slots /\ stop \in BOOLEAN
      /\ \A e \in Entries : e # None
      /\ EntriesDistinct /\ Life
  BY QueueAssumption DEF Inv, Typed, TypeOK, Entries, None, Threads
<1>1. ASSUME NEW p \in Producers, Produce(p) PROVE [Abstract!Next]_Mapped
  <2>1. CASE Store(p)
    <3>1. Allocated /\ control = "running" /\ p \in Holding /\ ~stop /\ count < BufferSize
      BY <1>0, <2>1, OpenInside DEF Store, StoreUnchecked, Holding, Life
    <3>2. /\ buffer' = [buffer EXCEPT ![tail] = entry[p]]
          /\ count' = count + 1 /\ added' = added \cup {entry[p]}
          /\ UNCHANGED <<stop, head, entry, handled>>
      BY <2>1 DEF Store, StoreUnchecked
    <3>3. entry[p] \in Entries /\ entry[p] \notin added
      <4>1. entry[p] \in 1 .. entries /\ entries \in 0 .. MaxEntries
        BY <1>0, <3>1 DEF EntriesDistinct, Inv, Typed, TypeOK
      <4> QED
        BY <1>0, <3>1, <4>1, QueueAssumption DEF EntriesDistinct, Entries
    <3>4. Contents' = Append(Contents, entry[p]) /\ Len(Contents) < BufferSize
      BY <3>1, <3>2, <3>3, ContentsStore
    <3>5. Taken' = Taken
      BY <3>2 DEF Taken
    <3>6. PICK e \in Entries : e = entry[p]
      BY <3>3
    <3>7. Abstract!Add(e)
      BY <3>1, <3>2, <3>3, <3>4, <3>5, <3>6 DEF Abstract!Add, Taken
    <3> QED
      BY <3>7 DEF Abstract!Next
  <2>2. CASE ~Store(p)
    <3>1. UNCHANGED <<stop, ring, added, handled>> /\ \A w \in Workers : entry'[w] = entry[w]
      BY <1>0, <1>1, <2>2 DEF Produce, EnqueueStopped, Enqueue, GiveUp, AwaitSpace,
                              NotifyWorker, NotifyOne, Sleep
    <3> QED
      BY <3>1, QueueUnchanged DEF Taken
  <2> QED
    BY <2>1, <2>2
<1>2. ASSUME NEW w \in Workers, Process(w) PROVE [Abstract!Next]_Mapped
  <2>1. CASE Pop(w)
    <3>1. Allocated /\ count > 0 /\ ~stop /\ head \in Window
      BY <2>1, OpenInside, WindowPositions DEF Pop
    <3>2. /\ entry' = [entry EXCEPT ![w] = buffer[head]]
          /\ buffer' = [buffer EXCEPT ![head] = None]
          /\ head' = (head + 1) % BufferSize /\ count' = count - 1
          /\ UNCHANGED <<stop, added, handled>>
          /\ pc[w] \in {"lock", "again"}
      BY <2>1 DEF Pop
    <3>3. Contents # <<>> /\ Head(Contents) = buffer[head] /\ Contents' = Tail(Contents)
      BY <3>1, <3>2, ContentsPop
    <3>4. buffer[head] # None /\ buffer[head] \notin Taken
      BY <1>0, <3>1 DEF Inv, Ring, EntriesDistinct
    <3>5. entry[w] = None
      BY <1>0, <3>2 DEF EntriesDistinct
    <3>6. \A v \in Workers : entry'[v] = (IF v = w THEN buffer[head] ELSE entry[v])
      BY <1>0, <3>2
    <3>7. Taken' = Taken \cup {buffer[head]}
      BY <3>2, <3>4, <3>5, <3>6 DEF Taken
    <3>8. Abstract!Take
      BY <3>1, <3>2, <3>3, <3>4, <3>7 DEF Abstract!Take, Taken
    <3> QED
      BY <3>8 DEF Abstract!Next
  <2>2. CASE Handle(w)
    <3>1. /\ handled' = handled \cup ({entry[w]} \ {None})
          /\ entry' = [entry EXCEPT ![w] = None]
          /\ UNCHANGED <<stop, ring, added>>
      BY <2>2 DEF Handle
    <3>2. \A v \in Workers : entry'[v] = IF v = w THEN None ELSE entry[v]
      BY <1>0, <3>1
    <3>3. Taken' = Taken
      BY <3>1, <3>2 DEF Taken
    <3> QED
      BY <3>1, <3>3, QueueUnchanged
  <2>3. CASE ~Pop(w) /\ ~Handle(w)
    <3>1. UNCHANGED <<stop, ring, added, handled, entry>>
      BY <1>2, <2>3 DEF Process, CheckStop, LeaveStopped, AwaitEntry, LeaveLoop,
                        NotifyProducer, NotifyOne, Sleep
    <3> QED
      BY <3>1, QueueUnchanged DEF Taken
  <2> QED
    BY <2>1, <2>2, <2>3
<1>3. CASE Start
  <2>1. CASE StartReset
    <3>1. ~Allocated /\ stop
      BY <1>0, <2>1 DEF StartReset, StartUnreset, Life
    <3>2. UNCHANGED <<buffer, added, entry, handled>> /\ stop' = FALSE
      BY <2>1 DEF StartReset, StartUnreset
    <3>3. Contents = <<>> /\ Contents' = <<>>
      BY <3>1, <3>2 DEF Contents, Allocated
    <3>4. Abstract!Open
      BY <3>1, <3>2, <3>3 DEF Abstract!Open, Taken
    <3> QED
      BY <3>4 DEF Abstract!Next
  <2>2. CASE StartThreads
    BY <2>2, QueueUnchanged DEF StartThreads, Taken
  <2>3. CASE StartBuffer
    <3>1. ~Allocated /\ count' = 0 /\ UNCHANGED <<stop, added, entry, handled>>
      BY <1>0, <2>3 DEF StartBuffer, Life
    <3>2. Contents = <<>>
      BY <3>1 DEF Contents
    <3>3. Contents' = <<>>
      <4>1. Contents' \in Seq(Entries) /\ (Allocated' => Len(Contents') = 0)
            /\ (~Allocated' => Contents' = <<>>)
        BY <3>1, ContentsSequenceNext DEF ContentsShape
      <4> QED
        BY <4>1, EmptySeq
    <3> QED
      BY <3>1, <3>2, <3>3 DEF Mapped, Taken
  <2> QED
    BY <1>3, <2>1, <2>2, <2>3 DEF Start
<1>4. CASE StopSet \/ Stop
  <2>1. CASE StopSet
    <3>1. ~stop /\ stop' = TRUE /\ UNCHANGED <<ring, added, entry, handled>>
      BY <1>0, <2>1 DEF StopSet, Life
    <3>2. Abstract!Close
      BY <3>1, ContentsKept DEF Abstract!Close, Taken
    <3> QED
      BY <3>2 DEF Abstract!Next
  <2>2. CASE StopLock \/ StopNotify
    BY <2>2, QueueUnchanged DEF StopLock, StopNotify, Taken
  <2>3. CASE StopJoin
    <3>1. stop /\ buffer' = <<>> /\ UNCHANGED <<stop, added, entry, handled>>
      BY <1>0, <2>3 DEF StopJoin, Life
    <3>2. Contents' = <<>>
      BY <3>1 DEF Contents, Allocated
    <3>3. Abstract!Discard
      BY <3>1, <3>2 DEF Abstract!Discard, Taken
    <3> QED
      BY <3>3 DEF Abstract!Next
  <2> QED
    BY <1>4, <2>1, <2>2, <2>3 DEF Stop
<1>5. ASSUME NEW x \in Threads, Poll(x) PROVE UNCHANGED Mapped
  BY <1>5, QueueUnchanged DEF Poll, Taken
<1>6. CASE UNCHANGED vars
  BY <1>6, QueueUnchanged DEF vars, Taken
<1> QED
  BY <1>1, <1>2, <1>3, <1>4, <1>5, <1>6 DEF Next

(* A queue of IQueue is the bounded first-in first-out queue of WorkQueue, *)
(* in every behaviour: entries are taken in the order in which they were   *)
(* added, each once, and they are given up only by stopQueue.              *)
THEOREM WorkQueueImplemented == Spec => IsWorkQueue
<1>1. Inv /\ Inv' /\ [Next]_vars => [Abstract!Next]_Abstract!vars
  BY QueueStep DEF Mapped, Abstract!vars, Taken
<1> QED
  BY <1>1, QueueInit, InitInv, InvStep, PTL DEF Spec, IsWorkQueue, Abstract!Spec
=============================================================================
