----------------------------- MODULE WorkQueue -----------------------------
(***************************************************************************)
(* What a queue of IQueue promises its users: a bounded first-in first-out *)
(* queue that can be closed and opened again.  An entry is added at most   *)
(* once and taken at most once; entries are given up only when the queue   *)
(* is closed, never while it is open.                                      *)
(***************************************************************************)
EXTENDS Naturals, Sequences

CONSTANTS Entries, Capacity

VARIABLES open, queue, added, taken

vars == <<open, queue, added, taken>>

Init == open = FALSE /\ queue = <<>> /\ added = {} /\ taken = {}

Open == ~open /\ queue = <<>> /\ open' = TRUE /\ UNCHANGED <<queue, added, taken>>

Close == open /\ open' = FALSE /\ UNCHANGED <<queue, added, taken>>

Add(e) ==
    /\ open
    /\ e \notin added
    /\ Len(queue) < Capacity
    /\ queue' = Append(queue, e)
    /\ added' = added \cup {e}
    /\ UNCHANGED <<open, taken>>

Take ==
    /\ open
    /\ queue # <<>>
    /\ Head(queue) \notin taken
    /\ queue' = Tail(queue)
    /\ taken' = taken \cup {Head(queue)}
    /\ UNCHANGED <<open, added>>

Discard == ~open /\ queue' = <<>> /\ UNCHANGED <<open, added, taken>>

Next == Open \/ Close \/ (\E e \in Entries : Add(e)) \/ Take \/ Discard

Spec == Init /\ [][Next]_vars
=============================================================================
