---------------------------- MODULE RemoteCalls ----------------------------
(***************************************************************************)
(* What invoke promises its callers: a remote procedure call that the      *)
(* server executes at most once, and that returns the server's answer to   *)
(* this very call or an error.  An error tells nothing about the server:   *)
(* the call may have been executed, or may be executed after it returned.  *)
(*                                                                         *)
(* A call is a number; the answer to a call is named by the same number.   *)
(***************************************************************************)
CONSTANTS Threads, Values, NoCall

VARIABLES
    phase,        \* of each thread: "idle", "calling" or "waiting"
    current,      \* the call a thread is in, or made last
    outstanding,  \* calls sent that the server has not executed
    answers,      \* answers that have not been lost
    answer        \* what the last call of a thread returned; {} for an error

vars == <<phase, current, outstanding, answers, answer>>

Init ==
    /\ phase = [t \in Threads |-> "idle"]
    /\ current = [t \in Threads |-> NoCall]
    /\ outstanding = {} /\ answers = {}
    /\ answer = [t \in Threads |-> {}]

Fresh(c) == c \notin outstanding \cup answers /\ \A t \in Threads : current[t] # c

Call(t, c) ==
    /\ phase[t] = "idle"
    /\ Fresh(c)
    /\ phase' = [phase EXCEPT ![t] = "calling"]
    /\ current' = [current EXCEPT ![t] = c]
    /\ answer' = [answer EXCEPT ![t] = {}]
    /\ UNCHANGED <<outstanding, answers>>

(* The call is not made. *)
Refuse(t) ==
    /\ phase[t] = "idle"
    /\ answer' = [answer EXCEPT ![t] = {}]
    /\ UNCHANGED <<phase, current, outstanding, answers>>

Send(t) ==
    /\ phase[t] = "calling"
    /\ phase' = [phase EXCEPT ![t] = "waiting"]
    /\ outstanding' = outstanding \cup {current[t]}
    /\ UNCHANGED <<current, answers, answer>>

Execute(c) ==
    /\ c \in outstanding
    /\ outstanding' = outstanding \ {c}
    /\ answers' = answers \cup {c}
    /\ UNCHANGED <<phase, current, answer>>

Lose ==
    /\ outstanding' \subseteq outstanding
    /\ answers' \subseteq answers
    /\ UNCHANGED <<phase, current, answer>>

Fail(t) ==
    /\ phase[t] # "idle"
    /\ phase' = [phase EXCEPT ![t] = "idle"]
    /\ answer' = [answer EXCEPT ![t] = {}]
    /\ UNCHANGED <<current, outstanding, answers>>

Return(t) ==
    /\ phase[t] = "waiting"
    /\ current[t] \in answers
    /\ phase' = [phase EXCEPT ![t] = "idle"]
    /\ answer' = [answer EXCEPT ![t] = {current[t]}]
    /\ UNCHANGED <<current, outstanding, answers>>

Next ==
    \/ \E t \in Threads :
          \/ \E c \in Values : Call(t, c)
          \/ Refuse(t) \/ Send(t) \/ Fail(t) \/ Return(t)
    \/ \E c \in outstanding : Execute(c)
    \/ Lose

Spec == Init /\ [][Next]_vars
=============================================================================
