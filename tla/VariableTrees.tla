--------------------------- MODULE VariableTrees ----------------------------
(***************************************************************************)
(* What Variable does at every depth of a value: copying and comparing.    *)
(***************************************************************************)
EXTENDS Variable

RECURSIVE Assign(_, _), AssignReversed(_, _), Equal(_, _)

(* Mutation: the copy of an array has its elements in reverse. *)
AssignReversed(lhs, rhs) ==
    [rhs EXCEPT
        !.arrayValue = lhs.arrayValue \o
            [i \in 1 .. Len(rhs.arrayValue) |->
                AssignReversed(Void, rhs.arrayValue[Len(rhs.arrayValue) + 1 - i])],
        !.structValue = lhs.structValue @@
            [name \in DOMAIN rhs.structValue |->
                AssignReversed(Void, rhs.structValue[name])]]

(* operator=: the elements of rhs are appended to those lhs has, the       *)
(* members inserted.                                                       *)
Assign(lhs, rhs) ==
    [rhs EXCEPT
        !.arrayValue = lhs.arrayValue \o
            [i \in 1 .. Len(rhs.arrayValue) |-> Assign(Void, rhs.arrayValue[i])],
        !.structValue = lhs.structValue @@
            [name \in DOMAIN rhs.structValue |-> Assign(Void, rhs.structValue[name])]]

(* The copy constructor. *)
Copy(v) == Assign(Void, v)

(* operator== *)
Equal(a, b) ==
    CASE a.type = tArray /\ b.type = tArray ->
              /\ Len(a.arrayValue) = Len(b.arrayValue)
              /\ \A i \in 1 .. Len(a.arrayValue) : Equal(a.arrayValue[i], b.arrayValue[i])
      [] a.type = tStruct /\ b.type = tStruct ->
              /\ DOMAIN a.structValue = DOMAIN b.structValue
              /\ \A name \in DOMAIN a.structValue :
                    Equal(a.structValue[name], b.structValue[name])
      [] OTHER -> EqualScalars(a, b)

(* All values in a value and itself. *)
RECURSIVE AllParts(_)
AllParts(v) == {v} \cup UNION {AllParts(w) : w \in Parts(v)}
=============================================================================
