----------------------------- MODULE MCRpcCalls -----------------------------
(* Instances of RpcCalls for TLC. *)
EXTENDS RpcCalls, TLC

CONSTANTS t1, t2, w1, w2

Symmetry == Permutations({t1, t2}) \cup Permutations({w1, w2})
=============================================================================
