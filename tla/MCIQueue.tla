------------------------------ MODULE MCIQueue ------------------------------
(* Instances of IQueue for TLC. *)
EXTENDS IQueue, TLC

CONSTANTS p1, p2, w1, w2
=============================================================================
