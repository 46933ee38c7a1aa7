---------------------------- MODULE MCIIpcClient ----------------------------
(* Instances of IIpcClient for TLC. *)
EXTENDS IIpcClient
=============================================================================
