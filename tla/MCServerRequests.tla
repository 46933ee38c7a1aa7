-------------------------- MODULE MCServerRequests --------------------------
(* Instances of ServerRequests for TLC. *)
EXTENDS ServerRequests

CONSTANTS t1, w1

(* Requests of every kind, enough of them to fill the queue and the socket. *)
MCMethodOf == <<"known", "unknown", "short", "throws">>
=============================================================================
