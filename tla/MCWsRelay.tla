------------------------------ MODULE MCWsRelay ------------------------------
(* Names of the sessions and requests of the runs. *)
EXTENDS WsRelay

CONSTANTS s1, s2, r1, r2

=============================================================================
