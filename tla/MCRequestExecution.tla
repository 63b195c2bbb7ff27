------------------------- MODULE MCRequestExecution -------------------------
(* Values for TLC: the credentials and the retries they allow. *)
EXTENDS RequestExecution

CONSTANTS a1, a2, a3

OneRetry == [a \in Auths |-> 1]
\* The second credential overrides request-retry.
NoRetryForA2 == [a \in Auths |-> IF a = a2 THEN 0 ELSE 1]

=============================================================================
