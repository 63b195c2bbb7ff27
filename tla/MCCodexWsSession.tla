-------------------------- MODULE MCCodexWsSession --------------------------
(* Names of the requests, connections and session objects, and bounds, of   *)
(* the runs.                                                               *)
EXTENDS CodexWsSession

CONSTANTS r1, r2, c1, c2, c3, o1, o2, a1, a2

\* Requests differ by name only, and so do connections: that r1 has the lock
\* first, and c1 is dialled first, loses no behaviour but for the names in it.
InOrder == /\ call[r2].pc \notin {"idle", "locking"} => call[r1].pc \notin {"idle", "locking"}
           /\ link[c2].stage # "unused" => link[c1].stage # "unused"
\* Bound: only c1 carries deltas.
FewDeltas == link[c2].deltas = 0

=============================================================================
