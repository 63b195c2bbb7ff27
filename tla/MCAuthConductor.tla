--------------------------- MODULE MCAuthConductor ---------------------------
(* An instance of AuthConductor for TLC, with the bounds under which the   *)
(* goroutines are looked at together.                                      *)
EXTENDS AuthConductor

\* At one instant goroutines of every kind run against the orders, at most one of each
\* kind and three at once; a check that is to claim a refresh has the service only beside it.
Checking == checks["k1"].pc # "idle"
Rests(p) == p.pc = "idle"
Orders ==
  /\ now = 1 /\ Rests(refreshes["r2"]) /\ Rests(checks["k2"])
  /\ Checking => Rests(refreshes["r1"]) /\ Rests(results["q1"]) /\ Rests(rebuild) /\ Rests(catalog)
  /\ \/ Rests(refreshes["r1"]) \/ Rests(results["q1"])
     \/ Rests(rebuild) \/ Rests(catalog)

\* While time passes two refreshes run against one order, and nothing else does.
Refreshes == Marks = 0 /\ raced \subseteq {"refresh"} /\ rebuild.pc = "idle" /\ catalog.pc = "idle"
             /\ order.number <= 1

Bounds == Orders \/ Refreshes

=============================================================================
