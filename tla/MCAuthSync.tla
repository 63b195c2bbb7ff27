------------------------------ MODULE MCAuthSync -----------------------------
(* An instance of AuthSync; see MCAuthSync.cfg. *)
EXTENDS AuthSync, TLC

MCVersions == 1..(1 + MaxChanges) \cup {Disabled}
\* Bound: a history is followed until manager and document part.
Together == parted = {}
Symmetry == Permutations(Ids) \cup Permutations(Writers)
==============================================================================
