--------------------------- MODULE MCUpdateDispatch --------------------------
(* One instance of UpdateDispatch; see MCUpdateDispatch.cfg. *)
EXTENDS UpdateDispatch
==============================================================================
