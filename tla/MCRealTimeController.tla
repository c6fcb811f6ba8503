------------------------- MODULE MCRealTimeController -------------------------
(***************************************************************************)
(* RealTimeController for TLC.  The requests are served alike, so the      *)
(* threads that serve them are symmetric.                                  *)
(***************************************************************************)
EXTENDS RealTimeController, TLC

Symmetry == Permutations(Callers)
=============================================================================
