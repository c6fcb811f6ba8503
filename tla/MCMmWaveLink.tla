---------------------------- MODULE MCMmWaveLink ----------------------------
(***************************************************************************)
(* MmWaveLink for TLC.                                                     *)
(***************************************************************************)
EXTENDS MmWaveLink, TLC
=============================================================================
