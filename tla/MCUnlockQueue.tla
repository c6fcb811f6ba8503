---------------------------- MODULE MCUnlockQueue ----------------------------
(***************************************************************************)
(* UnlockQueue for TLC.                                                    *)
(***************************************************************************)
EXTENDS UnlockQueue
=============================================================================
