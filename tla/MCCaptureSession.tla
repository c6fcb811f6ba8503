---------------------------- MODULE MCCaptureSession ----------------------------
(***************************************************************************)
(* CaptureSession for TLC: the constants are all in the configuration.     *)
(***************************************************************************)
EXTENDS CaptureSession
=================================================================================
