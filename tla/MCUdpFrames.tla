----------------------------- MODULE MCUdpFrames -----------------------------
(***************************************************************************)
(* UdpFrames for TLC.                                                      *)
(***************************************************************************)
EXTENDS UdpFrames
=============================================================================
