------------------------------- MODULE MCAwr2243 -------------------------------
(***************************************************************************)
(* Awr2243 for TLC.  Three files: one with the legacy chirps and a         *)
(* download, one with the advanced ones and calibration data restored, one *)
(* for the continuous mode with the data stored.                           *)
(***************************************************************************)
EXTENDS Awr2243

MCFiles ==
  {[AdvChirp |-> FALSE, AdvFrame |-> FALSE, ContMode |-> FALSE, Fw |-> TRUE,
    Calib |-> "off"],
   [AdvChirp |-> TRUE, AdvFrame |-> TRUE, ContMode |-> FALSE, Fw |-> FALSE,
    Calib |-> "restore"],
   [AdvChirp |-> FALSE, AdvFrame |-> FALSE, ContMode |-> TRUE, Fw |-> FALSE,
    Calib |-> "store"]}
================================================================================
