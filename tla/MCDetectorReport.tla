-------------------------- MODULE MCDetectorReport --------------------------
(* Cameras with the cars of one of them, for TLC.                           *)
EXTENDS DetectorReport
=============================================================================
