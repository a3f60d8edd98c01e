--------------------------- MODULE MCEventRecorder --------------------------
(* A few frames and videos and a window of one second.                       *)
EXTENDS EventRecorder
=============================================================================
