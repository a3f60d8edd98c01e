---------------------------- MODULE MCSignalLink ----------------------------
(* Three descriptors, one reset, one time the signal machine goes away.      *)
EXTENDS SignalLink
=============================================================================
