----------------------------- MODULE MCWsOutput -----------------------------
(* Two sessions share a ring of four slots.                       *)
EXTENDS WsOutput
==============================================================================
