-------------------------- MODULE MCClientRegistry --------------------------
(* Two cameras and two descriptors: the third client is over the limit.      *)
EXTENDS ClientRegistry
=============================================================================
