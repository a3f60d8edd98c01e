------------------------------ MODULE MCYuvRing -----------------------------
(* The ring with its real size and its real modulus.                         *)
EXTENDS YuvRing
=============================================================================
