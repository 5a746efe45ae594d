------------------------------- MODULE MCMmal -------------------------------
(* Mmal for TLC: two buffers, one call that fails.                           *)
EXTENDS Mmal
CONSTANTS b1, b2
MCBuffers == {b1, b2}
=============================================================================
