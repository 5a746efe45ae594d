------------------------------ MODULE MCMmalVc ------------------------------
(* One buffer, one waiter for three threads (so that they wait for it), and  *)
(* one call that fails.                                                      *)
EXTENDS MmalVc
=============================================================================
