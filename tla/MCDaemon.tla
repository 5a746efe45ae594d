------------------------------ MODULE MCDaemon ------------------------------
(* Two runs, so that the second finds what a crash of the first has left; two *)
(* signals in a run, so that a handler can interrupt a handler.               *)
EXTENDS Daemon

=============================================================================
