---------------------------- MODULE MCSupervisor ----------------------------
(* Supervisor on three PIDs: one for the web server, one for its successor   *)
(* and one for the script that starts the tunnel.                            *)
EXTENDS Supervisor

CONSTANTS p1, p2, p3

=============================================================================
