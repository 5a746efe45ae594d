----------------------------- MODULE MCCameras ------------------------------
(* One client, pictures in two parts, one failure. *)
EXTENDS Cameras
MCClients == {"client"}
MCNobody == "nobody"
=============================================================================
