----------------------------- MODULE MCStreamer -----------------------------
(* Two clients, so that one can ask while the other is being served, and two *)
(* camera buffers.                                                           *)
EXTENDS Streamer

=============================================================================
