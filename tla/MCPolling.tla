----------------------------- MODULE MCPolling -----------------------------
(* Polling on three pins, one more than Alarm_gpios has.                    *)
EXTENDS Polling

=============================================================================
