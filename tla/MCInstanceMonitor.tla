------------------------- MODULE MCInstanceMonitor -------------------------
(* One instance; two samples a tick apart are enough for an alert.          *)
EXTENDS InstanceMonitor
One == {"i"}
=============================================================================
