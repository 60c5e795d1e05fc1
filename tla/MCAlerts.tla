------------------------------ MODULE MCAlerts ------------------------------
(* Alerts on small instances. *)
EXTENDS Alerts
=============================================================================
