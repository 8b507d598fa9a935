---------------------------- MODULE MCFleetUpdate ----------------------------
(* One run of the update script beside the watchdog.                       *)
EXTENDS FleetUpdate
=============================================================================
