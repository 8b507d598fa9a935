--------------------------- MODULE MCFleetWatchdog ---------------------------
(* Small instances of FleetWatchdog: the constants are given by the .cfg.  *)
EXTENDS FleetWatchdog
=============================================================================
