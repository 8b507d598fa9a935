---------------------------- MODULE MCFleetRepair ----------------------------
(* Small instance of FleetRepair: two sources.                             *)
EXTENDS FleetRepair

CONSTANTS s1, s2
=============================================================================
