-------------------------- MODULE MCDashboardMonitor --------------------------
(* Small instance of DashboardMonitor.                                      *)
EXTENDS DashboardMonitor, TLC

CONSTANTS v1, v2, c1, t1, t2
=============================================================================
