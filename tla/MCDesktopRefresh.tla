--------------------------- MODULE MCDesktopRefresh ---------------------------
(* Values for DesktopRefresh.                                              *)
EXTENDS DesktopRefresh

MCDelays == <<2>>
=============================================================================
