---------------------------- MODULE MCStuckMonitor ----------------------------
(* Instances of StuckMonitor for TLC.                                          *)
EXTENDS StuckMonitor
=============================================================================
