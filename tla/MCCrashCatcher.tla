---------------------------- MODULE MCCrashCatcher ----------------------------
(* Instances of CrashCatcher for TLC.                                          *)
EXTENDS CrashCatcher

CONSTANTS main, worker, a1, a2
=============================================================================
