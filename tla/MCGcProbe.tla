------------------------------- MODULE MCGcProbe -------------------------------
(* Instances of GcProbe for TLC.                                               *)
EXTENDS GcProbe

CONSTANTS l1, l2
=============================================================================
