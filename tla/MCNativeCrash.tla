---------------------------- MODULE MCNativeCrash ----------------------------
(* Instances of NativeCrash for TLC.  The system's own handlers are functions  *)
(* except for SIGPIPE, which the zygote sets to SIG_IGN.                       *)
EXTENDS NativeCrash

CONSTANTS main, worker, SIGSEGV, SIGPIPE

Android == [s \in Signals |-> IF s = SIGPIPE THEN "constant" ELSE "function"]

\* Two threads fault and all else goes well, or one does and nothing goes well.
TwoFaults  == [crashes |-> 2, faults |-> {}]
EveryFault == [crashes |-> 1, faults |-> FaultKinds]

Everything == {TwoFaults, EveryFault}
=============================================================================
