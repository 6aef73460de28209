---------------------------- MODULE MCOomMonitor ----------------------------
(* Instances of OomMonitor for TLC: the default configuration, and readings on *)
(* either side of each threshold.                                              *)
EXTENDS OomMonitor

CONSTANTS c1, c2, l1, l2

Defaults ==
    [heap |-> 90, swell |-> 300, system |-> 95, thread |-> 700, fd |-> 1000, strict |-> FALSE]

\* A threshold small enough for a small heap to swell by it.
Swelling == [Defaults EXCEPT !.swell = 150]

Mem(sys, heap) == [sys |-> sys, heap |-> heap]

\* Nothing to report.
Quiet == [m \in Monitors |-> IF m = "memory" THEN {Mem(50, 20)} ELSE {20}]

\* Thread and descriptor counts below and above their thresholds, and fallen back; a
\* full system, a full heap, heaps over the ratio, one of them fallen back.
Loads == [m \in Monitors |->
            IF m = "memory"
            THEN {Mem(50, 20), Mem(96, 20), Mem(50, MaxHeap), Mem(50, (MaxHeap * 97) \div 100),
                  Mem(50, (MaxHeap * 91) \div 100)}
            ELSE {20, 1001, 1040}]

Playing(running, readings, callers, methods) ==
    [running |-> running, readings |-> readings, callers |-> callers, calls |-> methods]

\* One or two threads start and stop two quiet monitors; one thread starts and stops
\* a busy one, and the application uses its listeners and MemInfo.
Everything ==
    {Playing({"thread", "fd"}, Quiet, {c1, c2}, {"start", "stop"}),
     Playing({"thread", "fd"}, Quiet, {c1}, {"start", "stop"}),
     Playing({"memory"}, Loads, {c1}, CallKinds),
     Playing({"fd"}, Loads, {c1}, {"start", "add", "del"})}
=============================================================================
