------------------------------ MODULE MCForkDump ------------------------------
(* Instances of ForkDump for TLC: the surroundings a few calls are made in.    *)
EXTENDS ForkDump

CONSTANTS a, b, c

In(kind, api, faults) == [kind |-> kind, api |-> api, faults |-> faults]

Mixed   == [r \in Requests |-> CASE r = a -> "strip_async" [] r = b -> "strip" [] OTHER -> "plain"]
Strips  == [r \in Requests |-> "strip"]
Plains  == [r \in Requests |-> IF r = a THEN "strip" ELSE "plain"]
Asyncs  == [r \in Requests |-> "strip_async"]

\* Each kind of request and each fault, on each of the three branches of the code.
Everything ==
    {In(Mixed, "R_to_U", {"create", "crash", "throw"}),
     In(Mixed, "R_to_U", {"fork"}),
     In(Strips, "pre_R", {"disk", "sigchld"}),
     In(Mixed, "pre_R", {"create", "disk"}),
     In(Plains, "after_U", {"create", "crash"})}

Names  == {In(Asyncs, "R_to_U", {})}
Throws == {In(Strips, "R_to_U", {"throw"})}
=============================================================================
