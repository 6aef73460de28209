----------------------------- MODULE DumpService -----------------------------
(***************************************************************************)
(* What the fork dumper promises its callers, whatever threads, locks and  *)
(* processes it takes: at most one dump is being written at a time, only   *)
(* for a caller that waits for it; nobody gets an answer while his dump is *)
(* being written, and TRUE only if it was written to its end, or gave up   *)
(* of itself; an answer is for good.                                       *)
(***************************************************************************)
CONSTANT Requests

VARIABLES asked,   \* each request: "no", "waiting", "returned" or "dead"
          writer,  \* its dump: "none", "writing", "complete", "threw" or "killed"
          answer   \* TRUE once success has been told

vars == <<asked, writer, answer>>

Init ==
    /\ asked = [r \in Requests |-> "no"]
    /\ writer = [r \in Requests |-> "none"]
    /\ answer = [r \in Requests |-> FALSE]

Ask(r) ==
    /\ asked[r] = "no"
    /\ asked' = [asked EXCEPT ![r] = "waiting"]
    /\ UNCHANGED <<writer, answer>>

\* On a system it does not know.
Refuse(r) ==
    /\ asked[r] = "no"
    /\ asked' = [asked EXCEPT ![r] = "returned"]
    /\ UNCHANGED <<writer, answer>>

StartWriting(r) ==
    /\ asked[r] = "waiting" /\ writer[r] = "none"
    /\ \A s \in Requests : writer[s] # "writing"
    /\ writer' = [writer EXCEPT ![r] = "writing"]
    /\ UNCHANGED <<asked, answer>>

WriterEnds(r, how) ==
    /\ writer[r] = "writing"
    /\ writer' = [writer EXCEPT ![r] = how]
    /\ UNCHANGED <<asked, answer>>

Succeed(r) ==
    /\ asked[r] = "waiting" /\ writer[r] \in {"complete", "threw"}
    /\ answer' = [answer EXCEPT ![r] = TRUE]
    /\ UNCHANGED <<asked, writer>>

Return(r) ==
    /\ asked[r] = "waiting" /\ writer[r] # "writing"
    /\ asked' = [asked EXCEPT ![r] = "returned"]
    /\ UNCHANGED <<writer, answer>>

\* The file could not be created, and nobody caught the exception.
Die(r) ==
    /\ asked[r] = "waiting" /\ writer[r] = "none"
    /\ asked' = [asked EXCEPT ![r] = "dead"]
    /\ UNCHANGED <<writer, answer>>

Next ==
    \E r \in Requests :
        \/ Ask(r) \/ Refuse(r) \/ StartWriting(r)
        \/ \E how \in {"complete", "threw", "killed"} : WriterEnds(r, how)
        \/ Succeed(r) \/ Return(r) \/ Die(r)

Spec == Init /\ [][Next]_vars
=============================================================================
