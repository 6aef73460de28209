------------------------------- MODULE ForkDump -------------------------------
(***************************************************************************)
(* Dumping the heap from a forked child: ForkStripHeapDumper over          *)
(* ForkJvmHeapDumper over HprofDump.  A request is one call of dump() or   *)
(* of dumpWithNonBlockManner(), made from a thread of its own; the latter  *)
(* names the file and leaves the dump to a worker thread.  Both objects    *)
(* are singletons whose methods are synchronized: two locks.  The child    *)
(* sees the runtime as it was at the fork, and is watched over by alarm(). *)
(* Library loading (init, idempotent) is taken as done.                    *)
(***************************************************************************)
EXTENDS Integers, FiniteSets

CONSTANTS Requests,   \* the calls made during a run
          Scenarios,  \* the surroundings it may run in: see Scenario
          Catcher     \* is the native crash catcher installed in the app?

FaultKinds == {"fork",    \* fork() fails
               "create",  \* the hprof file cannot be created
               "throw",   \* Debug.dumpHprofData throws in the child
               "disk",    \* the disk fills up under the dump
               "crash",   \* a fatal signal hits the child
               "sigchld"} \* the app ignores SIGCHLD: no exit status to wait for

Nobody == "nobody"
NoName == "no name"

\* What each request calls, the Android version, and what may go wrong.
Scenario == [kind : [Requests -> {"plain", "strip", "strip_async"}],
             api : {"pre_R", "R_to_U", "after_U"},
             faults : SUBSET FaultKinds]

ASSUME ScenariosAssumption == Scenarios \subseteq Scenario /\ Catcher \in BOOLEAN
ASSUME NobodyAssumption == Nobody \notin Requests /\ NoName \notin Requests

VARIABLES
    scenario,     \* fixed from the start
    pc,           \* where the thread of each request stands
    result,       \* what dump() returned, FALSE until then
    notified,     \* whether onDumpFinished was posted
    returned,     \* what dumpWithNonBlockManner() itself returned, "no" until then
    strip_lock,   \* monitor of the ForkStripHeapDumper singleton
    jvm_lock,     \* monitor of the ForkJvmHeapDumper singleton
    hprof_name_,  \* the file name the strip hooks look for (a request's path)
    suspended,    \* the request whose thread suspended all the others
    gc_critical,  \* is a ScopedGCCriticalSection open?
    mutator,      \* exclusive owner of the runtime's mutator lock
    child,        \* state of each request's child process
    at_fork,      \* what the child inherited
    complete      \* has the child written the whole dump?

vm    == <<suspended, gc_critical, mutator>>
locks == <<strip_lock, jvm_lock>>
procs == <<child, at_fork, complete>>
vars  == <<scenario, pc, result, notified, returned, locks, hprof_name_, vm, procs>>

NoSnapshot == [name |-> NoName, gc_critical |-> FALSE, mutator |-> Nobody]

Init ==
    /\ scenario \in Scenarios
    /\ pc = [r \in Requests |-> "idle"]
    /\ result = [r \in Requests |-> FALSE]
    /\ notified = [r \in Requests |-> FALSE]
    /\ returned = [r \in Requests |-> "no"]
    /\ strip_lock = Nobody /\ jvm_lock = Nobody
    /\ hprof_name_ = NoName
    /\ suspended = Nobody /\ gc_critical = FALSE /\ mutator = Nobody
    /\ child = [r \in Requests |-> "none"]
    /\ at_fork = [r \in Requests |-> NoSnapshot]
    /\ complete = [r \in Requests |-> FALSE]

\* A Java thread moves only while nobody else keeps the threads suspended.
Runs(r) == suspended \in {Nobody, r}

Goto(r, from, to) == Runs(r) /\ pc[r] = from /\ pc' = [pc EXCEPT ![r] = to]

-----------------------------------------------------------------------------
(* ForkStripHeapDumper.                                                    *)

\* Mutant: the first name stays.
SetHprofNameOnce(r) == hprof_name_' = IF hprof_name_ = NoName THEN r ELSE hprof_name_

\* hprofName(path): the name lives in the strip library, one for the process.
SetHprofName(r) == hprof_name_' = r

Supported == scenario.api # "after_U"

\* The version guard of both methods.
NotSupported(r) ==
    /\ scenario.kind[r] # "plain" /\ ~Supported
    /\ Goto(r, "idle", "done")
    /\ returned' = [returned EXCEPT ![r] = IF scenario.kind[r] = "strip_async" THEN "false" ELSE @]
    /\ UNCHANGED <<scenario, result, notified, locks, hprof_name_, vm, procs>>

\* dump(): name the file and call the fork dumper, all under the lock.
StripDump(r) ==
    /\ scenario.kind[r] = "strip" /\ Supported /\ strip_lock = Nobody
    /\ Goto(r, "idle", "dump")
    /\ strip_lock' = r
    /\ SetHprofName(r)
    /\ UNCHANGED <<scenario, result, notified, returned, jvm_lock, vm, procs>>

\* dumpWithNonBlockManner(): name the file and start the worker, under the lock.
StripDumpAsync(r) ==
    /\ scenario.kind[r] = "strip_async" /\ Supported /\ strip_lock = Nobody
    /\ Goto(r, "idle", "dump")
    /\ strip_lock' = r
    /\ SetHprofName(r)
    /\ UNCHANGED <<scenario, result, notified, returned, jvm_lock, vm, procs>>

\* It returns what the worker, now on its own, has stored so far, and frees the lock.
Returning(r) ==
    scenario.kind[r] = "strip_async" /\ pc[r] # "idle" /\ returned[r] = "no"

AsyncReturns(r) ==
    /\ Returning(r) /\ suspended = Nobody
    /\ returned' = [returned EXCEPT ![r] = IF result[r] THEN "true" ELSE "false"]
    /\ strip_lock' = Nobody
    /\ UNCHANGED <<scenario, pc, result, notified, jvm_lock, hprof_name_, vm, procs>>

PlainDump(r) ==
    /\ scenario.kind[r] = "plain"
    /\ Goto(r, "idle", "dump")
    /\ UNCHANGED <<scenario, result, notified, returned, locks, hprof_name_, vm, procs>>

\* Mutant: only a success is posted.
NotifiesSuccess(r) == scenario.kind[r] = "strip_async" /\ result[r]

\* Mutant: the lock is kept.
StripLockKept(r) == strip_lock

\* The worker posts the result; a blocking dump() returns it and frees its lock.
Notifies(r) == scenario.kind[r] = "strip_async"

StripLockAfter(r) == IF scenario.kind[r] = "strip" THEN Nobody ELSE strip_lock

Finish(r) ==
    /\ Goto(r, "finish", "done")
    /\ notified' = [notified EXCEPT ![r] = Notifies(r)]
    /\ strip_lock' = StripLockAfter(r)
    /\ UNCHANGED <<scenario, result, returned, jvm_lock, hprof_name_, vm, procs>>

-----------------------------------------------------------------------------
(* ForkJvmHeapDumper.dump() in the parent.                                 *)

\* Mutant: dump() not synchronized.
EnterDumpUnlocked(r) ==
    /\ Goto(r, "dump", "suspend")
    /\ jvm_lock' = r
    /\ UNCHANGED <<scenario, result, notified, returned, strip_lock, hprof_name_, vm, procs>>

EnterDump(r) ==
    /\ jvm_lock = Nobody
    /\ Goto(r, "dump", "suspend")
    /\ jvm_lock' = r
    /\ UNCHANGED <<scenario, result, notified, returned, strip_lock, hprof_name_, vm, procs>>

\* createNewFile throws: RuntimeException out of dump().  ForkStripHeapDumper's
\* dump() catches it; a worker or a caller of the plain dumper dies of it.
CreateFails(r) ==
    /\ "create" \in scenario.faults
    /\ jvm_lock = r
    /\ Goto(r, "suspend", IF scenario.kind[r] = "strip" THEN "finish" ELSE "crashed")
    /\ jvm_lock' = Nobody
    /\ UNCHANGED <<scenario, result, notified, returned, strip_lock, hprof_name_, vm, procs>>

LeaveDump(r, res) ==
    /\ jvm_lock' = Nobody
    /\ result' = [result EXCEPT ![r] = res]

-----------------------------------------------------------------------------
(* HprofDump::SuspendAndFork.                                              *)

\* SuspendVM, or the two scoped objects: garbage collection off, then all other
\* threads suspended with the mutator lock held exclusively.
SuspendAll(r) ==
    /\ mutator = Nobody /\ ~gc_critical
    /\ Goto(r, "suspend", "unlock")
    /\ suspended' = IF scenario.api = "after_U" THEN suspended ELSE r
    /\ gc_critical' = (scenario.api = "R_to_U")
    /\ mutator' = IF scenario.api = "R_to_U" THEN r ELSE mutator
    /\ UNCHANGED <<scenario, result, notified, returned, locks, hprof_name_, procs>>

\* Mutant: the critical section stays open.
ReleaseMutatorOnly == mutator' = Nobody /\ UNCHANGED gc_critical

\* Avoid deadlock with the child: the lock and the critical section are given
\* up before the fork, the other threads stay suspended.
ReleaseForChild ==
    /\ mutator' = Nobody
    /\ gc_critical' = FALSE

PrepareFork(r) ==
    /\ Goto(r, "unlock", "fork")
    /\ IF scenario.api = "R_to_U" THEN ReleaseForChild ELSE UNCHANGED <<gc_critical, mutator>>
    /\ UNCHANGED <<scenario, result, notified, returned, locks, hprof_name_, suspended, procs>>

\* The child inherits a copy of everything; the parent goes on with its pid.
Fork(r) ==
    /\ Goto(r, "fork", "resume")
    /\ child' = [child EXCEPT ![r] = "dumping"]
    /\ at_fork' = [at_fork EXCEPT ![r] =
          [name |-> hprof_name_, gc_critical |-> gc_critical, mutator |-> mutator]]
    /\ UNCHANGED <<scenario, result, notified, returned, locks, hprof_name_, vm, complete>>

\* pid < 0: neither branch of dump() is taken.
ForkFails(r) ==
    /\ "fork" \in scenario.faults
    /\ Goto(r, "fork", "finish")
    /\ LeaveDump(r, FALSE)
    /\ UNCHANGED <<scenario, notified, returned, strip_lock, hprof_name_, vm, procs>>

-----------------------------------------------------------------------------
(* HprofDump::ResumeAndWait.                                               *)

\* ResumeVM; or take the mutator lock back and let the scoped object resume.
SuspendedAfter(r) == IF suspended = r THEN Nobody ELSE suspended

Resume(r) ==
    /\ mutator = Nobody
    /\ Goto(r, "resume", "wait")
    /\ suspended' = SuspendedAfter(r)
    /\ UNCHANGED <<scenario, result, notified, returned, locks, hprof_name_, gc_critical, mutator,
                   procs>>

\* By exitProcess, by the end of its last thread, or by a signal.
Gone == {"exited", "ended", "killed"}

\* Mutants: the pid for the result; any end of the child counts.
WaitResultPid(r) == r

WaitResultAnyEnd(r) == child[r] \in Gone

\* waitpid: only a child that exited counts, whatever its status.
WaitResult(r) == child[r] \in {"exited", "ended"}

\* Mutant: an interrupted wait (EINTR) is taken for the end of the child.
ReapInterrupted(r) ==
    /\ Goto(r, "wait", "finish")
    /\ LeaveDump(r, WaitResult(r))
    /\ UNCHANGED <<scenario, notified, returned, strip_lock, hprof_name_, vm, procs>>

Reap(r) ==
    /\ child[r] \in Gone
    /\ Goto(r, "wait", "finish")
    /\ LeaveDump(r, WaitResult(r))
    /\ UNCHANGED <<scenario, notified, returned, strip_lock, hprof_name_, vm, procs>>

\* Any other error: the app ignores SIGCHLD, and the child is gone without a trace.
WaitFails(r) ==
    /\ "sigchld" \in scenario.faults
    /\ child[r] \in Gone
    /\ Goto(r, "wait", "finish")
    /\ LeaveDump(r, FALSE)
    /\ UNCHANGED <<scenario, notified, returned, strip_lock, hprof_name_, vm, procs>>

\* EINTR: call waitpid again.
WaitInterrupted(r) == pc[r] = "wait" /\ Runs(r) /\ UNCHANGED vars

-----------------------------------------------------------------------------
(* The child process.                                                      *)

Alive == {"dumping", "failed", "stuck"}

ChildKeeps == <<scenario, pc, result, notified, returned, locks, hprof_name_, vm, at_fork>>

\* The runtime's own dump code opens a GC critical section and suspends all
\* threads, of which only this one exists: both must be free in the child, and
\* no thread may have been caught running at the fork.
CanDump(r) ==
    /\ ~at_fork[r].gc_critical /\ at_fork[r].mutator = Nobody
    /\ Supported

\* dumpHprofData, then exitProcess.
ChildDumps(r) ==
    /\ child[r] = "dumping" /\ CanDump(r)
    /\ child' = [child EXCEPT ![r] = "exited"]
    /\ complete' = [complete EXCEPT ![r] = TRUE]
    /\ UNCHANGED ChildKeeps

Stripping(r) == at_fork[r].name = r

\* The dump fails.  Under the strip hooks a full disk makes FullyWrite spin; the
\* plain dump throws instead.  The exception takes the child out of dump() and
\* back into its caller's code (see ChildFallsOut).
ChildDumpFails(r) ==
    /\ child[r] = "dumping" /\ CanDump(r)
    /\ \E fault \in scenario.faults \cap {"throw", "disk"} :
         child' = [child EXCEPT ![r] =
             IF fault = "disk" /\ Stripping(r) THEN "stuck" ELSE "failed"]
    /\ UNCHANGED <<complete, ChildKeeps>>

\* The child runs on as a second copy of the caller until its only thread ends,
\* which ends the process with status 0.
ChildFallsOut(r) ==
    /\ child[r] = "failed"
    /\ child' = [child EXCEPT ![r] = "ended"]
    /\ UNCHANGED <<complete, ChildKeeps>>

\* A fatal signal: the app's crash catcher, inherited by the child, waits for a
\* cleanup thread the child does not have.
ChildCrashes(r) ==
    /\ "crash" \in scenario.faults
    /\ child[r] \in {"dumping", "failed"}
    /\ child' = [child EXCEPT ![r] = IF Catcher THEN "stuck" ELSE "killed"]
    /\ UNCHANGED <<complete, ChildKeeps>>

\* Mutant: a handler that hangs is not ended by the alarm.
AlarmSparesStuck(r) ==
    /\ child[r] = "dumping"
    /\ child' = [child EXCEPT ![r] = "killed"]
    /\ UNCHANGED <<complete, ChildKeeps>>

\* alarm(60).
AlarmFires(r) ==
    /\ child[r] \in Alive
    /\ child' = [child EXCEPT ![r] = "killed"]
    /\ UNCHANGED <<complete, ChildKeeps>>

-----------------------------------------------------------------------------
Call(r) == NotSupported(r) \/ StripDump(r) \/ StripDumpAsync(r) \/ PlainDump(r)

ParentStep(r) ==
    \/ EnterDump(r) \/ CreateFails(r) \/ SuspendAll(r) \/ PrepareFork(r)
    \/ Fork(r) \/ ForkFails(r) \/ Resume(r) \/ Reap(r) \/ WaitFails(r)
    \/ Finish(r)

ChildStep(r) == ChildDumps(r) \/ ChildDumpFails(r) \/ ChildFallsOut(r) \/ ChildCrashes(r)

\* A thread has come out of dump() and left all the others suspended.
Frozen == suspended # Nobody /\ pc[suspended] \in {"finish", "done"}

\* Every request has returned, or its thread died or stays suspended.
AllDone ==
    /\ \A r \in Requests : pc[r] \in {"done", "crashed"} \/ (Frozen /\ suspended # r)
    /\ UNCHANGED vars

Next ==
    \/ \E r \in Requests : Call(r) \/ AsyncReturns(r) \/ ParentStep(r) \/ WaitInterrupted(r)
                             \/ ChildStep(r) \/ AlarmFires(r)
    \/ AllDone

Spec == Init /\ [][Next]_vars

\* A thread that can go on does (there are finitely many calls, so that a monitor
\* somebody waits for stays free in the end), and the alarm goes off.
FairSpec ==
    /\ Spec
    /\ \A r \in Requests : WF_vars(ParentStep(r)) /\ WF_vars(AlarmFires(r))

-----------------------------------------------------------------------------
(* Properties.                                                             *)

TypeOK ==
    /\ scenario \in Scenarios
    /\ pc \in [Requests -> {"idle", "dump", "suspend", "unlock", "fork", "resume", "wait",
                            "finish", "done", "crashed"}]
    /\ result \in [Requests -> BOOLEAN] /\ notified \in [Requests -> BOOLEAN]
    /\ returned \in [Requests -> {"no", "false", "true"}]
    /\ {strip_lock, jvm_lock, suspended, mutator} \subseteq Requests \cup {Nobody}
    /\ hprof_name_ \in Requests \cup {NoName}
    /\ gc_critical \in BOOLEAN
    /\ child \in [Requests -> {"none"} \cup Gone \cup Alive]
    /\ at_fork \in [Requests -> [name : Requests \cup {NoName}, gc_critical : BOOLEAN,
                                 mutator : Requests \cup {Nobody}]]
    /\ complete \in [Requests -> BOOLEAN]

\* A child never inherits a lock its own dump has to take: nobody is left in the
\* child to release it.
ChildInheritsNoLock ==
    \A r \in Requests : child[r] # "none" =>
        at_fork[r].mutator = Nobody /\ ~at_fork[r].gc_critical

\* At most one child at a time, however many callers and workers there are, so
\* that two dumps never write at once.
OneChildAtATime ==
    \A r, s \in Requests : child[r] \in Alive /\ child[s] \in Alive => r = s

\* dump() returns TRUE only for a dump its child has completed.
TrueMeansDumped == \A r \in Requests : result[r] => complete[r]

\* ... which holds, of dumpWithNonBlockManner() too, unless the dump threw in the child,
\* and the child went on to end normally: no other end of a child is taken for a success.
TrueUnlessThrown ==
    \A r \in Requests :
        result[r] \/ returned[r] = "true" => complete[r] \/ child[r] = "ended"

\* A strip request dumps under the strip hooks.
StripRequestsStripped ==
    \A r \in Requests : child[r] # "none" /\ scenario.kind[r] # "plain" => Stripping(r)

\* ... which holds of the blocking ones: nobody renames the file between the
\* naming and the fork, however many others dump or name files meanwhile.
BlockingStripped ==
    \A r \in Requests : child[r] # "none" /\ scenario.kind[r] = "strip" => Stripping(r)

\* Once nobody is inside dump() or its non-blocking form, nothing is left held; the
\* threads are still suspended only if the fork failed.
NothingLeftHeld ==
    (\A r \in Requests : pc[r] \in {"idle", "done", "crashed"} /\ ~Returning(r)) =>
        /\ strip_lock = Nobody /\ jvm_lock = Nobody
        /\ mutator = Nobody /\ ~gc_critical
        /\ suspended = Nobody \/ child[suspended] = "none"

\* Every call returns, even if its child hangs, unless another call's failed fork
\* has frozen the application.
DumpReturns ==
    \A r \in Requests :
        (pc[r] \notin {"idle", "done", "crashed"}) ~> (pc[r] \in {"done", "crashed"} \/ Frozen)

\* Every accepted non-blocking request is told its result, unless its worker died
\* or the application is frozen.
ListenerNotified ==
    \A r \in Requests : (scenario.kind[r] = "strip_async" /\ pc[r] = "dump")
                            ~> (notified[r] \/ pc[r] = "crashed" \/ Frozen)

-----------------------------------------------------------------------------
(* What it is for.                                                         *)

AskedAt(place) ==
    CASE place = "idle" -> "no" [] place = "done" -> "returned" [] place = "crashed" -> "dead"
      [] OTHER -> "waiting"

WriterIn(state) ==
    CASE state \in Alive -> "writing" [] state = "exited" -> "complete"
      [] state = "ended" -> "threw" [] OTHER -> state

asked  == [r \in Requests |-> AskedAt(pc[r])]
writer == [r \in Requests |-> WriterIn(child[r])]

Service == INSTANCE DumpService WITH answer <- result

\* The dumper, with its locks, threads and child processes, does what DumpService
\* promises: above all, nobody is answered while his dump is still being written.
Promise == Service!Spec
=============================================================================
