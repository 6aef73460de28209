--------------------------- MODULE HprofDumperProofs ---------------------------
(***************************************************************************)
(* Theorems about the library hprofdumper.                                 *)
(*                                                                         *)
(* ForkDump: the safety properties of its runs, for every set of requests  *)
(* and of scenarios.  The two monitors are what the argument rests on:     *)
(* each is held exactly between two places of the code, so that the place  *)
(* of one thread excludes places of the others.  From them follows, too,   *)
(* that ForkDump implements DumpService.                                   *)
(*                                                                         *)
(* DlFcn: symbols are found, and nothing else, on every device and in      *)
(* every library file.  First what each kind of lookup gives, by the way   *)
(* the link editor builds its tables; then which library a name finds;     *)
(* then that the handles stay true while the app loads and unloads.        *)
(***************************************************************************)
EXTENDS ForkDump, DlFcn, ListTheorems, FiniteSetTheorems

\* Where a thread holds the monitor of ForkJvmHeapDumper.
InDump == {"suspend", "unlock", "fork", "resume", "wait"}

\* Where a blocking strip request holds the monitor of ForkStripHeapDumper.
InStrip == InDump \cup {"dump", "finish"}

\* Both monitors are held by whoever is inside, and by nobody else; a non-blocking call
\* is inside until it returns.
LocksInv ==
    /\ \A r \in Requests : jvm_lock = r <=> pc[r] \in InDump
    /\ \A r \in Requests :
         strip_lock = r <=> (scenario.kind[r] = "strip" /\ pc[r] \in InStrip) \/ Returning(r)
    /\ \A r \in Requests : pc[r] = "idle" => returned[r] = "no"

\* The runtime's locks are held at one place only, and the other threads are kept
\* suspended from there to the wait, or for good by whom the fork failed.
RuntimeInv ==
    /\ \A r \in Requests : mutator = r => pc[r] = "unlock" /\ scenario.api = "R_to_U"
    /\ gc_critical => scenario.api = "R_to_U" /\ \E r \in Requests : pc[r] = "unlock"
    /\ \A r \in Requests : suspended = r /\ child[r] # "none" => pc[r] = "resume"

\* A child is there from the fork on, alive until it is reaped, and free of locks.
ChildInv ==
    /\ \A r \in Requests : child[r] \in Alive => pc[r] \in {"resume", "wait"}
    /\ \A r \in Requests : child[r] # "none" =>
         /\ pc[r] \in {"resume", "wait", "finish", "done"}
         /\ at_fork[r].mutator = Nobody /\ ~at_fork[r].gc_critical

\* A result is that of a child that is gone, and exit means a whole dump.
ResultInv ==
    /\ \A r \in Requests : result[r] =>
         child[r] \in {"exited", "ended"} /\ pc[r] \in {"finish", "done"}
    /\ \A r \in Requests : returned[r] = "true" => result[r]
    /\ \A r \in Requests : child[r] = "exited" => complete[r]

\* From the naming to the fork of a blocking strip the name stays.
NameInv ==
    /\ \A r \in Requests :
         scenario.kind[r] = "strip" /\ pc[r] \in {"dump", "suspend", "unlock", "fork"}
           => hprof_name_ = r
    /\ \A r \in Requests :
         scenario.kind[r] = "strip" /\ child[r] # "none" => at_fork[r].name = r

IInv == TypeOK /\ LocksInv /\ RuntimeInv /\ ChildInv /\ ResultInv /\ NameInv

-----------------------------------------------------------------------------
(* The invariant.                                                          *)

\* Before the first call nothing is held and there is no child.
LEMMA InitIInv == Init => IInv
<1> SUFFICES ASSUME Init PROVE IInv
  OBVIOUS
<1> USE NobodyAssumption DEF Init
<1>1. TypeOK
  BY DEF TypeOK, NoSnapshot
<1>2. LocksInv
  BY DEF LocksInv, InDump, InStrip, Returning
<1>3. RuntimeInv /\ ChildInv
  BY DEF RuntimeInv, ChildInv, Alive
<1>4. ResultInv /\ NameInv
  BY DEF ResultInv, NameInv
<1>5. QED
  BY <1>1, <1>2, <1>3, <1>4 DEF IInv

\* A step that changes nothing.
LEMMA Stutter == IInv /\ UNCHANGED vars => IInv'
<1> SUFFICES ASSUME IInv, UNCHANGED vars PROVE IInv'
  OBVIOUS
<1> USE DEF vars, locks, vm, procs
<1>1. TypeOK' /\ RuntimeInv' /\ ChildInv' /\ ResultInv' /\ NameInv'
  BY DEF IInv, TypeOK, RuntimeInv, ChildInv, ResultInv, NameInv
<1>2. LocksInv'
  BY DEF IInv, LocksInv, Returning
<1>3. QED
  BY <1>1, <1>2 DEF IInv

\* A call on an Android version that is not supported returns at once.
LEMMA NotSupportedKeeps ==
  ASSUME NEW r \in Requests, IInv, NotSupported(r)
  PROVE  IInv'
<1> USE NobodyAssumption
<1> USE DEF NotSupported, Goto, vm, locks, procs
<1>1. TypeOK'
  BY DEF IInv, TypeOK, Gone, Alive
<1>2. LocksInv'
  BY DEF IInv, TypeOK, LocksInv, InDump, InStrip, Returning
<1>3. RuntimeInv'
  BY DEF IInv, TypeOK, LocksInv, RuntimeInv, ChildInv, InDump
<1>4. ChildInv'
  BY DEF IInv, TypeOK, LocksInv, RuntimeInv, ChildInv, InDump, Gone, Alive
<1>5. ResultInv'
  BY DEF IInv, TypeOK, ChildInv, ResultInv, Gone, Alive
<1>6. NameInv'
  BY DEF IInv, TypeOK, LocksInv, NameInv, ChildInv, InDump, InStrip, Returning
<1>7. QED
  BY <1>1, <1>2, <1>3, <1>4, <1>5, <1>6 DEF IInv

\* dump() takes its monitor, names the file, and keeps the name until the fork.
LEMMA StripDumpKeeps ==
  ASSUME NEW r \in Requests, IInv, StripDump(r)
  PROVE  IInv'
<1> USE NobodyAssumption
<1> USE DEF StripDump, Goto, SetHprofName, vm, locks, procs
<1>1. TypeOK'
  BY DEF IInv, TypeOK, Gone, Alive
<1>2. LocksInv'
  BY DEF IInv, TypeOK, LocksInv, InDump, InStrip, Returning
<1>3. RuntimeInv'
  BY DEF IInv, TypeOK, LocksInv, RuntimeInv, ChildInv, InDump
<1>4. ChildInv'
  BY DEF IInv, TypeOK, LocksInv, RuntimeInv, ChildInv, InDump, Gone, Alive
<1>5. ResultInv'
  BY DEF IInv, TypeOK, ChildInv, ResultInv, Gone, Alive
<1>6. NameInv'
  BY DEF IInv, TypeOK, LocksInv, NameInv, ChildInv, InDump, InStrip, Returning
<1>7. QED
  BY <1>1, <1>2, <1>3, <1>4, <1>5, <1>6 DEF IInv

\* dumpWithNonBlockManner() renames the file, but only while no blocking strip is inside.
LEMMA StripDumpAsyncKeeps ==
  ASSUME NEW r \in Requests, IInv, StripDumpAsync(r)
  PROVE  IInv'
<1> USE NobodyAssumption
<1> USE DEF StripDumpAsync, Goto, SetHprofName, vm, locks, procs
<1>1. TypeOK'
  BY DEF IInv, TypeOK, Gone, Alive
<1>2. LocksInv'
  BY DEF IInv, TypeOK, LocksInv, InDump, InStrip, Returning
<1>3. RuntimeInv'
  BY DEF IInv, TypeOK, LocksInv, RuntimeInv, ChildInv, InDump
<1>4. ChildInv'
  BY DEF IInv, TypeOK, LocksInv, RuntimeInv, ChildInv, InDump, Gone, Alive
<1>5. ResultInv'
  BY DEF IInv, TypeOK, ChildInv, ResultInv, Gone, Alive
<1>6. NameInv'
  BY DEF IInv, TypeOK, LocksInv, NameInv, ChildInv, InDump, InStrip, Returning
<1>7. QED
  BY <1>1, <1>2, <1>3, <1>4, <1>5, <1>6 DEF IInv

\* The non-blocking call returns what its worker has stored, and frees the monitor.
LEMMA AsyncReturnsKeeps ==
  ASSUME NEW r \in Requests, IInv, AsyncReturns(r)
  PROVE  IInv'
<1> USE NobodyAssumption
<1> USE DEF AsyncReturns, Returning, vm, locks, procs
<1>1. TypeOK'
  BY DEF IInv, TypeOK, Gone, Alive
<1>2. LocksInv'
  BY DEF IInv, TypeOK, LocksInv, InDump, InStrip
<1>3. RuntimeInv'
  BY DEF IInv, TypeOK, LocksInv, RuntimeInv, ChildInv, InDump
<1>4. ChildInv'
  BY DEF IInv, TypeOK, LocksInv, RuntimeInv, ChildInv, InDump, Gone, Alive
<1>5. ResultInv'
  BY DEF IInv, TypeOK, ChildInv, ResultInv, Gone, Alive
<1>6. NameInv'
  BY DEF IInv, TypeOK, LocksInv, NameInv, ChildInv, InDump, InStrip
<1>7. QED
  BY <1>1, <1>2, <1>3, <1>4, <1>5, <1>6 DEF IInv

\* A plain dump names nothing.
LEMMA PlainDumpKeeps ==
  ASSUME NEW r \in Requests, IInv, PlainDump(r)
  PROVE  IInv'
<1> USE NobodyAssumption
<1> USE DEF PlainDump, Goto, vm, locks, procs
<1>1. TypeOK'
  BY DEF IInv, TypeOK, Gone, Alive
<1>2. LocksInv'
  BY DEF IInv, TypeOK, LocksInv, InDump, InStrip, Returning
<1>3. RuntimeInv'
  BY DEF IInv, TypeOK, LocksInv, RuntimeInv, ChildInv, InDump
<1>4. ChildInv'
  BY DEF IInv, TypeOK, LocksInv, RuntimeInv, ChildInv, InDump, Gone, Alive
<1>5. ResultInv'
  BY DEF IInv, TypeOK, ChildInv, ResultInv, Gone, Alive
<1>6. NameInv'
  BY DEF IInv, TypeOK, LocksInv, NameInv, ChildInv, InDump, InStrip, Returning
<1>7. QED
  BY <1>1, <1>2, <1>3, <1>4, <1>5, <1>6 DEF IInv

\* One thread at a time enters ForkJvmHeapDumper.dump().
LEMMA EnterDumpKeeps ==
  ASSUME NEW r \in Requests, IInv, EnterDump(r)
  PROVE  IInv'
<1> USE NobodyAssumption
<1> USE DEF EnterDump, Goto, vm, locks, procs
<1>1. TypeOK'
  BY DEF IInv, TypeOK, Gone, Alive
<1>2. LocksInv'
  BY DEF IInv, TypeOK, LocksInv, InDump, InStrip, Returning
<1>3. RuntimeInv'
  BY DEF IInv, TypeOK, LocksInv, RuntimeInv, ChildInv, InDump
<1>4. ChildInv'
  BY DEF IInv, TypeOK, LocksInv, RuntimeInv, ChildInv, InDump, Gone, Alive
<1>5. ResultInv'
  BY DEF IInv, TypeOK, ChildInv, ResultInv, Gone, Alive
<1>6. NameInv'
  BY DEF IInv, TypeOK, LocksInv, NameInv, ChildInv, InDump, InStrip, Returning
<1>7. QED
  BY <1>1, <1>2, <1>3, <1>4, <1>5, <1>6 DEF IInv

\* Without a file the thread leaves dump(), and the monitor is free again.
LEMMA CreateFailsKeeps ==
  ASSUME NEW r \in Requests, IInv, CreateFails(r)
  PROVE  IInv'
<1> USE NobodyAssumption
<1> USE DEF CreateFails, Goto, vm, locks, procs
<1>1. TypeOK'
  BY DEF IInv, TypeOK, Gone, Alive
<1>2. LocksInv'
  BY DEF IInv, TypeOK, LocksInv, InDump, InStrip, Returning
<1>3. RuntimeInv'
  BY DEF IInv, TypeOK, LocksInv, RuntimeInv, ChildInv, InDump
<1>4. ChildInv'
  BY DEF IInv, TypeOK, LocksInv, RuntimeInv, ChildInv, InDump, Gone, Alive
<1>5. ResultInv'
  BY DEF IInv, TypeOK, ChildInv, ResultInv, Gone, Alive
<1>6. NameInv'
  BY DEF IInv, TypeOK, LocksInv, NameInv, ChildInv, InDump, InStrip, Returning
<1>7. QED
  BY <1>1, <1>2, <1>3, <1>4, <1>5, <1>6 DEF IInv

\* The runtime's locks are taken by the thread inside dump().
LEMMA SuspendAllKeeps ==
  ASSUME NEW r \in Requests, IInv, SuspendAll(r)
  PROVE  IInv'
<1> USE NobodyAssumption
<1> USE DEF SuspendAll, Goto, vm, locks, procs
<1>1. TypeOK'
  BY DEF IInv, TypeOK, Gone, Alive
<1>2. LocksInv'
  BY DEF IInv, TypeOK, LocksInv, InDump, InStrip, Returning
<1>3. RuntimeInv'
  BY DEF IInv, TypeOK, LocksInv, RuntimeInv, ChildInv, InDump
<1>4. ChildInv'
  BY DEF IInv, TypeOK, LocksInv, RuntimeInv, ChildInv, InDump, Gone, Alive
<1>5. ResultInv'
  BY DEF IInv, TypeOK, ChildInv, ResultInv, Gone, Alive
<1>6. NameInv'
  BY DEF IInv, TypeOK, LocksInv, NameInv, ChildInv, InDump, InStrip, Returning
<1>7. QED
  BY <1>1, <1>2, <1>3, <1>4, <1>5, <1>6 DEF IInv

\* They are given up before the fork.
LEMMA PrepareForkKeeps ==
  ASSUME NEW r \in Requests, IInv, PrepareFork(r)
  PROVE  IInv'
<1> USE NobodyAssumption
<1> USE DEF PrepareFork, Goto, ReleaseForChild, vm, locks, procs
<1>1. TypeOK'
  <2>1. TypeOK
    BY DEF IInv
  <2>2. mutator' \in Requests \cup {Nobody} /\ gc_critical' \in BOOLEAN
    BY <2>1 DEF TypeOK
  <2>3. pc' \in [Requests -> {"idle", "dump", "suspend", "unlock", "fork", "resume", "wait",
                              "finish", "done", "crashed"}]
    BY <2>1 DEF TypeOK
  <2>4. UNCHANGED <<scenario, result, notified, returned, strip_lock, jvm_lock, hprof_name_,
                    suspended, child, at_fork, complete>>
    OBVIOUS
  <2> HIDE DEF PrepareFork, Goto, ReleaseForChild, vm, locks, procs
  <2>5. QED
    BY <2>1, <2>2, <2>3, <2>4 DEF TypeOK
<1>2. LocksInv'
  BY DEF IInv, TypeOK, LocksInv, InDump, InStrip, Returning
<1>3. RuntimeInv'
  BY DEF IInv, TypeOK, LocksInv, RuntimeInv, ChildInv, InDump
<1>4. ChildInv'
  BY DEF IInv, TypeOK, LocksInv, RuntimeInv, ChildInv, InDump, Gone, Alive
<1>5. ResultInv'
  BY DEF IInv, TypeOK, ChildInv, ResultInv, Gone, Alive
<1>6. NameInv'
  BY DEF IInv, TypeOK, LocksInv, NameInv, ChildInv, InDump, InStrip, Returning
<1>7. QED
  BY <1>1, <1>2, <1>3, <1>4, <1>5, <1>6 DEF IInv

\* The child inherits no lock, since the forking thread excludes whoever could hold one.
LEMMA ForkKeeps ==
  ASSUME NEW r \in Requests, IInv, Fork(r)
  PROVE  IInv'
<1> USE NobodyAssumption
<1> USE DEF Fork, Goto, Runs, vm, locks, procs
<1>1. TypeOK'
  BY DEF IInv, TypeOK, Gone, Alive
<1>2. LocksInv'
  BY DEF IInv, TypeOK, LocksInv, InDump, InStrip, Returning
<1>3. RuntimeInv'
  BY DEF IInv, TypeOK, LocksInv, RuntimeInv, ChildInv, InDump
<1>4. ChildInv'
  BY DEF IInv, TypeOK, LocksInv, RuntimeInv, ChildInv, InDump, Gone, Alive
<1>5. ResultInv'
  BY DEF IInv, TypeOK, ChildInv, ResultInv, Gone, Alive
<1>6. NameInv'
  BY DEF IInv, TypeOK, LocksInv, NameInv, ChildInv, InDump, InStrip, Returning
<1>7. QED
  BY <1>1, <1>2, <1>3, <1>4, <1>5, <1>6 DEF IInv

\* Without a child the thread leaves dump(); the others stay suspended.
LEMMA ForkFailsKeeps ==
  ASSUME NEW r \in Requests, IInv, ForkFails(r)
  PROVE  IInv'
<1> USE NobodyAssumption
<1> USE DEF ForkFails, Goto, LeaveDump, vm, locks, procs
<1>1. TypeOK'
  BY DEF IInv, TypeOK, Gone, Alive
<1>2. LocksInv'
  BY DEF IInv, TypeOK, LocksInv, InDump, InStrip, Returning
<1>3. RuntimeInv'
  BY DEF IInv, TypeOK, LocksInv, RuntimeInv, ChildInv, InDump
<1>4. ChildInv'
  BY DEF IInv, TypeOK, LocksInv, RuntimeInv, ChildInv, InDump, Gone, Alive
<1>5. ResultInv'
  BY DEF IInv, TypeOK, ChildInv, ResultInv, Gone, Alive
<1>6. NameInv'
  BY DEF IInv, TypeOK, LocksInv, NameInv, ChildInv, InDump, InStrip, Returning
<1>7. QED
  BY <1>1, <1>2, <1>3, <1>4, <1>5, <1>6 DEF IInv

\* The others go on before the wait.
LEMMA ResumeKeeps ==
  ASSUME NEW r \in Requests, IInv, Resume(r)
  PROVE  IInv'
<1> USE NobodyAssumption
<1> USE DEF Resume, Goto, SuspendedAfter, vm, locks, procs
<1>1. TypeOK'
  BY DEF IInv, TypeOK, Gone, Alive
<1>2. LocksInv'
  BY DEF IInv, TypeOK, LocksInv, InDump, InStrip, Returning
<1>3. RuntimeInv'
  BY DEF IInv, TypeOK, LocksInv, RuntimeInv, ChildInv, InDump
<1>4. ChildInv'
  BY DEF IInv, TypeOK, LocksInv, RuntimeInv, ChildInv, InDump, Gone, Alive
<1>5. ResultInv'
  BY DEF IInv, TypeOK, ChildInv, ResultInv, Gone, Alive
<1>6. NameInv'
  BY DEF IInv, TypeOK, LocksInv, NameInv, ChildInv, InDump, InStrip, Returning
<1>7. QED
  BY <1>1, <1>2, <1>3, <1>4, <1>5, <1>6 DEF IInv

\* Only a child that is gone is reaped, and only one that exited is a success.
LEMMA ReapKeeps ==
  ASSUME NEW r \in Requests, IInv, Reap(r)
  PROVE  IInv'
<1> USE NobodyAssumption
<1> USE DEF Reap, Goto, LeaveDump, WaitResult, Gone, vm, locks, procs
<1>1. TypeOK'
  BY DEF IInv, TypeOK, Gone, Alive
<1>2. LocksInv'
  BY DEF IInv, TypeOK, LocksInv, InDump, InStrip, Returning
<1>3. RuntimeInv'
  BY DEF IInv, TypeOK, LocksInv, RuntimeInv, ChildInv, InDump
<1>4. ChildInv'
  BY DEF IInv, TypeOK, LocksInv, RuntimeInv, ChildInv, InDump, Gone, Alive
<1>5. ResultInv'
  BY DEF IInv, TypeOK, ChildInv, ResultInv, Gone, Alive
<1>6. NameInv'
  BY DEF IInv, TypeOK, LocksInv, NameInv, ChildInv, InDump, InStrip, Returning
<1>7. QED
  BY <1>1, <1>2, <1>3, <1>4, <1>5, <1>6 DEF IInv

\* Without a status there is no success.
LEMMA WaitFailsKeeps ==
  ASSUME NEW r \in Requests, IInv, WaitFails(r)
  PROVE  IInv'
<1> USE NobodyAssumption
<1> USE DEF WaitFails, Goto, LeaveDump, Gone, vm, locks, procs
<1>1. TypeOK'
  BY DEF IInv, TypeOK, Gone, Alive
<1>2. LocksInv'
  BY DEF IInv, TypeOK, LocksInv, InDump, InStrip, Returning
<1>3. RuntimeInv'
  BY DEF IInv, TypeOK, LocksInv, RuntimeInv, ChildInv, InDump
<1>4. ChildInv'
  BY DEF IInv, TypeOK, LocksInv, RuntimeInv, ChildInv, InDump, Gone, Alive
<1>5. ResultInv'
  BY DEF IInv, TypeOK, ChildInv, ResultInv, Gone, Alive
<1>6. NameInv'
  BY DEF IInv, TypeOK, LocksInv, NameInv, ChildInv, InDump, InStrip, Returning
<1>7. QED
  BY <1>1, <1>2, <1>3, <1>4, <1>5, <1>6 DEF IInv

\* The blocking strip gives back its monitor.
LEMMA FinishKeeps ==
  ASSUME NEW r \in Requests, IInv, Finish(r)
  PROVE  IInv'
<1> USE NobodyAssumption
<1> USE DEF Finish, Goto, Notifies, StripLockAfter, vm, locks, procs
<1>1. TypeOK'
  BY DEF IInv, TypeOK, Gone, Alive
<1>2. LocksInv'
  BY DEF IInv, TypeOK, LocksInv, InDump, InStrip, Returning
<1>3. RuntimeInv'
  BY DEF IInv, TypeOK, LocksInv, RuntimeInv, ChildInv, InDump
<1>4. ChildInv'
  BY DEF IInv, TypeOK, LocksInv, RuntimeInv, ChildInv, InDump, Gone, Alive
<1>5. ResultInv'
  BY DEF IInv, TypeOK, ChildInv, ResultInv, Gone, Alive
<1>6. NameInv'
  BY DEF IInv, TypeOK, LocksInv, NameInv, ChildInv, InDump, InStrip, Returning
<1>7. QED
  BY <1>1, <1>2, <1>3, <1>4, <1>5, <1>6 DEF IInv

\* The child exits with its dump complete.
LEMMA ChildDumpsKeeps ==
  ASSUME NEW r \in Requests, IInv, ChildDumps(r)
  PROVE  IInv'
<1> USE NobodyAssumption
<1> USE DEF ChildDumps, ChildKeeps, vm, locks, procs
<1>1. TypeOK'
  BY DEF IInv, TypeOK, Gone, Alive
<1>2. LocksInv'
  BY DEF IInv, TypeOK, LocksInv, InDump, InStrip, Returning
<1>3. RuntimeInv'
  BY DEF IInv, TypeOK, LocksInv, RuntimeInv, ChildInv, InDump
<1>4. ChildInv'
  BY DEF IInv, TypeOK, LocksInv, RuntimeInv, ChildInv, InDump, Gone, Alive
<1>5. ResultInv'
  BY DEF IInv, TypeOK, ChildInv, ResultInv, Gone, Alive
<1>6. NameInv'
  BY DEF IInv, TypeOK, LocksInv, NameInv, ChildInv, InDump, InStrip, Returning
<1>7. QED
  BY <1>1, <1>2, <1>3, <1>4, <1>5, <1>6 DEF IInv

\* A child whose dump failed is alive still.
LEMMA ChildDumpFailsKeeps ==
  ASSUME NEW r \in Requests, IInv, ChildDumpFails(r)
  PROVE  IInv'
<1> USE NobodyAssumption
<1> USE DEF ChildDumpFails, ChildKeeps, vm, locks, procs
<1>1. TypeOK'
  BY DEF IInv, TypeOK, Gone, Alive
<1>2. LocksInv'
  BY DEF IInv, TypeOK, LocksInv, InDump, InStrip, Returning
<1>3. RuntimeInv'
  BY DEF IInv, TypeOK, LocksInv, RuntimeInv, ChildInv, InDump
<1>4. ChildInv'
  BY DEF IInv, TypeOK, LocksInv, RuntimeInv, ChildInv, InDump, Gone, Alive
<1>5. ResultInv'
  BY DEF IInv, TypeOK, ChildInv, ResultInv, Gone, Alive
<1>6. NameInv'
  BY DEF IInv, TypeOK, LocksInv, NameInv, ChildInv, InDump, InStrip, Returning
<1>7. QED
  BY <1>1, <1>2, <1>3, <1>4, <1>5, <1>6 DEF IInv

\* A child that fell out of dump() ends without having exited.
LEMMA ChildFallsOutKeeps ==
  ASSUME NEW r \in Requests, IInv, ChildFallsOut(r)
  PROVE  IInv'
<1> USE NobodyAssumption
<1> USE DEF ChildFallsOut, ChildKeeps, vm, locks, procs
<1>1. TypeOK'
  BY DEF IInv, TypeOK, Gone, Alive
<1>2. LocksInv'
  BY DEF IInv, TypeOK, LocksInv, InDump, InStrip, Returning
<1>3. RuntimeInv'
  BY DEF IInv, TypeOK, LocksInv, RuntimeInv, ChildInv, InDump
<1>4. ChildInv'
  BY DEF IInv, TypeOK, LocksInv, RuntimeInv, ChildInv, InDump, Gone, Alive
<1>5. ResultInv'
  BY DEF IInv, TypeOK, ChildInv, ResultInv, Gone, Alive
<1>6. NameInv'
  BY DEF IInv, TypeOK, LocksInv, NameInv, ChildInv, InDump, InStrip, Returning
<1>7. QED
  BY <1>1, <1>2, <1>3, <1>4, <1>5, <1>6 DEF IInv

\* A child that crashes hangs or is killed.
LEMMA ChildCrashesKeeps ==
  ASSUME NEW r \in Requests, IInv, ChildCrashes(r)
  PROVE  IInv'
<1> USE NobodyAssumption
<1> USE DEF ChildCrashes, ChildKeeps, vm, locks, procs
<1>1. TypeOK'
  BY DEF IInv, TypeOK, Gone, Alive
<1>2. LocksInv'
  BY DEF IInv, TypeOK, LocksInv, InDump, InStrip, Returning
<1>3. RuntimeInv'
  BY DEF IInv, TypeOK, LocksInv, RuntimeInv, ChildInv, InDump
<1>4. ChildInv'
  BY DEF IInv, TypeOK, LocksInv, RuntimeInv, ChildInv, InDump, Gone, Alive
<1>5. ResultInv'
  BY DEF IInv, TypeOK, ChildInv, ResultInv, Gone, Alive
<1>6. NameInv'
  BY DEF IInv, TypeOK, LocksInv, NameInv, ChildInv, InDump, InStrip, Returning
<1>7. QED
  BY <1>1, <1>2, <1>3, <1>4, <1>5, <1>6 DEF IInv

\* The alarm ends a child that is alive.
LEMMA AlarmFiresKeeps ==
  ASSUME NEW r \in Requests, IInv, AlarmFires(r)
  PROVE  IInv'
<1> USE NobodyAssumption
<1> USE DEF AlarmFires, ChildKeeps, vm, locks, procs
<1>1. TypeOK'
  BY DEF IInv, TypeOK, Gone, Alive
<1>2. LocksInv'
  BY DEF IInv, TypeOK, LocksInv, InDump, InStrip, Returning
<1>3. RuntimeInv'
  BY DEF IInv, TypeOK, LocksInv, RuntimeInv, ChildInv, InDump, Alive
<1>4. ChildInv'
  BY DEF IInv, TypeOK, LocksInv, RuntimeInv, ChildInv, InDump, Gone, Alive
<1>5. ResultInv'
  BY DEF IInv, TypeOK, ChildInv, ResultInv, Gone, Alive
<1>6. NameInv'
  BY DEF IInv, TypeOK, LocksInv, NameInv, ChildInv, InDump, InStrip, Returning, Alive
<1>7. QED
  BY <1>1, <1>2, <1>3, <1>4, <1>5, <1>6 DEF IInv

\* Every step keeps the invariant.
LEMMA NextKeeps == IInv /\ [Next]_vars => IInv'
<1> SUFFICES ASSUME IInv, [Next]_vars PROVE IInv'
  OBVIOUS
<1>1. ASSUME NEW r \in Requests, Call(r) PROVE IInv'
  BY <1>1, NotSupportedKeeps, StripDumpKeeps, StripDumpAsyncKeeps, PlainDumpKeeps DEF Call
<1>2. ASSUME NEW r \in Requests, ParentStep(r) PROVE IInv'
  BY <1>2, EnterDumpKeeps, CreateFailsKeeps, SuspendAllKeeps, PrepareForkKeeps,
     ForkKeeps, ForkFailsKeeps, ResumeKeeps, ReapKeeps, WaitFailsKeeps,
     FinishKeeps
  DEF ParentStep
<1>3. ASSUME NEW r \in Requests, ChildStep(r) PROVE IInv'
  BY <1>3, ChildDumpsKeeps, ChildDumpFailsKeeps, ChildFallsOutKeeps,
     ChildCrashesKeeps DEF ChildStep
<1>4. ASSUME NEW r \in Requests, AlarmFires(r) PROVE IInv'
  BY <1>4, AlarmFiresKeeps
<1>5. ASSUME NEW r \in Requests, AsyncReturns(r) PROVE IInv'
  BY <1>5, AsyncReturnsKeeps
<1>6. CASE UNCHANGED vars
  BY <1>6, Stutter
<1>7. QED
  BY <1>1, <1>2, <1>3, <1>4, <1>5, <1>6 DEF Next, WaitInterrupted, AllDone

-----------------------------------------------------------------------------
(* The theorems.                                                           *)

\* The invariant holds in every reachable state, whatever the requests call, on
\* every Android version, and whatever goes wrong.
THEOREM Invariant == Spec => []IInv
<1>1. Init => IInv
  BY InitIInv
<1>2. IInv /\ [Next]_vars => IInv'
  BY NextKeeps
<1>3. QED
  BY <1>1, <1>2, PTL DEF Spec

\* Every variable keeps its type (the locks, the states of threads and children).
THEOREM TypeCorrect == Spec => []TypeOK
<1>1. IInv => TypeOK
  BY DEF IInv
<1>2. QED
  BY <1>1, Invariant, PTL

\* A child never inherits the mutator lock or an open critical section, although other
\* threads are anywhere in dump() at its fork (SuspendAndFork, ReleaseForChild).
THEOREM NoLockInherited == Spec => []ChildInheritsNoLock
<1>1. IInv => ChildInheritsNoLock
  BY DEF IInv, ChildInv, ChildInheritsNoLock
<1>2. QED
  BY <1>1, Invariant, PTL

\* Two children are never alive at once, however many callers and workers there are:
\* each is inside the monitor of ForkJvmHeapDumper until it is reaped.
THEOREM OneChild == Spec => []OneChildAtATime
<1>1. IInv => OneChildAtATime
  <2>1. ASSUME IInv, NEW r \in Requests, child[r] \in Alive PROVE jvm_lock = r
    BY <2>1 DEF IInv, LocksInv, ChildInv, InDump
  <2>2. QED
    BY <2>1 DEF OneChildAtATime
<1>2. QED
  BY <1>1, Invariant, PTL

\* dump() and dumpWithNonBlockManner() return TRUE only for a complete dump, or for a child
\* that threw and ended normally (ResumeAndWait).
THEOREM SuccessIsTrue == Spec => []TrueUnlessThrown
<1>1. IInv => TrueUnlessThrown
  BY DEF IInv, ResultInv, TrueUnlessThrown
<1>2. QED
  BY <1>1, Invariant, PTL

\* The dump of a blocking strip request goes through the strip hooks, whoever else names
\* files (ForkStripHeapDumper.dump).
THEOREM BlockingStripsStripped == Spec => []BlockingStripped
<1>1. IInv => BlockingStripped
  BY DEF IInv, NameInv, BlockingStripped, Stripping
<1>2. QED
  BY <1>1, Invariant, PTL

\* When nobody is inside a dump no lock is held, and the threads are suspended only by
\* a request whose fork failed.
THEOREM AllGivenBack == Spec => []NothingLeftHeld
<1>1. IInv => NothingLeftHeld
  <2> SUFFICES ASSUME IInv,
                      \A r \in Requests : pc[r] \in {"idle", "done", "crashed"} /\ ~Returning(r)
               PROVE  /\ strip_lock = Nobody /\ jvm_lock = Nobody
                      /\ mutator = Nobody /\ ~gc_critical
                      /\ suspended = Nobody \/ child[suspended] = "none"
    BY DEF NothingLeftHeld
  <2>1. {strip_lock, jvm_lock, suspended, mutator} \subseteq Requests \cup {Nobody}
    BY DEF IInv, TypeOK
  <2>2. strip_lock = Nobody /\ jvm_lock = Nobody
    BY <2>1 DEF IInv, LocksInv, InDump, InStrip
  <2>3. mutator = Nobody /\ ~gc_critical /\ (suspended = Nobody \/ child[suspended] = "none")
    BY <2>1 DEF IInv, RuntimeInv
  <2>4. QED
    BY <2>2, <2>3
<1>2. QED
  BY <1>1, Invariant, PTL

-----------------------------------------------------------------------------
(* ForkDump implements DumpService: every step of the dumper, seen through *)
(* what was asked, what the children write and what was answered, is a     *)
(* step of the service or none at all.                                     *)

ServiceStep == Service!Next \/ UNCHANGED Service!vars

\* One thread goes from one place to another: only its request is asked anew.
LEMMA AskedFollows ==
  ASSUME TypeOK, NEW r \in Requests, NEW to, pc' = [pc EXCEPT ![r] = to]
  PROVE  asked' = [asked EXCEPT ![r] = AskedAt(to)]
BY DEF asked, TypeOK

\* One child changes: only its dump does.
LEMMA WriterFollows ==
  ASSUME TypeOK, NEW r \in Requests, NEW to, child' = [child EXCEPT ![r] = to]
  PROVE  writer' = [writer EXCEPT ![r] = WriterIn(to)]
BY DEF writer, TypeOK

\* What nobody touches stays.
LEMMA AskedStays == pc' = pc => asked' = asked
BY DEF asked

LEMMA WriterStays == child' = child => writer' = writer
BY DEF writer

LEMMA AskedSame ==
  ASSUME TypeOK, NEW r \in Requests, NEW to, pc' = [pc EXCEPT ![r] = to],
         AskedAt(pc[r]) = AskedAt(to)
  PROVE  asked' = asked
<1>1. asked' = [asked EXCEPT ![r] = AskedAt(to)]
  BY AskedFollows
<1>2. asked[r] = AskedAt(to)
  BY DEF asked
<1>3. QED
  BY <1>1, <1>2 DEF asked

\* A call is a question, or is refused.
LEMMA CallIsService ==
  ASSUME NEW r \in Requests, IInv, Call(r)
  PROVE  ServiceStep
<1> USE DEF Call, NotSupported, StripDump, StripDumpAsync, PlainDump, Goto, procs
<1>1. TypeOK /\ pc[r] = "idle" /\ writer' = writer /\ result' = result
  BY WriterStays DEF IInv
<1>2. asked[r] = "no"
  BY <1>1 DEF asked, AskedAt
<1>3. CASE NotSupported(r)
  <2>1. asked' = [asked EXCEPT ![r] = AskedAt("done")]
    BY <1>1, <1>3, AskedFollows
  <2>2. Service!Refuse(r)
    BY <1>1, <1>2, <2>1 DEF Service!Refuse, AskedAt
  <2>3. QED
    BY <2>2 DEF ServiceStep, Service!Next
<1>4. CASE StripDump(r) \/ StripDumpAsync(r) \/ PlainDump(r)
  <2>1. asked' = [asked EXCEPT ![r] = AskedAt("dump")]
    BY <1>1, <1>4, AskedFollows
  <2>2. Service!Ask(r)
    BY <1>1, <1>2, <2>1 DEF Service!Ask, AskedAt
  <2>3. QED
    BY <2>2 DEF ServiceStep, Service!Next
<1>5. QED
  BY <1>3, <1>4

\* What the non-blocking call returns is not the service's answer: that comes later.
LEMMA AsyncReturnsIsService ==
  ASSUME NEW r \in Requests, IInv, AsyncReturns(r)
  PROVE  ServiceStep
<1>1. pc' = pc /\ child' = child /\ result' = result
  BY DEF AsyncReturns, procs
<1>2. asked' = asked /\ writer' = writer
  BY <1>1, AskedStays, WriterStays
<1>3. QED
  BY <1>1, <1>2 DEF ServiceStep, Service!vars

\* Locks and suspensions are nobody's business outside.
LEMMA InnerIsService ==
  ASSUME NEW r \in Requests, IInv,
         EnterDump(r) \/ SuspendAll(r) \/ PrepareFork(r) \/ Resume(r)
  PROVE  ServiceStep
<1> USE DEF EnterDump, SuspendAll, PrepareFork, Resume, Goto, procs
<1>1. TypeOK /\ writer' = writer /\ result' = result
  BY WriterStays DEF IInv
<1>2. PICK to \in {"suspend", "unlock", "fork", "wait"} :
         /\ pc[r] \in {"dump", "suspend", "unlock", "resume"}
         /\ pc' = [pc EXCEPT ![r] = to]
  OBVIOUS
<1>3. asked' = asked
  BY <1>1, <1>2, AskedSame DEF AskedAt
<1>4. QED
  BY <1>1, <1>3 DEF ServiceStep, Service!vars

\* An exception of createNewFile ends the thread, or is a FALSE to come.
LEMMA CreateFailsIsService ==
  ASSUME NEW r \in Requests, IInv, CreateFails(r)
  PROVE  ServiceStep
<1> USE DEF CreateFails, Goto, procs
<1>1. TypeOK /\ pc[r] = "suspend" /\ writer' = writer /\ result' = result
  BY WriterStays DEF IInv
<1>2. CASE scenario.kind[r] = "strip"
  <2>1. asked' = asked
    BY <1>1, <1>2, AskedSame DEF AskedAt
  <2>2. QED
    BY <1>1, <2>1 DEF ServiceStep, Service!vars
<1>3. CASE scenario.kind[r] # "strip"
  <2>1. asked' = [asked EXCEPT ![r] = "dead"]
    BY <1>1, <1>3, AskedFollows DEF AskedAt
  <2>2. child[r] = "none"
    BY <1>1 DEF IInv, ChildInv, TypeOK
  <2>3. Service!Die(r)
    BY <1>1, <2>1, <2>2 DEF Service!Die, asked, writer, AskedAt, WriterIn, Alive
  <2>4. QED
    BY <2>3 DEF ServiceStep, Service!Next
<1>4. QED
  BY <1>2, <1>3

\* The fork starts a dump: inside the monitor, so that no other child is alive.
LEMMA ForkIsService ==
  ASSUME NEW r \in Requests, IInv, Fork(r)
  PROVE  ServiceStep
<1> USE DEF Fork, Goto
<1>1. TypeOK /\ pc[r] = "fork" /\ result' = result
  BY DEF IInv
<1>2. asked' = asked
  BY <1>1, AskedSame DEF AskedAt
<1>3. writer' = [writer EXCEPT ![r] = "writing"]
  BY <1>1, WriterFollows DEF WriterIn, Alive
<1>4. child[r] = "none"
  BY <1>1 DEF IInv, ChildInv, TypeOK
<1>5. ASSUME NEW s \in Requests PROVE writer[s] # "writing"
  <2>1. child[s] \notin Alive
    BY <1>1 DEF IInv, ChildInv, LocksInv, InDump
  <2>2. child[s] \in {"none"} \cup Gone
    BY <1>1, <2>1 DEF TypeOK
  <2>3. QED
    BY <2>1, <2>2 DEF writer, WriterIn, Gone
<1>6. Service!StartWriting(r)
  BY <1>1, <1>2, <1>3, <1>4, <1>5 DEF Service!StartWriting, asked, writer, AskedAt, WriterIn, Alive
<1>7. QED
  BY <1>6 DEF ServiceStep, Service!Next

\* The thread comes out of dump(), with TRUE only for a child that went of itself.
LEMMA LeaveIsService ==
  ASSUME NEW r \in Requests, IInv, ForkFails(r) \/ Reap(r) \/ WaitFails(r)
  PROVE  ServiceStep
<1> USE DEF ForkFails, Reap, WaitFails, LeaveDump, Goto, procs
<1>1. TypeOK /\ pc[r] \in {"fork", "wait"} /\ writer' = writer
  BY WriterStays DEF IInv
<1>2. asked' = asked
  BY <1>1, AskedSame DEF AskedAt
<1>3. result[r] = FALSE /\ result \in [Requests -> BOOLEAN]
  BY <1>1 DEF IInv, ResultInv, TypeOK
<1>4. CASE result' = [result EXCEPT ![r] = FALSE]
  <2>1. result' = result
    BY <1>3, <1>4
  <2>2. QED
    BY <1>1, <1>2, <2>1 DEF ServiceStep, Service!vars
<1>5. CASE result' = [result EXCEPT ![r] = TRUE] /\ child[r] \in {"exited", "ended"}
  <2>1. Service!Succeed(r)
    BY <1>1, <1>2, <1>5 DEF Service!Succeed, asked, writer, AskedAt, WriterIn, Alive
  <2>2. QED
    BY <2>1 DEF ServiceStep, Service!Next
<1>6. CASE Reap(r)
  <2>1. result' = [result EXCEPT ![r] = WaitResult(r)]
    BY <1>6
  <2>2. CASE child[r] \in {"exited", "ended"}
    BY <1>5, <2>1, <2>2 DEF WaitResult
  <2>3. CASE child[r] \notin {"exited", "ended"}
    <3>1. WaitResult(r) = FALSE
      BY <2>3 DEF WaitResult
    <3>2. QED
      BY <1>4, <2>1, <3>1
  <2>4. QED
    BY <2>2, <2>3
<1>7. QED
  BY <1>4, <1>6

\* Nobody returns before his child is gone.
LEMMA FinishIsService ==
  ASSUME NEW r \in Requests, IInv, Finish(r)
  PROVE  ServiceStep
<1> USE DEF Finish, Goto, procs
<1>1. TypeOK /\ pc[r] = "finish" /\ writer' = writer /\ result' = result
  BY WriterStays DEF IInv
<1>2. asked' = [asked EXCEPT ![r] = "returned"]
  BY <1>1, AskedFollows DEF AskedAt
<1>3. child[r] \notin Alive
  BY <1>1 DEF IInv, ChildInv
<1>4. child[r] \in {"none"} \cup Gone
  BY <1>1, <1>3 DEF TypeOK
<1>5. writer[r] # "writing"
  BY <1>3, <1>4 DEF writer, WriterIn, Gone
<1>6. Service!Return(r)
  BY <1>1, <1>2, <1>5 DEF Service!Return, asked, AskedAt
<1>7. QED
  BY <1>6 DEF ServiceStep, Service!Next

\* What happens in the child ends the dump, or goes on with it.
LEMMA ChildIsService ==
  ASSUME NEW r \in Requests, IInv, ChildStep(r) \/ AlarmFires(r)
  PROVE  ServiceStep
<1> USE DEF ChildStep, AlarmFires, ChildDumps, ChildDumpFails, ChildFallsOut, ChildCrashes,
            ChildKeeps
<1>1. TypeOK /\ asked' = asked /\ result' = result
  BY AskedStays DEF IInv
<1>2. child[r] \in Alive
  BY DEF Alive
<1>3. writer[r] = "writing"
  BY <1>2 DEF writer, WriterIn, Alive
<1>4. \E to \in Alive \cup Gone : child' = [child EXCEPT ![r] = to]
  <2>1. CASE ChildDumpFails(r)
    <3>1. PICK fault \in scenario.faults : child' = [child EXCEPT ![r] =
              IF fault = "disk" /\ Stripping(r) THEN "stuck" ELSE "failed"]
      BY <2>1
    <3>2. CASE fault = "disk" /\ Stripping(r)
      BY <3>1, <3>2 DEF Alive
    <3>3. CASE ~(fault = "disk" /\ Stripping(r))
      BY <3>1, <3>3 DEF Alive
    <3>4. QED
      BY <3>2, <3>3
  <2>2. CASE ChildCrashes(r)
    <3>1. CASE Catcher
      BY <2>2, <3>1 DEF Alive
    <3>2. CASE ~Catcher
      BY <2>2, <3>2 DEF Gone
    <3>3. QED
      BY <3>1, <3>2
  <2>3. CASE ChildDumps(r) \/ ChildFallsOut(r) \/ AlarmFires(r)
    BY <2>3 DEF Gone
  <2>4. QED
    BY <2>1, <2>2, <2>3
<1>5. PICK to \in Alive \cup Gone : child' = [child EXCEPT ![r] = to]
  BY <1>4
<1>6. writer' = [writer EXCEPT ![r] = WriterIn(to)]
  BY <1>1, <1>5, WriterFollows
<1>7. CASE to \in Alive
  <2>1. WriterIn(to) = "writing"
    BY <1>7 DEF WriterIn, Alive
  <2>2. writer' = writer
    BY <1>3, <1>6, <2>1 DEF writer
  <2>3. QED
    BY <1>1, <2>2 DEF ServiceStep, Service!vars
<1>8. CASE to \in Gone
  <2>1. WriterIn(to) \in {"complete", "threw", "killed"}
    BY <1>8 DEF WriterIn, Gone, Alive
  <2>2. Service!WriterEnds(r, WriterIn(to))
    BY <1>1, <1>3, <1>6 DEF Service!WriterEnds
  <2>3. QED
    BY <2>1, <2>2 DEF ServiceStep, Service!Next
<1>9. QED
  BY <1>5, <1>7, <1>8

\* Every step of the dumper.
LEMMA NextIsService == IInv /\ [Next]_vars => [Service!Next]_(Service!vars)
<1> SUFFICES ASSUME IInv, [Next]_vars PROVE ServiceStep
  BY DEF ServiceStep
<1>1. CASE UNCHANGED vars
  BY <1>1, AskedStays, WriterStays DEF ServiceStep, Service!vars, vars, procs
<1>2. ASSUME NEW r \in Requests,
             Call(r) \/ AsyncReturns(r) \/ ParentStep(r) \/ WaitInterrupted(r)
               \/ ChildStep(r) \/ AlarmFires(r)
      PROVE  ServiceStep
  <2>1. CASE Call(r)
    BY <2>1, CallIsService
  <2>2. CASE ParentStep(r)
    BY <2>2, InnerIsService, CreateFailsIsService, ForkIsService, LeaveIsService,
       FinishIsService DEF ParentStep
  <2>3. CASE WaitInterrupted(r)
    BY <2>3, <1>1 DEF WaitInterrupted
  <2>4. CASE ChildStep(r) \/ AlarmFires(r)
    BY <2>4, ChildIsService
  <2>5. CASE AsyncReturns(r)
    BY <2>5, AsyncReturnsIsService
  <2>6. QED
    BY <1>2, <2>1, <2>2, <2>3, <2>4, <2>5
<1>3. CASE AllDone
  BY <1>1, <1>3 DEF AllDone
<1>4. QED
  BY <1>1, <1>2, <1>3 DEF Next

\* The fork dumper keeps the promise of DumpService, for every set of requests, on every
\* Android version and whatever fails (ForkStripHeapDumper.dump down to waitpid).
THEOREM Refinement == Spec => Promise
<1>1. Init => Service!Init
  BY DEF Init, Service!Init, asked, writer, AskedAt, WriterIn, Alive
<1>2. IInv /\ [Next]_vars => [Service!Next]_(Service!vars)
  BY NextIsService
<1>3. QED
  BY <1>1, <1>2, Invariant, PTL DEF Spec, Service!Spec, Promise

-----------------------------------------------------------------------------
(* DlFcn.                                                                  *)

\* A set of numbers that is not empty, and none of which is above n, has a greatest one.
LEMMA GreatestOf ==
  ASSUME NEW n \in Nat, NEW S, S \subseteq 0 .. n, S # {}
  PROVE  Max(S) \in S /\ \A x \in S : x <= Max(S)
<1> DEFINE T == {n - x : x \in S}
<1>1. T \subseteq Nat /\ T # {}
  <2>1. T \subseteq Nat
    OBVIOUS
  <2>2. PICK x \in S : TRUE
    OBVIOUS
  <2>3. n - x \in T
    OBVIOUS
  <2> QED
    BY <2>1, <2>3
<1> HIDE DEF T
<1>2. Min(T) \in T /\ \A y \in T : Min(T) <= y
  BY <1>1, LeastOf
<1>3. PICK x \in S : Min(T) = n - x
  BY <1>2 DEF T
<1>4. \A y \in S : x >= y
  BY <1>2, <1>3 DEF T
<1>5. \E x1 \in S : \A y \in S : x1 >= y
  BY <1>4
<1> QED
  BY <1>5 DEF Max

\* The instances have the same Min and Max.
LEMMA SameMinMax ==
  \A S : Elf!Min(S) = Min(S) /\ Elf!Max(S) = Max(S) /\ Map!Min(S) = Min(S)
BY DEF Min, Max, Elf!Min, Elf!Max, Map!Min

-----------------------------------------------------------------------------
(* The hash tables.                                                        *)

\* The symbols of an image, and where the exports start.
LEMMA ImageShape ==
  ASSUME NEW img, Elf!IsImage(img)
  PROVE  /\ Elf!Entries(img) \in Nat \ {0}
         /\ \A n \in 0 .. Elf!Entries(img) - 1 :
              Elf!Dynsym(img, n) \in [name : STRING, value : Nat]
         /\ Elf!SymOffset(img) \in 1 .. Elf!Entries(img)
         /\ \A n \in 0 .. Elf!Entries(img) - 1 :
              Elf!Dynsym(img, n).value # 0 <=> n >= Elf!SymOffset(img)
<1> DEFINE last == Elf!Entries(img) - 1
           defined == {n \in 1 .. last : Elf!Dynsym(img, n).value # 0} \cup {last + 1}
<1>1. Elf!Entries(img) \in Nat \ {0}
  BY DEF Elf!IsImage, Elf!Entries
<1>2. ASSUME NEW n \in 0 .. last PROVE Elf!Dynsym(img, n) \in [name : STRING, value : Nat]
  <2> DEFINE s == img.dynsym
             T == [name : STRING, value : Nat]
  <2>1. s \in Seq(T) /\ n + 1 \in 1 .. Len(s)
    BY <1>1 DEF Elf!IsImage, Elf!Entries
  <2> HIDE DEF s, T
  <2>2. s[n + 1] \in T
    BY <2>1
  <2> QED
    BY <2>2 DEF Elf!Dynsym, s, T
<1>3. defined \subseteq Nat /\ defined # {} /\ Elf!SymOffset(img) = Min(defined)
  BY <1>1, SameMinMax DEF Elf!SymOffset
<1> HIDE DEF defined
<1>4. Elf!SymOffset(img) \in defined /\ \A n \in defined : Elf!SymOffset(img) <= n
  BY <1>3, LeastOf
<1>5. Elf!SymOffset(img) \in 1 .. Elf!Entries(img)
  BY <1>1, <1>4 DEF defined
<1>6. ASSUME NEW n \in 0 .. last
      PROVE  Elf!Dynsym(img, n).value # 0 <=> n >= Elf!SymOffset(img)
  <2>1. CASE n < Elf!SymOffset(img)
    <3>1. n \notin defined
      BY <1>4, <1>5, <2>1 DEF defined
    <3>2. n = 0 => Elf!Dynsym(img, n).value = 0
      BY DEF Elf!IsImage
    <3> QED
      BY <1>5, <2>1, <3>1, <3>2 DEF defined
  <2>2. CASE n >= Elf!SymOffset(img)
    <3> DEFINE m == Elf!SymOffset(img)
    <3>1. m \in 1 .. last /\ Elf!Dynsym(img, m).value # 0
      BY <1>1, <1>4, <1>5, <2>2 DEF defined
    <3>2. m = n \/ m < n
      BY <1>5, <2>2
    <3> QED
      BY <2>2, <3>1, <3>2 DEF Elf!IsImage
  <2> QED
    BY <1>5, <2>1, <2>2
<1> QED
  BY <1>1, <1>2, <1>5, <1>6

LEMMA Remainder ==
  ASSUME NEW m \in Nat \ {0}, NEW a \in Nat
  PROVE  /\ a % m \in 0 .. m - 1 /\ a % m \in Nat
         /\ (a % m) + 1 \in 1 .. m /\ (a % m) + 1 - 1 = a % m
         /\ a \div m \in Nat
OBVIOUS

\* A hash has its word in the bloom filter.
LEMMA BloomWords ==
  ASSUME NEW img, Elf!IsImage(img), NEW h \in Nat, Bits \in Nat \ {0}
  PROVE  Elf!BloomWordOf(img, h) \in 0 .. img.maskwords - 1 /\ img.maskwords \in Nat
<1> DEFINE a == h \div Bits
           m == img.maskwords
<1>1. a \in Nat /\ m \in Nat \ {0}
  BY Remainder DEF Elf!IsImage
<1>2. Elf!BloomWordOf(img, h) = a % m
  BY DEF Elf!BloomWordOf
<1> HIDE DEF a, m
<1>3. a % m \in 0 .. m - 1
  BY <1>1, Remainder
<1> QED
  BY <1>1, <1>2, <1>3 DEF m

\* A bucket of the GNU table is 0, or the first of its exports.
LEMMA GnuBuckets ==
  ASSUME NEW img, Elf!IsImage(img), NEW b \in 1 .. img.nbucket
  PROVE  LET first  == Elf!GnuBucket(img)[b]
             inside == {n \in Elf!Exported(img) : Elf!GnuBucketOf(img, n) = b - 1}
         IN IF inside = {} THEN first = 0 ELSE first \in inside /\ \A n \in inside : first <= n
<1> DEFINE inside == {n \in Elf!Exported(img) : Elf!GnuBucketOf(img, n) = b - 1}
<1>1. Elf!GnuBucket(img)[b] = IF inside = {} THEN 0 ELSE Min(inside)
  BY SameMinMax DEF Elf!GnuBucket
<1>2. inside \subseteq Nat
  BY ImageShape DEF Elf!Exported
<1> HIDE DEF inside
<1>3. inside # {} => Min(inside) \in inside /\ \A n \in inside : Min(inside) <= n
  BY <1>2, LeastOf
<1> QED
  BY <1>1, <1>3 DEF inside

\* The word of an export has its hash, but for the lowest bit, which ends the chain.
LEMMA GnuChainWord ==
  ASSUME NEW img, Elf!IsImage(img), NEW n \in Elf!Exported(img)
  PROVE  /\ Elf!GnuWord(img, n) \div 2 = GnuHash[Elf!Dynsym(img, n).name] \div 2
         /\ Elf!GnuWord(img, n) % 2 = 1 <=>
              \/ n = Elf!Entries(img) - 1
              \/ Elf!GnuBucketOf(img, n + 1) # Elf!GnuBucketOf(img, n)
<1> DEFINE off  == Elf!SymOffset(img)
           h    == GnuHash[Elf!Dynsym(img, n).name]
           i    == n - off + 1
           last == n = Elf!Entries(img) - 1 \/ Elf!GnuBucketOf(img, n + 1) # Elf!GnuBucketOf(img, n)
<1>1. /\ off \in 1 .. Elf!Entries(img) /\ Elf!Entries(img) \in Nat /\ n \in off .. Elf!Entries(img) - 1
      /\ h \in Nat
  <2>1. off \in 1 .. Elf!Entries(img) /\ Elf!Entries(img) \in Nat /\ n \in off .. Elf!Entries(img) - 1
    BY ImageShape DEF Elf!Exported
  <2>2. n \in 0 .. Elf!Entries(img) - 1
    BY <2>1
  <2>3. h \in Nat
    BY <2>2 DEF Elf!IsImage
  <2> QED
    BY <2>1, <2>3
<1>2. i \in 1 .. Elf!Entries(img) - off /\ off + i - 1 = n /\ i > 0
  BY <1>1
<1>3. Elf!GnuChain(img)[i] = 2 * (h \div 2) + (IF last THEN 1 ELSE 0)
  BY <1>2 DEF Elf!GnuChain
<1>4. Elf!GnuWord(img, n) = Elf!GnuChain(img)[i]
  BY <1>2 DEF Elf!GnuWord
<1> HIDE DEF h, last
<1>5. \A x \in {0, 1} : (2 * (h \div 2) + x) \div 2 = h \div 2 /\ (2 * (h \div 2) + x) % 2 = x
  BY <1>1
<1>6. (IF last THEN 1 ELSE 0) \in {0, 1} /\ ((IF last THEN 1 ELSE 0) = 1 <=> last)
  OBVIOUS
<1> QED
  BY <1>3, <1>4, <1>5, <1>6 DEF h, last

\* A lookup by the GNU hash finds what the image exports, and that only: the bloom
\* filter lets every export pass, no chain leaves its bucket, and a walk that strays
\* through the imports ends in a chain of another bucket.
LEMMA GnuFinds ==
  ASSUME NEW img, Elf!IsImage(img), "gnu_hash" \in img.sections,
         NEW symbol, GnuHash[symbol] \in Nat, Bits \in Nat \ {0}
  PROVE  /\ \A n \in Elf!Exported(img) : Elf!Dynsym(img, n).name = symbol =>
              Elf!LookupByGnuHash(img, symbol) = Elf!Dynsym(img, n).value
         /\ (\A n \in Elf!Exported(img) : Elf!Dynsym(img, n).name # symbol) =>
              Elf!LookupByGnuHash(img, symbol) = 0
<1> DEFINE h     == GnuHash[symbol]
           end   == Elf!Entries(img)
           off   == Elf!SymOffset(img)
           b     == (h % img.nbucket) + 1
           first == Elf!GnuBucket(img)[b]
           stops == Elf!GnuStops(img, symbol, first)
           stop  == Min(stops)
           inside == {n \in Elf!Exported(img) : Elf!GnuBucketOf(img, n) = b - 1}
<1>1. /\ end \in Nat \ {0} /\ off \in 1 .. end /\ Elf!Exported(img) = off .. end - 1
      /\ Elf!HasTables(img, "gnu_hash")
  BY ImageShape DEF Elf!Exported, Elf!HasTables, Elf!IsImage
<1>2. b \in 1 .. img.nbucket /\ b - 1 = h % img.nbucket
  <2>1. img.nbucket \in Nat \ {0} /\ h \in Nat
    BY DEF Elf!IsImage
  <2> QED
    BY <2>1, Remainder
<1>3. /\ inside = {} => first = 0
      /\ inside # {} => first \in inside /\ \A n \in inside : first <= n
  BY <1>2, GnuBuckets
<1>4. first \in 0 .. end - 1 /\ (Elf!Exported(img) # {} => first \in 0 .. end - 1)
  BY <1>1, <1>3
<1>5. /\ stops = {n \in first .. end - 1 : Elf!GnuMatch(img, symbol, n) \/ Elf!GnuWord(img, n) % 2 = 1}
                   \cup {end}
      /\ stop \in stops /\ \A n \in stops : stop <= n
  <2>1. stops = {n \in first .. end - 1 : Elf!GnuMatch(img, symbol, n) \/ Elf!GnuWord(img, n) % 2 = 1}
                   \cup {end}
    BY DEF Elf!GnuStops
  <2>2. stops \subseteq Nat /\ stops # {}
    BY <1>1, <1>4, <2>1
  <2> HIDE DEF stops
  <2> QED
    BY <2>1, <2>2, LeastOf
<1>6. Elf!LookupByGnuHash(img, symbol) =
        IF ~Elf!BloomSaysMaybe(img, h) THEN 0
        ELSE IF stop = end THEN Elf!Astray
        ELSE IF Elf!GnuMatch(img, symbol, stop) THEN Elf!Dynsym(img, stop).value ELSE 0
  BY <1>1, SameMinMax DEF Elf!LookupByGnuHash
<1> HIDE DEF stops, stop, first
<1>7. ASSUME NEW n \in Elf!Exported(img), Elf!Dynsym(img, n).name = symbol
      PROVE  Elf!LookupByGnuHash(img, symbol) = Elf!Dynsym(img, n).value
  <2>1. Elf!BloomSaysMaybe(img, h)
    <3> DEFINE w == Elf!BloomWordOf(img, h) + 1
               hashes == {g \in {GnuHash[Elf!Dynsym(img, m).name] : m \in Elf!Exported(img)} :
                            Elf!BloomWordOf(img, g) = w - 1}
    <3>1. w \in 1 .. img.maskwords /\ w - 1 = Elf!BloomWordOf(img, h)
      BY BloomWords
    <3>2. Elf!Bloom(img)[w] = UNION {Elf!BloomBits(img, g) : g \in hashes}
      BY <3>1 DEF Elf!Bloom
    <3>3. h \in hashes
      BY <1>7, <3>1
    <3> HIDE DEF w, hashes
    <3> QED
      BY <3>2, <3>3 DEF Elf!BloomSaysMaybe, w
  <2>2. n \in inside
    BY <1>2, <1>7 DEF Elf!GnuBucketOf
  <2>3. first \in inside /\ first <= n
    BY <1>3, <2>2
  <2>4. Elf!GnuMatch(img, symbol, n)
    BY <1>7, GnuChainWord DEF Elf!GnuMatch
  <2>5. n \in stops
    BY <1>1, <1>5, <2>3, <2>4
  <2>6. ASSUME NEW m \in first .. n - 1 PROVE m \notin stops
    <3>1. m \in Elf!Exported(img) /\ m + 1 \in Elf!Exported(img) /\ m # end - 1
          /\ m \in 0 .. end - 1 /\ n \in 0 .. end - 1 /\ m # n
      BY <1>1, <2>3
    <3>2. ~Elf!GnuMatch(img, symbol, m)
      BY <1>7, <3>1 DEF Elf!GnuMatch, Elf!IsImage
    <3>3. Elf!GnuBucketOf(img, m + 1) = Elf!GnuBucketOf(img, m)
      <4> DEFINE B(k) == Elf!GnuBucketOf(img, k)
      <4>1. \A k, l \in Elf!Exported(img) : B(k) \in Int /\ (k < l => B(k) <= B(l))
        <5>1. \A k \in Elf!Exported(img) : B(k) \in Int
          <6> TAKE k \in Elf!Exported(img)
          <6>1. k \in 0 .. end - 1 /\ img.nbucket \in Nat \ {0}
            BY <1>1 DEF Elf!IsImage
          <6>2. GnuHash[Elf!Dynsym(img, k).name] \in Nat
            BY <6>1 DEF Elf!IsImage
          <6> QED
            BY <6>1, <6>2, Remainder DEF Elf!GnuBucketOf
        <5> QED
          BY <5>1 DEF Elf!IsImage
      <4>2. B(first) = b - 1 /\ B(n) = b - 1 /\ first \in Elf!Exported(img)
        BY <2>2, <2>3
      <4>3. (first = m \/ first < m) /\ m < m + 1 /\ (m + 1 = n \/ m + 1 < n)
        BY <1>1, <2>3, <3>1
      <4> HIDE DEF B
      <4>4. B(first) <= B(m) /\ B(m) <= B(m + 1) /\ B(m + 1) <= B(n)
        BY <3>1, <4>1, <4>2, <4>3
      <4> QED
        BY <3>1, <4>1, <4>2, <4>4 DEF B
    <3>4. ~(Elf!GnuWord(img, m) % 2 = 1)
      BY <3>1, <3>3, GnuChainWord
    <3> QED
      BY <1>1, <1>5, <3>1, <3>2, <3>4
  <2>7. stop = n
    <3>1. stop <= n /\ stop \in Nat /\ first <= stop
      BY <1>1, <1>4, <1>5, <2>5
    <3> QED
      BY <1>1, <1>4, <1>5, <2>6, <3>1
  <2> QED
    BY <1>1, <1>6, <2>1, <2>4, <2>7
<1>8. ASSUME \A n \in Elf!Exported(img) : Elf!Dynsym(img, n).name # symbol
      PROVE  Elf!LookupByGnuHash(img, symbol) = 0
  <2>1. CASE Elf!BloomSaysMaybe(img, h)
    <3>1. Elf!Exported(img) # {}
      <4>1. SUFFICES ASSUME Elf!Exported(img) = {} PROVE FALSE
        OBVIOUS
      <4> DEFINE w == Elf!BloomWordOf(img, h) + 1
      <4>2. w \in 1 .. img.maskwords
        BY BloomWords
      <4>3. Elf!Bloom(img)[w] = {}
        BY <4>1, <4>2 DEF Elf!Bloom
      <4>4. h % Bits \in Elf!BloomBits(img, h)
        BY DEF Elf!BloomBits
      <4> QED
        BY <2>1, <4>3, <4>4 DEF Elf!BloomSaysMaybe
    <3>2. end - 1 \in Elf!Exported(img) /\ end - 1 \in stops
      <4>1. end - 1 \in Elf!Exported(img)
        BY <1>1, <3>1
      <4>2. Elf!GnuWord(img, end - 1) % 2 = 1
        BY <4>1, GnuChainWord
      <4> QED
        BY <1>1, <1>4, <1>5, <4>1, <4>2
    <3>3. stop # end /\ stop \in 0 .. end - 1
      BY <1>1, <1>4, <1>5, <3>2
    <3>4. CASE Elf!GnuMatch(img, symbol, stop)
      <4>1. Elf!Dynsym(img, stop).name = symbol
        BY <3>4 DEF Elf!GnuMatch
      <4>2. ~(stop >= off)
        BY <1>1, <1>8, <3>3, <4>1
      <4>3. Elf!Dynsym(img, stop).value = 0
        BY <3>3, <4>2, ImageShape
      <4> QED
        BY <1>6, <2>1, <3>3, <3>4, <4>3
    <3>5. CASE ~Elf!GnuMatch(img, symbol, stop)
      BY <1>6, <2>1, <3>3, <3>5
    <3> QED
      BY <3>4, <3>5
  <2>2. CASE ~Elf!BloomSaysMaybe(img, h)
    BY <1>6, <2>2
  <2> QED
    BY <2>1, <2>2
<1> QED
  BY <1>7, <1>8

\* A bucket of the SysV table has the last symbol that falls into it, or 0; the chain
\* has the one before, or 0.
LEMMA ElfTables ==
  ASSUME NEW img, Elf!IsImage(img)
  PROVE  /\ \A b \in 0 .. img.nbucket - 1 :
              LET first == Elf!ElfBucket(img, b) IN
              /\ first \in 0 .. Elf!Entries(img) - 1
              /\ first # 0 => Elf!ElfBucketOf(img, first) = b
              /\ \A m \in 1 .. Elf!Entries(img) - 1 : Elf!ElfBucketOf(img, m) = b => m <= first
         /\ \A n \in 1 .. Elf!Entries(img) - 1 :
              LET prev == Elf!ElfChain(img, n) IN
              /\ prev \in 0 .. n - 1
              /\ prev # 0 => Elf!ElfBucketOf(img, prev) = Elf!ElfBucketOf(img, n)
              /\ \A m \in 1 .. n - 1 : Elf!ElfBucketOf(img, m) = Elf!ElfBucketOf(img, n) => m <= prev
<1> DEFINE end == Elf!Entries(img)
           size == img.nbucket
           B(n) == Elf!ElfBucketOf(img, n)
           In1(b) == {0} \cup {n \in 1 .. end - 1 : B(n) = b - 1}
           In2(i) == {0} \cup {m \in 1 .. i - 2 : B(m) = B(i - 1)}
           buckets == [b \in 1 .. size |-> Max(In1(b))]
           chains  == [i \in 1 .. end |-> Max(In2(i))]
           head == <<size, end>>
<1>1. end \in Nat \ {0} /\ size \in Nat \ {0}
  BY ImageShape DEF Elf!IsImage
<1>2. Elf!HashSection(img) = head \o buckets \o chains
  BY SameMinMax DEF Elf!HashSection
<1> HIDE DEF B
<1>3. ASSUME NEW b \in 1 .. size
      PROVE  buckets[b] \in In1(b) /\ buckets[b] \in Nat /\ \A x \in In1(b) : x <= buckets[b]
  <2>1. In1(b) \subseteq 0 .. end - 1 /\ In1(b) # {}
    BY <1>1
  <2> HIDE DEF In1
  <2>2. Max(In1(b)) \in In1(b) /\ \A x \in In1(b) : x <= Max(In1(b))
    BY <1>1, <2>1, GreatestOf
  <2>3. Max(In1(b)) \in Nat
    BY <2>1, <2>2
  <2> QED
    BY <2>2, <2>3
<1>4. ASSUME NEW i \in 1 .. end
      PROVE  chains[i] \in In2(i) /\ chains[i] \in Nat /\ \A x \in In2(i) : x <= chains[i]
  <2>1. In2(i) \subseteq 0 .. end /\ In2(i) # {}
    BY <1>1
  <2> HIDE DEF In2
  <2>2. Max(In2(i)) \in In2(i) /\ \A x \in In2(i) : x <= Max(In2(i))
    BY <1>1, <2>1, GreatestOf
  <2>3. Max(In2(i)) \in Nat
    BY <2>1, <2>2
  <2> QED
    BY <2>2, <2>3
<1>5. /\ head \in Seq(Nat) /\ Len(head) = 2
      /\ buckets \in Seq(Nat) /\ Len(buckets) = size
      /\ chains \in Seq(Nat) /\ Len(chains) = end
  <2>1. head \in Seq(Nat) /\ Len(head) = 2
    BY <1>1
  <2>2. ASSUME NEW f, NEW n \in Nat, f = [i \in 1 .. n |-> f[i]], \A i \in 1 .. n : f[i] \in Nat
        PROVE  f \in Seq(Nat) /\ Len(f) = n
    BY <2>2
  <2>3. buckets = [i \in 1 .. size |-> buckets[i]] /\ chains = [i \in 1 .. end |-> chains[i]]
    OBVIOUS
  <2> HIDE DEF buckets, chains
  <2> QED
    BY <1>1, <1>3, <1>4, <2>1, <2>2, <2>3
<1> HIDE DEF head, buckets, chains
<1>6. /\ head \o buckets \in Seq(Nat) /\ Len(head \o buckets) = 2 + size
      /\ \A b \in 1 .. size : (head \o buckets)[2 + b] = buckets[b]
  <2>1. /\ head \o buckets \in Seq(Nat) /\ Len(head \o buckets) = Len(head) + Len(buckets)
        /\ \A i \in 1 .. Len(head) + Len(buckets) :
             (head \o buckets)[i] = IF i <= Len(head) THEN head[i] ELSE buckets[i - Len(head)]
    BY <1>5, ConcatProperties
  <2>2. ASSUME NEW b \in 1 .. size PROVE (head \o buckets)[2 + b] = buckets[b]
    <3>1. 2 + b \in 1 .. 2 + size /\ ~(2 + b <= 2) /\ 2 + b - 2 = b
      BY <1>1
    <3> DEFINE k == 2 + b
    <3> HIDE DEF k
    <3>2. (head \o buckets)[k] = buckets[k - Len(head)]
      BY <1>5, <2>1, <3>1 DEF k
    <3> QED
      BY <1>5, <3>1, <3>2 DEF k
  <2> QED
    BY <1>5, <2>1, <2>2
<1>7. /\ \A b \in 1 .. size : Elf!HashSection(img)[2 + b] = buckets[b]
      /\ \A i \in 1 .. end : Elf!HashSection(img)[2 + size + i] = chains[i]
  <2> DEFINE front == head \o buckets
  <2> HIDE DEF front
  <2>1. /\ \A i \in 1 .. Len(front) + Len(chains) :
             (front \o chains)[i] = IF i <= Len(front) THEN front[i] ELSE chains[i - Len(front)]
    BY <1>5, <1>6, ConcatProperties DEF front
  <2>2. front \in Seq(Nat) /\ Len(front) = 2 + size /\ \A b \in 1 .. size : front[2 + b] = buckets[b]
    BY <1>6 DEF front
  <2>3. Elf!HashSection(img) = front \o chains
    BY <1>2 DEF front
  <2>4. Len(front) + Len(chains) = 2 + size + end
    BY <1>5, <2>2
  <2>5. \A b \in 1 .. size : (front \o chains)[2 + b] = front[2 + b]
    BY <1>1, <2>1, <2>2, <2>4
  <2>6. \A i \in 1 .. end : (front \o chains)[2 + size + i] = chains[i]
    <3> TAKE i \in 1 .. end
    <3>1. 2 + size + i \in 1 .. 2 + size + end /\ ~(2 + size + i <= 2 + size) /\ 2 + size + i - (2 + size) = i
      BY <1>1
    <3> DEFINE k == 2 + size + i
    <3> HIDE DEF k
    <3>2. (front \o chains)[k] = chains[k - Len(front)]
      BY <2>1, <2>2, <2>4, <3>1 DEF k
    <3> QED
      BY <2>2, <3>1, <3>2 DEF k
  <2> QED
    BY <2>2, <2>3, <2>5, <2>6
<1>8. ASSUME NEW b \in 0 .. size - 1
      PROVE  LET first == Elf!ElfBucket(img, b) IN
             /\ first \in 0 .. end - 1
             /\ first # 0 => B(first) = b
             /\ \A m \in 1 .. end - 1 : B(m) = b => m <= first
  <2>1. b + 1 \in 1 .. size /\ (b + 1) - 1 = b /\ 2 + b + 1 = 2 + (b + 1)
    BY <1>1
  <2>2. Elf!ElfBucket(img, b) = buckets[b + 1]
    BY <1>7, <2>1 DEF Elf!ElfBucket
  <2> QED
    BY <1>1, <1>3, <2>1, <2>2
<1>9. ASSUME NEW n \in 1 .. end - 1
      PROVE  LET prev == Elf!ElfChain(img, n) IN
             /\ prev \in 0 .. n - 1
             /\ prev # 0 => B(prev) = B(n)
             /\ \A m \in 1 .. n - 1 : B(m) = B(n) => m <= prev
  <2>1. n + 1 \in 1 .. end /\ (n + 1) - 1 = n /\ (n + 1) - 2 = n - 1
        /\ 2 + size + n + 1 = 2 + size + (n + 1)
    BY <1>1
  <2>2. Elf!ElfChain(img, n) = chains[n + 1]
    BY <1>7, <2>1 DEF Elf!ElfChain
  <2> QED
    BY <1>1, <1>4, <2>1, <2>2
<1> QED
  BY <1>8, <1>9 DEF B

\* The walk finds the symbol of a bucket's chain that has the name, or none.
LEMMA ElfWalks ==
  ASSUME NEW img, Elf!IsImage(img), NEW symbol
  PROVE  \A n \in 0 .. Elf!Entries(img) - 1 :
           /\ \A m \in 1 .. n :
                Elf!Dynsym(img, m).name = symbol /\ Elf!ElfBucketOf(img, m) = Elf!ElfBucketOf(img, n) =>
                  Elf!ElfWalk(img, symbol)[n] = Elf!Dynsym(img, m).value
           /\ (\A m \in 1 .. n :
                 ~(Elf!Dynsym(img, m).name = symbol /\ Elf!ElfBucketOf(img, m) = Elf!ElfBucketOf(img, n))) =>
                Elf!ElfWalk(img, symbol)[n] = 0
<1> DEFINE D == 0 .. Elf!Entries(img) - 1
           B(n) == Elf!ElfBucketOf(img, n)
           name(n) == Elf!Dynsym(img, n).name
           value(n) == Elf!Dynsym(img, n).value
           C(n) == Elf!ElfChain(img, n)
           at(n) == {m \in 1 .. n : name(m) = symbol /\ B(m) = B(n)}
           step(f, n) == IF n = 0 THEN 0 ELSE IF name(n) = symbol THEN value(n) ELSE f[C(n)]
           found == [n \in D |-> IF at(n) = {} THEN 0 ELSE value(CHOOSE m \in at(n) : TRUE)]
           walk == Elf!ElfWalk(img, symbol)
<1>1. Elf!Entries(img) \in Nat \ {0}
  BY ImageShape
<1>2. \A m, n \in D : name(m) = name(n) => m = n
  BY DEF Elf!IsImage
<1>3. \A n \in D \ {0} : /\ C(n) \in 0 .. n - 1
                         /\ C(n) # 0 => B(C(n)) = B(n)
                         /\ \A m \in 1 .. n - 1 : B(m) = B(n) => m <= C(n)
  BY <1>1, ElfTables
<1> HIDE DEF B, name, value, C
<1>4. \A n \in D : \A m \in at(n) : at(n) = {m}
  BY <1>1, <1>2
<1>5. at(0) = {}
  OBVIOUS
<1>6. ASSUME NEW n \in D \ {0}, name(n) # symbol PROVE at(n) = at(C(n))
  <2>1. C(n) \in 0 .. n - 1
    BY <1>3
  <2>2. \A m \in at(n) : m \in at(C(n))
    BY <1>1, <1>3, <1>6, <2>1
  <2>3. \A m \in at(C(n)) : m \in at(n)
    BY <1>1, <1>3, <2>1
  <2> QED
    BY <2>2, <2>3, Zenon
<1>7. \A n \in D \ {0} : name(n) = symbol => at(n) = {n}
  BY <1>1, <1>4
<1>8. found = [n \in D |-> step(found, n)]
  <2>1. ASSUME NEW n \in D PROVE found[n] = step(found, n)
    <3>1. CASE n = 0
      BY <1>5, <3>1
    <3>2. CASE n # 0 /\ name(n) = symbol
      <4>1. at(n) = {n}
        BY <1>7, <3>2
      <4>2. (CHOOSE m \in {n} : TRUE) = n
        OBVIOUS
      <4> QED
        BY <3>2, <4>1, <4>2
    <3>3. CASE n # 0 /\ name(n) # symbol
      BY <1>1, <1>3, <1>6, <3>3
    <3> QED
      BY <3>1, <3>2, <3>3
  <2>2. found = [n \in D |-> found[n]]
    OBVIOUS
  <2> HIDE DEF found
  <2> QED
    BY <2>1, <2>2
<1>9. walk = CHOOSE f : f = [n \in D |-> step(f, n)]
  BY DEF Elf!ElfWalk, C, name, value
<1>10. walk = [n \in D |-> step(walk, n)]
  <2> DEFINE P(f) == f = [n \in D |-> step(f, n)]
  <2>1. \E f : P(f)
    BY <1>8
  <2>2. walk = CHOOSE f : P(f)
    BY <1>9
  <2> HIDE DEF P, walk
  <2>3. P(walk)
    BY <2>1, <2>2, Zenon
  <2> QED
    BY <2>3 DEF P
<1> HIDE DEF found, walk
<1>11. \A n \in D : walk[n] = found[n]
  <2> SUFFICES ASSUME {n \in D : walk[n] # found[n]} # {} PROVE FALSE
    OBVIOUS
  <2> DEFINE bad == {n \in D : walk[n] # found[n]}
  <2>1. bad \subseteq Nat /\ bad # {}
    BY <1>1
  <2> HIDE DEF bad
  <2>2. PICK n \in bad : \A m \in bad : n <= m
    BY <2>1, LeastOf
  <2>3. n \in D /\ walk[n] # found[n]
    BY <2>2 DEF bad
  <2>4. walk[n] = step(walk, n) /\ found[n] = step(found, n)
    BY <1>8, <1>10, <2>3
  <2>5. n # 0 /\ name(n) # symbol
    BY <2>3, <2>4
  <2>6. C(n) \in D /\ C(n) < n /\ C(n) \in Nat /\ n \in Nat
    BY <1>1, <1>3, <2>3, <2>5
  <2>7. C(n) \notin bad
    BY <2>2, <2>6
  <2> QED
    BY <2>3, <2>4, <2>5, <2>6, <2>7 DEF bad
<1>12. ASSUME NEW n \in D
       PROVE  /\ \A m \in at(n) : walk[n] = value(m)
              /\ at(n) = {} => walk[n] = 0
  <2>1. walk[n] = IF at(n) = {} THEN 0 ELSE value(CHOOSE m \in at(n) : TRUE)
    BY <1>11 DEF found
  <2>2. ASSUME NEW m \in at(n) PROVE walk[n] = value(m)
    <3>1. at(n) = {m} /\ (CHOOSE x \in {m} : TRUE) = m
      BY <1>4
    <3> QED
      BY <2>1, <3>1
  <2> QED
    BY <2>1, <2>2
<1> QED
  BY <1>12 DEF B, name, value, walk

\* A lookup by the SysV hash finds what the image exports, and that only.
LEMMA ElfFinds ==
  ASSUME NEW img, Elf!IsImage(img), "hash" \in img.sections,
         NEW symbol, ElfHash[symbol] \in Nat
  PROVE  /\ \A n \in Elf!Exported(img) : Elf!Dynsym(img, n).name = symbol =>
              Elf!LookupByElfHash(img, symbol) = Elf!Dynsym(img, n).value
         /\ (\A n \in Elf!Exported(img) : Elf!Dynsym(img, n).name # symbol) =>
              Elf!LookupByElfHash(img, symbol) = 0
<1> DEFINE end == Elf!Entries(img)
           off == Elf!SymOffset(img)
           b   == ElfHash[symbol] % img.nbucket
           first == Elf!ElfBucket(img, b)
<1>1. /\ end \in Nat \ {0} /\ off \in 1 .. end /\ Elf!Exported(img) = off .. end - 1
      /\ Elf!HasTables(img, "hash")
      /\ \A n \in 0 .. end - 1 : Elf!Dynsym(img, n).value # 0 <=> n >= off
  BY ImageShape DEF Elf!Exported, Elf!HasTables, Elf!IsImage
<1>2. b \in 0 .. img.nbucket - 1
  <2>1. img.nbucket \in Nat \ {0}
    BY DEF Elf!IsImage
  <2> QED
    BY <2>1, Remainder
<1>3. Elf!LookupByElfHash(img, symbol) = Elf!ElfWalk(img, symbol)[first]
  BY <1>1 DEF Elf!LookupByElfHash
<1>4. /\ first \in 0 .. end - 1
      /\ first # 0 => Elf!ElfBucketOf(img, first) = b
      /\ \A m \in 1 .. end - 1 : Elf!ElfBucketOf(img, m) = b => m <= first
  BY <1>2, ElfTables
<1>5. \A m \in 1 .. end - 1 : Elf!Dynsym(img, m).name = symbol => Elf!ElfBucketOf(img, m) = b
  BY DEF Elf!ElfBucketOf
<1> HIDE DEF first, b
<1>6. ASSUME NEW n \in Elf!Exported(img), Elf!Dynsym(img, n).name = symbol
      PROVE  Elf!LookupByElfHash(img, symbol) = Elf!Dynsym(img, n).value
  <2>1. n \in 1 .. end - 1 /\ Elf!ElfBucketOf(img, n) = b
    BY <1>1, <1>5, <1>6
  <2>2. n \in 1 .. first /\ first # 0
    BY <1>1, <1>4, <2>1
  <2> QED
    BY <1>3, <1>4, <1>6, <2>1, <2>2, ElfWalks
<1>7. ASSUME \A n \in Elf!Exported(img) : Elf!Dynsym(img, n).name # symbol
      PROVE  Elf!LookupByElfHash(img, symbol) = 0
  <2>1. CASE \E m \in 1 .. first : Elf!Dynsym(img, m).name = symbol
                                /\ Elf!ElfBucketOf(img, m) = Elf!ElfBucketOf(img, first)
    <3>1. PICK m \in 1 .. first : Elf!Dynsym(img, m).name = symbol
                                /\ Elf!ElfBucketOf(img, m) = Elf!ElfBucketOf(img, first)
      BY <2>1
    <3>2. m \in 0 .. end - 1 /\ ~(m >= off)
      BY <1>1, <1>4, <1>7, <3>1
    <3>3. Elf!Dynsym(img, m).value = 0
      BY <1>1, <3>2
    <3>4. Elf!ElfWalk(img, symbol)[first] = Elf!Dynsym(img, m).value
      BY <1>4, <3>1, ElfWalks
    <3> QED
      BY <1>3, <3>3, <3>4
  <2>2. CASE ~\E m \in 1 .. first : Elf!Dynsym(img, m).name = symbol
                                 /\ Elf!ElfBucketOf(img, m) = Elf!ElfBucketOf(img, first)
    BY <1>3, <1>4, <2>2, ElfWalks
  <2> QED
    BY <2>1, <2>2
<1> QED
  BY <1>6, <1>7

-----------------------------------------------------------------------------
(* A lookup in a file.                                                     *)

Hashed(symbol) == GnuHash[symbol] \in Nat /\ ElfHash[symbol] \in Nat

\* By either table.
LEMMA HashFinds ==
  ASSUME NEW img, Elf!IsImage(img), NEW symbol, Hashed(symbol)
  PROVE  /\ img.sections \cap {"hash", "gnu_hash"} # {} =>
              \A n \in Elf!Exported(img) : Elf!Dynsym(img, n).name = symbol =>
                Elf!LookupByHash(img, symbol) = Elf!Dynsym(img, n).value
         /\ (\/ img.sections \cap {"hash", "gnu_hash"} = {}
             \/ \A n \in Elf!Exported(img) : Elf!Dynsym(img, n).name # symbol) =>
              Elf!LookupByHash(img, symbol) = 0
<1>1. GnuHash[symbol] \in Nat /\ ElfHash[symbol] \in Nat /\ Bits \in Nat \ {0}
  BY ConstantsAssumption DEF Hashed
<1>2. CASE "gnu_hash" \in img.sections
  <2>1. Elf!LookupByHash(img, symbol) = Elf!LookupByGnuHash(img, symbol)
    BY <1>2 DEF Elf!LookupByHash
  <2> QED
    BY <1>1, <1>2, <2>1, GnuFinds
<1>3. CASE "gnu_hash" \notin img.sections /\ "hash" \in img.sections
  <2>1. Elf!LookupByHash(img, symbol) = Elf!LookupByElfHash(img, symbol)
    BY <1>3 DEF Elf!LookupByHash
  <2> QED
    BY <1>1, <1>3, <2>1, ElfFinds
<1>4. CASE "gnu_hash" \notin img.sections /\ "hash" \notin img.sections
  <2>1. Elf!LookupByHash(img, symbol) = 0
    BY <1>4 DEF Elf!LookupByHash, Elf!LookupByElfHash, Elf!HasTables
  <2> QED
    BY <1>4, <2>1
<1> QED
  BY <1>2, <1>3, <1>4

\* What a file exports, it exports once.
LEMMA ExportsOnce ==
  ASSUME NEW f, Elf!IsImage(f.img), NEW symbol
  PROVE  /\ Exports(f, symbol) <=> \E n \in Elf!Exported(f.img) : Elf!Dynsym(f.img, n).name = symbol
         /\ \A n \in Elf!Exported(f.img) : Elf!Dynsym(f.img, n).name = symbol =>
              /\ Definition(f, symbol) = {Elf!Dynsym(f.img, n).value}
              /\ Elf!Dynsym(f.img, n).value \in Nat \ {0}
<1> DEFINE img == f.img
           end == Elf!Entries(img)
           dynamic == {n \in 1 .. end - 1 :
                         Elf!Dynsym(img, n).name = symbol /\ Elf!Dynsym(img, n).value # 0}
<1>1. /\ end \in Nat \ {0} /\ Elf!SymOffset(img) \in 1 .. end
      /\ Elf!Exported(img) = Elf!SymOffset(img) .. end - 1
      /\ \A n \in 0 .. end - 1 : /\ Elf!Dynsym(img, n).value # 0 <=> n >= Elf!SymOffset(img)
                                 /\ Elf!Dynsym(img, n).value \in Nat
  BY ImageShape DEF Elf!Exported
<1>2. dynamic = {n \in Elf!Exported(img) : Elf!Dynsym(img, n).name = symbol}
  BY <1>1
<1>3. Exports(f, symbol) <=> dynamic # {}
  BY DEF Exports
<1>4. ASSUME NEW n \in Elf!Exported(img), Elf!Dynsym(img, n).name = symbol
      PROVE  /\ Definition(f, symbol) = {Elf!Dynsym(img, n).value}
             /\ Elf!Dynsym(img, n).value \in Nat \ {0}
  <2>1. \A m \in Elf!Exported(img) : Elf!Dynsym(img, m).name = symbol => m = n
    <3>1. \A k, m \in 0 .. end - 1 : Elf!Dynsym(img, m).name = Elf!Dynsym(img, k).name => m = k
      BY DEF Elf!IsImage
    <3>2. Elf!Exported(img) \subseteq 0 .. end - 1
      BY <1>1
    <3> QED
      BY <1>4, <3>1, <3>2
  <2> DEFINE all == dynamic
  <2>2. Definition(f, symbol) = IF all # {} THEN {Elf!Dynsym(img, m).value : m \in all}
                                ELSE Definition(f, symbol)
    BY DEF Definition
  <2>3. all = {n}
    BY <1>2, <1>4, <2>1, Zenon
  <2> HIDE DEF all
  <2> QED
    BY <1>1, <1>4, <2>2, <2>3
<1> QED
  BY <1>2, <1>3, <1>4

\* What LookupSymbol returns: never what lies behind the symbol table.
LEMMA LookupFinds ==
  ASSUME NEW f, Elf!IsImage(f.img), NEW symbol, Hashed(symbol), NEW base \in Nat \ {0},
         NEW only \in BOOLEAN
  PROVE  LET found == Elf!LookupSymbol(f.img, symbol, base, only)
             hashed == f.img.sections \cap {"hash", "gnu_hash"} # {}
             first == f.img.symtab[Min(Elf!Candidates(f.img, symbol))]
         IN /\ Exports(f, symbol) /\ hashed =>
                 found # Null /\ found \in Nat /\ found - base \in Definition(f, symbol)
            /\ ~(Exports(f, symbol) /\ hashed) =>
                 IF only \/ Elf!Candidates(f.img, symbol) = {} THEN found = Null
                 ELSE /\ found # Null /\ found - base = first.value
                      /\ first.value # 0 \/ Exports(f, symbol) => first.value \in Definition(f, symbol)
<1> DEFINE img == f.img
           found == Elf!LookupSymbol(img, symbol, base, only)
           hashed == img.sections \cap {"hash", "gnu_hash"} # {}
           cands == Elf!Candidates(img, symbol)
           vaddr == Elf!LookupByHash(img, symbol)
           first == img.symtab[Min(cands)]
<1>1. /\ found = CASE vaddr = -1 -> -1
                  [] vaddr \notin {0, -1} -> base + vaddr
                  [] vaddr = 0 /\ (only \/ cands = {}) -> 0
                  [] OTHER -> base + first.value
      /\ Null = 0
  BY SameMinMax DEF Elf!LookupSymbol, Elf!Astray, Elf!Null, Null
<1>2. ASSUME cands # {}
      PROVE  Min(cands) \in cands /\ first.name = symbol /\ first.value \in Nat
             /\ (first.value # 0 \/ Exports(f, symbol) => first.value \in Definition(f, symbol))
  <2> DEFINE T == [name : STRING, value : Nat, type : STRING]
             s == img.symtab
  <2>1. s \in Seq(T)
    BY DEF Elf!IsImage
  <2> HIDE DEF T
  <2>2. cands \subseteq 1 .. Len(s) /\ cands \subseteq Nat
    BY <2>1 DEF Elf!Candidates
  <2>3. Min(cands) \in cands
    BY <1>2, <2>2, LeastOf
  <2>4. first \in T
    BY <2>1, <2>2, <2>3
  <2>5. first.name = symbol /\ first.type \in {"FUNC", "OBJECT"} /\ first.value \in Nat
        /\ Min(cands) \in DOMAIN img.symtab
    BY <2>3, <2>4 DEF Elf!Candidates, T
  <2>6. CASE Exports(f, symbol)
    <3>1. PICK n \in Elf!Exported(img) : Elf!Dynsym(img, n).name = symbol
      BY <2>6, ExportsOnce
    <3>2. first.value = Elf!Dynsym(img, n).value
      BY <2>5, <3>1 DEF Elf!IsImage
    <3>3. Definition(f, symbol) = {Elf!Dynsym(img, n).value}
      BY <3>1, ExportsOnce
    <3> QED
      BY <2>3, <2>5, <3>2, <3>3
  <2>7. CASE ~Exports(f, symbol)
    <3>1. Definition(f, symbol) = {s[i].value : i \in {j \in DOMAIN s : s[j].name = symbol /\ s[j].value # 0}}
      BY <2>7 DEF Definition, Exports
    <3> QED
      BY <2>3, <2>5, <2>7, <3>1
  <2> QED
    BY <2>6, <2>7
<1>3. CASE Exports(f, symbol) /\ hashed
  <2>1. PICK n \in Elf!Exported(img) : Elf!Dynsym(img, n).name = symbol
    BY <1>3, ExportsOnce
  <2>2. /\ vaddr = Elf!Dynsym(img, n).value /\ vaddr \in Nat \ {0}
        /\ Definition(f, symbol) = {vaddr}
    BY <1>3, <2>1, HashFinds, ExportsOnce
  <2> HIDE DEF vaddr, first, found, cands
  <2>3. found = base + vaddr
    BY <1>1, <2>2
  <2>4. found # 0 /\ found \in Nat /\ found - base = vaddr
    BY <2>2, <2>3
  <2> QED
    BY <1>1, <1>3, <2>2, <2>4 DEF found
<1>4. CASE ~(Exports(f, symbol) /\ hashed)
  <2>1. vaddr = 0
    BY <1>4, HashFinds, ExportsOnce
  <2> HIDE DEF vaddr, first, found, cands
  <2>2. CASE only \/ cands = {}
    BY <1>1, <1>4, <2>1, <2>2 DEF found, cands
  <2>3. CASE ~(only \/ cands = {})
    <3>1. found = base + first.value /\ first.value \in Nat
      BY <1>1, <1>2, <2>1, <2>3
    <3>2. found # 0 /\ found - base = first.value
      BY <3>1
    <3> QED
      BY <1>1, <1>2, <1>4, <2>3, <3>2 DEF found, cands, first
  <2> QED
    BY <2>2, <2>3
<1> QED
  BY <1>3, <1>4

-----------------------------------------------------------------------------
(* Paths and names.                                                        *)

\* s stands at place k of t.
StandsAt(s, t, k) == \A j \in 1 .. Len(s) : t[k + j - 1] = s[j]

LEMMA SuffixStands ==
  ASSUME NEW s \in Seq(STRING), NEW t \in Seq(STRING)
  PROVE  IsSuffix(s, t) <=> Len(s) <= Len(t) /\ StandsAt(s, t, Len(t) - Len(s) + 1)
<1> DEFINE m == Len(s)
           n == Len(t)
           rs == Reverse(s)
           rt == Reverse(t)
<1>1. /\ rs \in Seq(STRING) /\ Len(rs) = m /\ \A i \in 1 .. m : rs[i] = s[m - i + 1]
      /\ rt \in Seq(STRING) /\ Len(rt) = n /\ \A i \in 1 .. n : rt[i] = t[n - i + 1]
      /\ m \in Nat /\ n \in Nat
  BY DEF Reverse
<1>2. IsSuffix(s, t) <=> m <= n /\ SubSeq(rs, 1, m) = SubSeq(rt, 1, m)
  BY <1>1 DEF IsSuffix, IsPrefix
<1> HIDE DEF rs, rt
<1>3. ASSUME m <= n
      PROVE  SubSeq(rs, 1, m) = SubSeq(rt, 1, m) <=> \A i \in 1 .. m : rs[i] = rt[i]
  <2> DEFINE a == SubSeq(rs, 1, m)
             b == SubSeq(rt, 1, m)
  <2>1. a \in Seq(STRING) /\ Len(a) = m /\ \A i \in 1 .. m : a[i] = rs[i]
    BY <1>1
  <2>2. b \in Seq(STRING) /\ Len(b) = m /\ \A i \in 1 .. m : b[i] = rt[i]
    BY <1>1, <1>3
  <2> HIDE DEF a, b
  <2>3. (\A i \in 1 .. m : a[i] = b[i]) => a = b
    BY <2>1, <2>2, SeqEqual
  <2>4. a = b <=> \A i \in 1 .. m : rs[i] = rt[i]
    BY <2>1, <2>2, <2>3
  <2> QED
    BY <2>4 DEF a, b
<1>4. ASSUME m <= n
      PROVE  (\A i \in 1 .. m : rs[i] = rt[i]) <=> \A j \in 1 .. m : t[n - m + j] = s[j]
  <2>1. \A i \in 1 .. m : rs[i] = s[m - i + 1] /\ rt[i] = t[n - i + 1]
    BY <1>1, <1>4
  <2>2. \A i \in 1 .. m : m - i + 1 \in 1 .. m /\ n - m + (m - i + 1) = n - i + 1
                       /\ m - (m - i + 1) + 1 = i /\ n - (m - i + 1) + 1 = n - m + i
    BY <1>1
  <2>3. ASSUME \A i \in 1 .. m : rs[i] = rt[i], NEW j \in 1 .. m PROVE t[n - m + j] = s[j]
    <3> DEFINE i == m - j + 1
    <3>1. i \in 1 .. m /\ m - i + 1 = j /\ n - i + 1 = n - m + j
      BY <1>1, <2>2
    <3> HIDE DEF i
    <3>2. rs[i] = s[m - i + 1] /\ rt[i] = t[n - i + 1] /\ rs[i] = rt[i]
      BY <2>1, <2>3, <3>1
    <3> QED
      BY <3>1, <3>2
  <2>4. ASSUME \A j \in 1 .. m : t[n - m + j] = s[j], NEW i \in 1 .. m PROVE rs[i] = rt[i]
    <3> DEFINE j == m - i + 1
    <3>1. j \in 1 .. m /\ n - m + j = n - i + 1
      BY <1>1, <2>2
    <3> HIDE DEF j
    <3>2. t[n - m + j] = s[j]
      BY <2>4, <3>1
    <3> QED
      BY <2>1, <3>1, <3>2 DEF j
  <2> QED
    BY <2>3, <2>4
<1>5. ASSUME NEW j \in 1 .. m PROVE n - m + 1 + j - 1 = n - m + j
  BY <1>1
<1>6. StandsAt(s, t, n - m + 1) <=> \A j \in 1 .. m : t[n - m + j] = s[j]
  BY <1>5 DEF StandsAt
<1> QED
  BY <1>2, <1>3, <1>4, <1>6

LEMMA FirstPlace ==
  ASSUME NEW s \in Seq(STRING), NEW t \in Seq(STRING)
  PROVE  LET places == {i \in 1 .. Len(t) - Len(s) + 1 : StandsAt(s, t, i)}
         IN IF places = {} THEN Map!StrStr(t, s) = 0
            ELSE Map!StrStr(t, s) \in places /\ \A i \in places : Map!StrStr(t, s) <= i
<1> DEFINE m == Len(s)
           n == Len(t)
           places == {i \in 1 .. n - m + 1 : StandsAt(s, t, i)}
<1>1. m \in Nat /\ n \in Nat
  OBVIOUS
<1>2. ASSUME NEW i \in 1 .. n - m + 1
      PROVE  SubSeq(t, i, i + m - 1) = s <=> StandsAt(s, t, i)
  <2> DEFINE a == SubSeq(t, i, i + m - 1)
  <2>1. /\ i \in Int /\ i + m - 1 \in Int /\ i + m - 1 - i + 1 = m
        /\ \A k \in i .. i + m - 1 : k \in 1 .. n
        /\ (IF i <= i + m - 1 THEN (i + m - 1) - i + 1 ELSE 0) = m
    BY <1>1
  <2>2. \A k \in i .. i + m - 1 : t[k] \in STRING
    BY <2>1
  <2>3. a \in Seq(STRING) /\ Len(a) = m /\ \A j \in 1 .. m : a[j] = t[i + j - 1]
    <3> DEFINE e == i + m - 1
    <3>1. i \in Int /\ e \in Int /\ e - i + 1 = m /\ (IF i <= e THEN e - i + 1 ELSE 0) = m
          /\ \A k \in i .. e : t[k] \in STRING
      BY <2>1, <2>2
    <3> HIDE DEF e
    <3>2. /\ SubSeq(t, i, e) \in Seq(STRING)
          /\ Len(SubSeq(t, i, e)) = IF i <= e THEN e - i + 1 ELSE 0
          /\ \A j \in 1 .. e - i + 1 : SubSeq(t, i, e)[j] = t[i + j - 1]
      BY <3>1, SubSeqProperties
    <3> QED
      BY <3>1, <3>2 DEF e
  <2> HIDE DEF a
  <2>4. (\A j \in 1 .. m : a[j] = s[j]) => a = s
    BY <2>3, SeqEqual
  <2>5. a = s <=> \A j \in 1 .. m : t[i + j - 1] = s[j]
    BY <2>3, <2>4
  <2> QED
    BY <2>5 DEF a, StandsAt
<1>3. places = {i \in 1 .. n - m + 1 : SubSeq(t, i, i + m - 1) = s}
  BY <1>2
<1>4. Map!StrStr(t, s) = IF places = {} THEN 0 ELSE Min(places)
  BY <1>3, SameMinMax DEF Map!StrStr
<1>5. places \subseteq Nat
  BY <1>1
<1> HIDE DEF places
<1>6. places # {} => Min(places) \in places /\ \A i \in places : Min(places) <= i
  BY <1>5, LeastOf
<1> QED
  BY <1>4, <1>6 DEF places

\* EndsWith says what it should, but for a path that has the name twice.
LEMMA EndsWithName ==
  ASSUME NEW name \in Seq(STRING), NEW path \in Seq(STRING)
  PROVE  /\ Map!EndsWith(path, name) => IsSuffix(name, path)
         /\ IsSuffix(name, path) => Map!EndsWith(path, name) \/ NameTwice(path, name)
<1> DEFINE m == Len(name)
           n == Len(path)
           last == n - m + 1
           places == {i \in 1 .. last : StandsAt(name, path, i)}
           first == Map!StrStr(path, name)
<1>1. m \in Nat /\ n \in Nat /\ last \in Int
  OBVIOUS
<1>2. /\ places = {} => first = 0
      /\ places # {} => first \in places /\ \A i \in places : first <= i
  BY FirstPlace
<1>3. IsSuffix(name, path) <=> last \in places
  BY <1>1, SuffixStands
<1>4. Map!EndsWith(path, name) <=> first # 0 /\ first = last
  BY DEF Map!EndsWith
<1>5. NameTwice(path, name) <=> first < last
  BY DEF NameTwice
<1>6. \A i \in places : i \in Nat /\ i <= last
  BY <1>1
<1> HIDE DEF places, first, last
<1>7. ASSUME last \in places PROVE first = last \/ first < last
  <2>1. first \in places
    BY <1>2, <1>7
  <2>2. first \in Nat /\ first <= last /\ last \in Nat
    BY <1>6, <1>7, <2>1
  <2> QED
    BY <2>2
<1>8. last \in places => first # 0
  BY <1>2 DEF places, last
<1> QED
  BY <1>2, <1>3, <1>4, <1>5, <1>7, <1>8

-----------------------------------------------------------------------------
(* Libraries in memory.                                                    *)

Libs(d) == {In(f, base) : f \in d.files, base \in Bases}

\* One library at a base, and one base for a library.
Apart(libs) ==
  \A i, j \in 1 .. Len(libs) :
     libs[i].base = libs[j].base \/ libs[i].path = libs[j].path => i = j

\* Its code starts a page.
OnPage(segs) == \A seg \in ToSet(segs) : seg.exec => seg.vaddr % PageSize = 0

LEMMA PageStarts ==
  ASSUME NEW a \in Nat
  PROVE  /\ Map!PageStart(a) \in Nat /\ Map!PageStart(a) <= a /\ a - Map!PageStart(a) < PageSize
         /\ a - Map!PageStart(a) \in Nat
         /\ a % PageSize = 0 => Map!PageStart(a) = a
<1> DEFINE r == a % PageSize
           q == a \div PageSize
<1>1. PageSize \in Nat \ {0}
  BY ConstantsAssumption
<1>2. r \in 0 .. PageSize - 1 /\ r <= a
  BY <1>1
<1>3. Map!PageStart(a) = a - r
  BY DEF Map!PageStart
<1> HIDE DEF r
<1>4. a - (a - r) = r
  BY <1>1, <1>2
<1> QED
  BY <1>1, <1>2, <1>3, <1>4 DEF r

\* The lines of the libraries: those of one lie together, above those of all below it.
LEMMA LinesLie ==
  ASSUME NEW d, IsDevice(d), NEW libs \in Seq(Libs(d)), Apart(libs)
  PROVE  /\ \A i \in 1 .. Len(libs) :
              /\ libs[i].base \in Bases /\ libs[i].path \in Seq(STRING) /\ libs[i].path # <<>>
              /\ Map!IsLaidOut(libs[i].segs)
              /\ \A k \in DOMAIN libs[i].segs :
                   /\ libs[i].segs[k] \in [vaddr : Nat, offset : Nat, exec : BOOLEAN]
                   /\ Map!Line(libs[i], libs[i].segs[k]) \in Map!Lines(libs)
         /\ \A line \in Map!Lines(libs) : \E i \in 1 .. Len(libs) : \E k \in DOMAIN libs[i].segs :
              line = Map!Line(libs[i], libs[i].segs[k])
         /\ \A i, j \in 1 .. Len(libs) : \A k \in DOMAIN libs[i].segs :
              libs[i].base < libs[j].base =>
                 Map!Line(libs[i], libs[i].segs[k]).start < libs[j].base
<1>1. ASSUME NEW i \in 1 .. Len(libs)
      PROVE  \E f \in d.files, base \in Bases : libs[i] = In(f, base)
  <2>1. libs[i] \in Libs(d)
    OBVIOUS
  <2> QED
    BY <2>1 DEF Libs
<1>2. ASSUME NEW i \in 1 .. Len(libs)
      PROVE  /\ libs[i].base \in Bases /\ libs[i].path \in Seq(STRING) /\ libs[i].path # <<>>
             /\ Map!IsLaidOut(libs[i].segs)
             /\ \A base \in Bases : \A k \in DOMAIN libs[i].segs :
                  libs[i].base < base => libs[i].base + Map!PageStart(libs[i].segs[k].vaddr) < base
  <2>1. PICK f \in d.files, base \in Bases : libs[i] = In(f, base)
    BY <1>1
  <2>2. libs[i].path = f.path /\ libs[i].base = base /\ libs[i].segs = f.segs
    BY <2>1 DEF In
  <2>3. f.path \in Seq(STRING) /\ f.path # <<>> /\ Map!IsLaidOut(f.segs)
    BY DEF IsDevice
  <2>4. \A other \in Bases : \A k \in DOMAIN f.segs :
          base < other => base + Map!PageStart(f.segs[k].vaddr) < other
    BY DEF IsDevice
  <2> QED
    BY <2>2, <2>3, <2>4
<1>3. ASSUME NEW i \in 1 .. Len(libs), NEW k \in DOMAIN libs[i].segs
      PROVE  libs[i].segs[k] \in [vaddr : Nat, offset : Nat, exec : BOOLEAN]
  <2> DEFINE T == [vaddr : Nat, offset : Nat, exec : BOOLEAN]
             segs == libs[i].segs
  <2>1. segs \in Seq(T)
    BY <1>2 DEF Map!IsLaidOut
  <2> HIDE DEF T, segs
  <2>2. \A m \in DOMAIN segs : segs[m] \in T
    BY <2>1
  <2> QED
    BY <2>2 DEF T, segs
<1>4. Map!Lines(libs) =
        UNION {{Map!Line(l, seg) : seg \in {l.segs[k] : k \in DOMAIN l.segs}} :
                 l \in {libs[i] : i \in 1 .. Len(libs)}}
  BY DEF Map!Lines, Map!ToSet
<1>5. ASSUME NEW i \in 1 .. Len(libs), NEW k \in DOMAIN libs[i].segs
      PROVE  Map!Line(libs[i], libs[i].segs[k]) \in Map!Lines(libs)
  BY <1>4
<1>6. ASSUME NEW line \in Map!Lines(libs)
      PROVE  \E i \in 1 .. Len(libs) : \E k \in DOMAIN libs[i].segs :
               line = Map!Line(libs[i], libs[i].segs[k])
  BY <1>4
<1>7. ASSUME NEW i \in 1 .. Len(libs), NEW j \in 1 .. Len(libs), NEW k \in DOMAIN libs[i].segs,
             libs[i].base < libs[j].base
      PROVE  Map!Line(libs[i], libs[i].segs[k]).start < libs[j].base
  BY <1>2, <1>7 DEF Map!Line
<1> QED
  BY <1>2, <1>3, <1>5, <1>6, <1>7

\* The code of a library whose path ends with the name is a hit, and every hit is the
\* code of such a library.
LEMMA HitsAreCode ==
  ASSUME NEW d, IsDevice(d), NEW libs \in Seq(Libs(d)), Apart(libs), NEW name
  PROVE  /\ \A i \in 1 .. Len(libs) : Map!EndsWith(libs[i].path, name) =>
              \E line \in Map!Lines(libs) : Map!Hit(Map!Lines(libs), line, name)
         /\ \A line \in Map!Lines(libs) : Map!Hit(Map!Lines(libs), line, name) =>
              \E i \in 1 .. Len(libs) : \E k \in DOMAIN libs[i].segs :
                 /\ Map!EndsWith(libs[i].path, name)
                 /\ line = Map!Line(libs[i], libs[i].segs[k])
                 /\ libs[i].segs[k].exec
<1> DEFINE lines == Map!Lines(libs)
<1>1. ASSUME NEW i \in 1 .. Len(libs), Map!EndsWith(libs[i].path, name)
      PROVE  \E line \in lines : Map!Hit(lines, line, name)
  <2> DEFINE segs == libs[i].segs
             Row(k) == Map!Line(libs[i], segs[k])
  <2>1. PICK x \in DOMAIN segs :
          /\ \A j \in DOMAIN segs : segs[j].exec <=> j = x
          /\ \/ Map!PageStart(segs[x].offset) = 0
             \/ x > 1 /\ Map!PageStart(segs[x - 1].offset) = 0
    <3>1. Map!IsLaidOut(segs)
      BY LinesLie
    <3> QED
      BY <3>1 DEF Map!IsLaidOut
  <2>2. /\ DOMAIN segs = 1 .. Len(segs) /\ Len(segs) \in Nat
        /\ \A k \in DOMAIN segs : segs[k] \in [vaddr : Nat, offset : Nat, exec : BOOLEAN]
        /\ \A k \in DOMAIN segs : Map!PageStart(segs[k].vaddr) \in Nat
        /\ \A k, j \in DOMAIN segs : k < j => Map!PageStart(segs[k].vaddr) < Map!PageStart(segs[j].vaddr)
    <3>1. Map!IsLaidOut(segs) /\ \A k \in DOMAIN segs : segs[k] \in [vaddr : Nat, offset : Nat, exec : BOOLEAN]
      BY LinesLie
    <3>2. \A k \in DOMAIN segs : segs[k].vaddr \in Nat
      BY <3>1
    <3>3. segs \in Seq([vaddr : Nat, offset : Nat, exec : BOOLEAN])
      BY <3>1 DEF Map!IsLaidOut
    <3>4. DOMAIN segs = 1 .. Len(segs) /\ Len(segs) \in Nat
      BY <3>3
    <3> QED
      BY <3>1, <3>2, <3>4, PageStarts DEF Map!IsLaidOut
  <2>3. ASSUME NEW k \in DOMAIN segs
        PROVE  /\ Row(k) \in lines /\ Row(k).path = libs[i].path /\ Row(k).exec = segs[k].exec
               /\ Row(k).start = libs[i].base + Map!PageStart(segs[k].vaddr)
               /\ Row(k).offset = Map!PageStart(segs[k].offset)
    BY LinesLie DEF Map!Line
  <2>4. CASE Map!PageStart(segs[x].offset) = 0
    <3>1. Map!Hit(lines, Row(x), name)
      BY <1>1, <2>1, <2>3, <2>4 DEF Map!Hit
    <3> QED
      BY <2>3, <3>1
  <2>5. CASE x > 1 /\ Map!PageStart(segs[x - 1].offset) = 0
    <3>1. x - 1 \in DOMAIN segs /\ x - 1 # x /\ x - 1 < x /\ x \in Nat
      BY <2>2, <2>5
    <3>2. Row(x - 1) \in lines /\ Map!EndsWith(Row(x - 1).path, name) /\ Row(x - 1).offset = 0 /\ ~Row(x - 1).exec
      BY <1>1, <2>1, <2>3, <2>5, <3>1
    <3>3. Map!Follows(lines, Row(x), Row(x - 1))
      <4> DEFINE base == libs[i].base
                 low  == Map!PageStart(segs[x - 1].vaddr)
                 high == Map!PageStart(segs[x].vaddr)
      <4>1. low < high /\ low \in Nat /\ high \in Nat /\ base \in Nat
        BY <2>2, <3>1, LinesLie, ConstantsAssumption
      <4>2. Row(x - 1).start = base + low /\ Row(x).start = base + high
        BY <2>3, <3>1
      <4>3. ASSUME NEW other \in lines
            PROVE  other.start <= base + low \/ base + high <= other.start
        <5>1. PICK j \in 1 .. Len(libs) : \E k \in DOMAIN libs[j].segs :
                other = Map!Line(libs[j], libs[j].segs[k])
          BY LinesLie
        <5>2. PICK k \in DOMAIN libs[j].segs : other = Map!Line(libs[j], libs[j].segs[k])
          BY <5>1
        <5>3. /\ other.start = libs[j].base + Map!PageStart(libs[j].segs[k].vaddr)
              /\ libs[j].base \in Nat /\ Map!PageStart(libs[j].segs[k].vaddr) \in Nat
          <6>1. libs[j].segs[k].vaddr \in Nat /\ libs[j].base \in Nat
            BY LinesLie, ConstantsAssumption
          <6> QED
            BY <5>2, <6>1, PageStarts DEF Map!Line
        <5> DEFINE start == other.start
        <5>4. CASE j = i
          <6> DEFINE at == Map!PageStart(segs[k].vaddr)
          <6>1. k \in DOMAIN segs /\ start = base + at /\ at \in Nat
            BY <5>2, <5>3, <5>4
          <6>2. k = x \/ k = x - 1 \/ k < x - 1 \/ x < k
            BY <2>2, <3>1, <6>1
          <6>3. k = x => at = high
            OBVIOUS
          <6>4. k = x - 1 => at = low
            OBVIOUS
          <6>5. (k < x - 1 => at < low) /\ (x < k => high < at)
            BY <2>2, <3>1, <6>1
          <6> HIDE DEF at, low, high, start
          <6> QED
            BY <4>1, <6>1, <6>2, <6>3, <6>4, <6>5 DEF start
        <5>5. CASE j # i
          <6>1. libs[j].base < base \/ base < libs[j].base
            BY <4>1, <5>3, <5>5 DEF Apart
          <6>2. CASE libs[j].base < base
            <7>1. start < base
              BY <5>2, <6>2, LinesLie
            <7>2. start \in Nat
              BY <5>3
            <7> HIDE DEF start, low, base
            <7> QED
              BY <4>1, <7>1, <7>2 DEF start
          <6>3. CASE base < libs[j].base
            <7>1. Row(x).start < libs[j].base
              BY <6>3, LinesLie
            <7>2. libs[j].base <= start
              BY <5>3
            <7>3. start \in Nat /\ libs[j].base \in Nat /\ base + high < libs[j].base
              BY <4>2, <5>3, <7>1
            <7> HIDE DEF start, high, base
            <7> QED
              BY <4>1, <7>2, <7>3 DEF start
          <6> QED
            BY <6>1, <6>2, <6>3
        <5> QED
          BY <5>4, <5>5
      <4>4. base + low < base + high
        BY <4>1
      <4> HIDE DEF Row, lines, low, high, base
      <4> QED
        BY <4>2, <4>3, <4>4 DEF Map!Follows
    <3>4. Row(x) \in lines /\ Row(x).exec /\ Map!EndsWith(Row(x).path, name)
      BY <1>1, <2>1, <2>3
    <3> HIDE DEF Row, lines
    <3>5. Map!Hit(lines, Row(x), name)
      BY <3>2, <3>3, <3>4 DEF Map!Hit
    <3> QED
      BY <3>4, <3>5
  <2> QED
    BY <2>1, <2>4, <2>5
<1>2. ASSUME NEW line \in lines, Map!Hit(lines, line, name)
      PROVE  \E i \in 1 .. Len(libs) : \E k \in DOMAIN libs[i].segs :
               /\ Map!EndsWith(libs[i].path, name)
               /\ line = Map!Line(libs[i], libs[i].segs[k])
               /\ libs[i].segs[k].exec
  <2>1. PICK i \in 1 .. Len(libs) : \E k \in DOMAIN libs[i].segs :
          line = Map!Line(libs[i], libs[i].segs[k])
    BY LinesLie
  <2>2. PICK k \in DOMAIN libs[i].segs : line = Map!Line(libs[i], libs[i].segs[k])
    BY <2>1
  <2>3. line.path = libs[i].path /\ line.exec = libs[i].segs[k].exec
    BY <2>2 DEF Map!Line
  <2>4. line.exec /\ Map!EndsWith(line.path, name)
    BY <1>2 DEF Map!Hit
  <2> QED
    BY <2>2, <2>3, <2>4
<1> QED
  BY <1>1, <1>2

\* The code of a library is in one piece: ReadLoadBias reads its address.
LEMMA CodeAddress ==
  ASSUME NEW segs, Map!IsLaidOut(segs), NEW k \in DOMAIN segs, segs[k].exec
  PROVE  segs[Map!Min({j \in DOMAIN segs : segs[j].exec})].vaddr = segs[k].vaddr
<1>1. segs \in Seq([vaddr : Nat, offset : Nat, exec : BOOLEAN])
  BY DEF Map!IsLaidOut
<1>2. {j \in DOMAIN segs : segs[j].exec} = {k} /\ k \in Nat
  BY <1>1 DEF Map!IsLaidOut
<1>3. Map!Min({k}) = k
  BY <1>2 DEF Map!Min
<1> QED
  BY <1>2, <1>3

\* GetLoadInfo finds a library whose path ends with the name if there is one, and its base
\* if its code starts a page or the loader is asked.
LEMMA InfoFinds ==
  ASSUME NEW d, IsDevice(d), NEW libs \in Seq(Libs(d)), Apart(libs), NEW name
  PROVE  LET found == Map!GetLoadInfo(libs, name, d.api)
         IN IF found = Map!NotFound
            THEN \A i \in 1 .. Len(libs) : ~Map!EndsWith(libs[i].path, name)
            ELSE \E i \in 1 .. Len(libs) :
                   /\ Map!EndsWith(libs[i].path, name)
                   /\ found.path = libs[i].path /\ found.base \in Nat \ {0}
                   /\ d.api > Map!L_MR1 \/ OnPage(libs[i].segs) => found.base = libs[i].base
<1> DEFINE found == Map!GetLoadInfo(libs, name, d.api)
<1>1. \A i \in 1 .. Len(libs) : libs[i].path # <<>> /\ libs[i].base \in Nat /\ libs[i].base >= PageSize
  BY LinesLie, ConstantsAssumption
<1>2. Map!NotFound.path = <<>>
  BY DEF Map!NotFound
<1>3. CASE d.api > Map!L_MR1
  <2> DEFINE hits == {i \in DOMAIN libs : Map!EndsWith(libs[i].path, name)}
  <2>1. found = IF hits = {} THEN Map!NotFound
                ELSE [path |-> libs[Min(hits)].path, base |-> libs[Min(hits)].base]
    BY <1>3, SameMinMax DEF Map!GetLoadInfo, Map!GetLoadInfoByDl
  <2>2. hits = {i \in 1 .. Len(libs) : Map!EndsWith(libs[i].path, name)}
    OBVIOUS
  <2>3. CASE hits = {}
    BY <2>1, <2>2, <2>3
  <2>4. CASE hits # {}
    <3>1. hits \subseteq Nat
      BY <2>2
    <3>2. Min(hits) \in hits
      BY <2>4, <3>1, LeastOf
    <3> DEFINE i == Min(hits)
    <3>3. i \in 1 .. Len(libs) /\ Map!EndsWith(libs[i].path, name)
      BY <2>2, <3>2
    <3>4. found.path = libs[i].path /\ found.base = libs[i].base
      BY <2>1, <2>4
    <3>5. found # Map!NotFound /\ found.base \in Nat \ {0}
      BY <1>1, <1>2, <3>3, <3>4, ConstantsAssumption
    <3> HIDE DEF i, found
    <3> QED
      BY <3>3, <3>4, <3>5 DEF found
  <2> QED
    BY <2>3, <2>4
<1>4. CASE ~(d.api > Map!L_MR1)
  <2> DEFINE lines == Map!Lines(libs)
             hits == {line \in lines : Map!Hit(lines, line, name)}
             low  == Map!Lowest(hits)
  <2>1. found = IF hits = {} THEN Map!NotFound
                ELSE [path |-> low.path, base |-> low.start - Map!ReadLoadBias(low)]
    BY <1>4 DEF Map!GetLoadInfo, Map!GetLoadInfoByMaps
  <2>2. CASE hits = {}
    <3>1. found = Map!NotFound
      BY <2>1, <2>2
    <3>2. \A i \in 1 .. Len(libs) : ~Map!EndsWith(libs[i].path, name)
      BY <2>2, HitsAreCode
    <3> QED
      BY <3>1, <3>2
  <2>3. CASE hits # {}
    <3>1. \A line \in hits : line.start \in Nat
      <4> TAKE line \in hits
      <4>1. PICK i \in 1 .. Len(libs) : \E k \in DOMAIN libs[i].segs :
              line = Map!Line(libs[i], libs[i].segs[k])
        BY LinesLie
      <4>2. PICK k \in DOMAIN libs[i].segs : line = Map!Line(libs[i], libs[i].segs[k])
        BY <4>1
      <4>3. libs[i].segs[k].vaddr \in Nat /\ libs[i].base \in Nat
        BY LinesLie, ConstantsAssumption
      <4>4. line.start = libs[i].base + Map!PageStart(libs[i].segs[k].vaddr)
        BY <4>2 DEF Map!Line
      <4>5. Map!PageStart(libs[i].segs[k].vaddr) \in Nat
        BY <4>3, PageStarts
      <4> QED
        BY <4>3, <4>4, <4>5
    <3>2. low \in hits
      <4> DEFINE starts == {line.start : line \in hits}
      <4>1. starts \subseteq Nat /\ starts # {}
        BY <2>3, <3>1
      <4>2. Min(starts) \in starts /\ \A x \in starts : Min(starts) <= x
        BY <4>1, LeastOf
      <4> HIDE DEF hits
      <4>3. \E line \in hits : \A other \in hits : line.start <= other.start
        BY <4>2
      <4> QED
        BY <4>3 DEF Map!Lowest
    <3>3. PICK i \in 1 .. Len(libs) : \E k \in DOMAIN libs[i].segs :
            /\ Map!EndsWith(libs[i].path, name)
            /\ low = Map!Line(libs[i], libs[i].segs[k]) /\ libs[i].segs[k].exec
      BY <3>2, HitsAreCode
    <3>4. PICK k \in DOMAIN libs[i].segs :
            /\ Map!EndsWith(libs[i].path, name)
            /\ low = Map!Line(libs[i], libs[i].segs[k]) /\ libs[i].segs[k].exec
      BY <3>3
    <3> HIDE DEF low, hits, found
    <3> DEFINE vaddr == libs[i].segs[k].vaddr
               base == libs[i].base
    <3>5. vaddr \in Nat /\ base \in Nat /\ base >= PageSize
      BY <1>1, LinesLie
    <3>6. Map!ReadLoadBias(low) = vaddr
      <4>1. low.segs = libs[i].segs
        BY <3>4 DEF Map!Line
      <4>2. Map!IsLaidOut(libs[i].segs)
        BY LinesLie
      <4> QED
        BY <3>4, <4>1, <4>2, CodeAddress DEF Map!ReadLoadBias
    <3>7. low.path = libs[i].path /\ low.start = base + Map!PageStart(vaddr)
      BY <3>4 DEF Map!Line
    <3>8. found.path = libs[i].path /\ found.base = (base + Map!PageStart(vaddr)) - vaddr
      <4>1. found.path = low.path /\ found.base = low.start - Map!ReadLoadBias(low)
        BY <2>1, <2>3
      <4> QED
        BY <3>6, <3>7, <4>1
    <3>9. found # Map!NotFound
      BY <1>1, <1>2, <3>8
    <3>10. OnPage(libs[i].segs) => vaddr % PageSize = 0
      BY <3>4 DEF OnPage, ToSet
    <3> HIDE DEF vaddr, base
    <3>11. /\ found.base \in Nat \ {0}
           /\ vaddr % PageSize = 0 => found.base = base
      <4> DEFINE start == Map!PageStart(vaddr)
      <4>1. /\ start \in Nat /\ vaddr - start < PageSize /\ vaddr - start \in Nat
            /\ vaddr % PageSize = 0 => start = vaddr
        BY <3>5, PageStarts
      <4>2. found.base = (base + start) - vaddr /\ PageSize \in Nat \ {0}
        BY <3>8, ConstantsAssumption
      <4> HIDE DEF start
      <4> QED
        BY <3>5, <4>1, <4>2
    <3> QED
      BY <1>4, <3>4, <3>8, <3>9, <3>10, <3>11 DEF found, base
  <2> QED
    BY <2>2, <2>3
<1> QED
  BY <1>3, <1>4

-----------------------------------------------------------------------------
(* The invariant.                                                          *)

LEMMA AllBases == \A base \in Bases : base \in Nat \ {0} /\ base >= PageSize
BY ConstantsAssumption

\* What was loaded from the start stays, in its place.
LoadedInv ==
  /\ device \in Devices
  /\ loaded \in Seq(Libs(device)) /\ Apart(loaded)
  /\ Len(device.preloaded) <= Len(loaded)
  /\ \A i \in 1 .. Len(device.preloaded) :
       loaded[i] = In(device.preloaded[i].file, device.preloaded[i].base)

\* Initialize has got hold of libart, and of the symbols so far.
InitInv ==
  /\ init_pc \in {"open", "lookup", "done"} /\ (init_done_ <=> init_pc = "done")
  /\ DOMAIN pointers \subseteq Wanted /\ (init_done_ => DOMAIN pointers = Wanted)
  /\ \A art \in device.files, i \in 1 .. Len(device.preloaded) :
       IsArt(device, art) /\ device.preloaded[i].file = art =>
         /\ init_pc = "lookup" =>
              art_handle = [path |-> art.path, base |-> device.preloaded[i].base]
         /\ \A s \in DOMAIN pointers :
              pointers[s] = IF Exports(art, s) /\ (is_android_N => Elf!Init(art.img))
                              THEN device.preloaded[i].base + Min(Definition(art, s)) ELSE Null

\* The handle is that of a file, which is where the handle says until it is unloaded.
HandleInv ==
  \/ so_dl_info = NoInfo
  \/ /\ so_dl_info = [handle |-> so_dl_info.handle, moved |-> so_dl_info.moved]
     /\ so_dl_info.moved \in BOOLEAN
     /\ \E f \in device.files, base \in Bases :
          /\ Handle.path = f.path /\ Handle.base \in Nat \ {0}
          /\ device.api > Map!L_MR1 \/ OnPage(f.segs) => Handle.base = base
          /\ so_dl_info.moved \/ \E i \in 1 .. Len(loaded) : loaded[i] = In(f, base)

DlInv == LoadedInv /\ InitInv /\ HandleInv /\ AddressIsTrue /\ LoadedIsFound

LEMMA TheDevice ==
  ASSUME device \in Devices
  PROVE  /\ IsDevice(device)
         /\ \A f \in device.files : File(f.path) = f
         /\ device.preloaded \in Seq([base : Bases, file : {f \in device.files : f.ns # "app"}])
<1>1. IsDevice(device)
  BY DevicesAssumption
<1>2. ASSUME NEW f \in device.files PROVE File(f.path) = f
  <2>1. \A g \in device.files : g.path = f.path <=> g = f
    BY <1>1 DEF IsDevice
  <2> QED
    BY <2>1 DEF File
<1> QED
  BY <1>1, <1>2 DEF IsDevice

\* A library in memory.
LEMMA TheLibrary ==
  ASSUME LoadedInv, NEW i \in 1 .. Len(loaded), NEW f \in device.files, NEW base,
         loaded[i] = In(f, base)
  PROVE  /\ InMemory(f.path) /\ BaseOf(f.path) = base
         /\ \A j \in 1 .. Len(loaded) : loaded[j].path = f.path \/ loaded[j].base = base => j = i
<1>1. loaded[i].path = f.path /\ loaded[i].base = base
  BY DEF In
<1>2. \A j \in 1 .. Len(loaded) : loaded[j].path = f.path \/ loaded[j].base = base => j = i
  BY <1>1 DEF LoadedInv, Apart
<1>3. DOMAIN loaded = 1 .. Len(loaded)
  BY DEF LoadedInv
<1>4. InMemory(f.path)
  BY <1>1, <1>3 DEF InMemory
<1>5. \A l \in ToSet(loaded) : l.path = f.path <=> l = loaded[i]
  BY <1>1, <1>2, <1>3 DEF ToSet
<1>6. loaded[i] \in ToSet(loaded)
  BY <1>3 DEF ToSet
<1>7. (CHOOSE l \in ToSet(loaded) : l.path = f.path) = loaded[i]
  BY <1>5, <1>6
<1> QED
  BY <1>1, <1>2, <1>4, <1>7 DEF BaseOf

\* A library that is there from the start.
LEMMA Preloaded ==
  ASSUME LoadedInv, NEW i \in 1 .. Len(device.preloaded)
  PROVE  LET p == device.preloaded[i] IN
         /\ p.file \in device.files /\ p.base \in Bases /\ p.file.ns # "app"
         /\ i \in 1 .. Len(loaded) /\ loaded[i] = In(p.file, p.base)
<1> DEFINE pre == device.preloaded
           T == [base : Bases, file : {f \in device.files : f.ns # "app"}]
<1>1. pre \in Seq(T)
  BY TheDevice DEF LoadedInv
<1>2. pre[i] \in T /\ Len(pre) \in Nat
  <2> HIDE DEF pre, T
  <2> QED
    BY <1>1 DEF pre
<1>3. i \in 1 .. Len(loaded)
  <2>1. Len(loaded) \in Nat
    BY DEF LoadedInv
  <2> QED
    BY <1>2, <2>1 DEF LoadedInv
<1> QED
  BY <1>2, <1>3 DEF LoadedInv

LEMMA LoadedInit == DlInit => LoadedInv
<1> SUFFICES ASSUME DlInit PROVE LoadedInv
  OBVIOUS
<1> DEFINE pre == device.preloaded
           T == [base : Bases, file : {f \in device.files : f.ns # "app"}]
<1>1. device \in Devices /\ IsDevice(device) /\ pre \in Seq(T)
  BY TheDevice DEF DlInit
<1>2. Len(pre) \in Nat /\ DOMAIN pre = 1 .. Len(pre) /\ \A i \in 1 .. Len(pre) : pre[i] \in T
  <2> HIDE DEF pre, T
  <2> QED
    BY <1>1
<1>3. \A i \in 1 .. Len(pre) : In(pre[i].file, pre[i].base) \in Libs(device)
  BY <1>2 DEF Libs
<1>4. loaded = [i \in 1 .. Len(pre) |-> In(pre[i].file, pre[i].base)]
  BY <1>2 DEF DlInit
<1> DEFINE n == Len(pre)
           At(i) == In(pre[i].file, pre[i].base)
<1>5. loaded = [i \in 1 .. n |-> At(i)] /\ n \in Nat /\ \A i \in 1 .. n : At(i) \in Libs(device)
  BY <1>2, <1>3, <1>4
<1> HIDE DEF At, n
<1>6. loaded \in Seq(Libs(device)) /\ Len(loaded) = n /\ \A i \in 1 .. n : loaded[i] = At(i)
  BY <1>5
<1>7. Apart(loaded)
  <2>1. ASSUME NEW i \in 1 .. n, NEW j \in 1 .. n,
               At(i).base = At(j).base \/ At(i).path = At(j).path
        PROVE  i = j
    <3>1. At(i).base = pre[i].base /\ At(j).base = pre[j].base
          /\ At(i).path = pre[i].file.path /\ At(j).path = pre[j].file.path
      BY DEF At, In
    <3>2. pre[i].file \in device.files /\ pre[j].file \in device.files
      BY <1>2 DEF n
    <3>3. pre[i].file.path = pre[j].file.path => pre[i].file = pre[j].file
      BY <1>1, <3>2 DEF IsDevice
    <3>4. pre[i].base = pre[j].base \/ pre[i].file = pre[j].file => i = j
      BY <1>1, <1>2 DEF IsDevice, n
    <3> QED
      BY <2>1, <3>1, <3>3, <3>4
  <2> QED
    BY <1>6, <2>1 DEF Apart
<1> QED
  BY <1>1, <1>5, <1>6, <1>7 DEF LoadedInv, n, At

LEMMA LoadedLoad ==
  ASSUME LoadedInv, NEW f \in device.files, NEW base \in Bases, Load(f, base)
  PROVE  LoadedInv' /\ \A i \in 1 .. Len(loaded) : i \in 1 .. Len(loaded)' /\ loaded'[i] = loaded[i]
<1> DEFINE T == Libs(device)
           x == In(f, base)
<1>1. /\ loaded \in Seq(T) /\ Apart(loaded) /\ x \in T /\ device' = device
      /\ loaded' = Append(loaded, x)
      /\ x.path = f.path /\ x.base = base
      /\ DOMAIN loaded = 1 .. Len(loaded)
  BY DEF LoadedInv, Load, Libs, In
<1>2. \A i \in 1 .. Len(loaded) : loaded[i].path # x.path /\ loaded[i].base # x.base
  BY <1>1 DEF Load, InMemory
<1> HIDE DEF T, x
<1>3. /\ loaded' \in Seq(T) /\ Len(loaded') = Len(loaded) + 1 /\ Len(loaded) \in Nat
      /\ loaded'[Len(loaded) + 1] = x
      /\ \A i \in 1 .. Len(loaded) : loaded'[i] = loaded[i]
  BY <1>1
<1>4. Apart(loaded')
  BY <1>1, <1>2, <1>3 DEF Apart
<1>5. Libs(device)' = T /\ Apart(loaded)'
  BY <1>1, <1>4 DEF T, Libs, Apart, In
<1>6. \A i \in 1 .. Len(loaded) : i \in 1 .. Len(loaded') /\ loaded'[i] = loaded[i]
  BY <1>3
<1>7. Len(device.preloaded) \in Nat /\ Len(device.preloaded) <= Len(loaded)
  BY TheDevice DEF LoadedInv
<1>8. LoadedInv'
  BY <1>1, <1>3, <1>5, <1>6, <1>7 DEF LoadedInv, In
<1> QED
  BY <1>6, <1>8

LEMMA LoadedUnload ==
  ASSUME LoadedInv, NEW k \in DOMAIN loaded, Unload(k)
  PROVE  /\ LoadedInv'
         /\ \A i \in 1 .. Len(loaded) :
              i = k \/ \E j \in 1 .. Len(loaded)' : loaded'[j] = loaded[i]
         /\ loaded[k].path # <<>>
<1> DEFINE T == Libs(device)
           pre == device.preloaded
           n == Len(loaded)
<1>1. /\ loaded \in Seq(T) /\ Apart(loaded) /\ device' = device /\ k \in 1 .. n
      /\ loaded' = RemoveAt(loaded, k)
  BY DEF LoadedInv, Unload
<1>2. loaded[k].path # <<>>
  BY <1>1, TheDevice, LinesLie DEF LoadedInv
<1>3. Len(pre) \in Nat /\ Len(pre) <= n /\ n \in Nat
  BY TheDevice DEF LoadedInv
<1>4. k > Len(pre)
  <2> SUFFICES ASSUME k <= Len(pre) PROVE FALSE
    BY <1>1, <1>3
  <2>1. k \in 1 .. Len(pre)
    BY <1>1, <1>3
  <2>2. /\ pre[k].file \in device.files /\ pre[k].file.ns # "app"
        /\ loaded[k] = In(pre[k].file, pre[k].base)
    BY <2>1, Preloaded
  <2>3. loaded[k].path = pre[k].file.path
    BY <2>2 DEF In
  <2>4. File(loaded[k].path) = pre[k].file
    BY <2>2, <2>3, TheDevice DEF LoadedInv
  <2> QED
    BY <2>2, <2>4 DEF Unload
<1> HIDE DEF T, pre
<1>5. /\ loaded' \in Seq(T) /\ Len(loaded') = n - 1
      /\ \A i \in 1 .. n - 1 : loaded'[i] = IF i < k THEN loaded[i] ELSE loaded[i + 1]
  BY <1>1, GapClosed
<1> DEFINE from(i) == IF i < k THEN i ELSE i + 1
<1>6. \A i \in 1 .. n - 1 : from(i) \in 1 .. n /\ loaded'[i] = loaded[from(i)]
  BY <1>1, <1>3, <1>5
<1>7. \A i, j \in 1 .. n - 1 : from(i) = from(j) => i = j
  BY <1>1, <1>3
<1>8. Apart(loaded')
  <2> HIDE DEF from
  <2>1. \A i, j \in 1 .. n - 1 :
          loaded'[i].base = loaded'[j].base \/ loaded'[i].path = loaded'[j].path => from(i) = from(j)
    BY <1>1, <1>6 DEF Apart
  <2> QED
    BY <1>5, <1>7, <2>1 DEF Apart
<1>9. ASSUME NEW i \in 1 .. n, i # k PROVE \E j \in 1 .. Len(loaded') : loaded'[j] = loaded[i]
  <2>1. CASE i < k
    <3>1. i \in 1 .. n - 1 /\ loaded'[i] = loaded[i]
      BY <1>1, <1>5, <2>1
    <3> QED
      BY <1>5, <3>1
  <2>2. CASE i > k
    <3>1. i - 1 \in 1 .. n - 1 /\ ~(i - 1 < k) /\ (i - 1) + 1 = i
      BY <1>1, <1>3, <2>2
    <3>2. loaded'[i - 1] = loaded[i]
      BY <1>5, <3>1
    <3> QED
      BY <1>5, <3>1, <3>2
  <2> QED
    BY <1>1, <1>9, <2>1, <2>2
<1>10. \A i \in 1 .. Len(pre) : loaded'[i] = loaded[i]
  BY <1>1, <1>3, <1>4, <1>5
<1>11. Libs(device)' = T /\ Apart(loaded)' /\ Len(pre) <= Len(loaded')
  BY <1>1, <1>3, <1>4, <1>5, <1>8 DEF T, Libs, Apart, In
<1>12. LoadedInv'
  BY <1>1, <1>5, <1>10, <1>11 DEF LoadedInv, In, pre
<1> QED
  BY <1>2, <1>9, <1>12

\* dlopen finds libart on every version, whatever the app has loaded.
LEMMA ArtOpened ==
  ASSUME LoadedInv, NEW art \in device.files, IsArt(device, art),
         NEW i \in 1 .. Len(device.preloaded), device.preloaded[i].file = art
  PROVE  dlopen(LibArt) = [path |-> art.path, base |-> device.preloaded[i].base]
<1> DEFINE pre == device.preloaded
           b == pre[i].base
           handle == [path |-> art.path, base |-> b]
<1> SUFFICES dlopen(LibArt) = handle
  OBVIOUS
<1>1. /\ i \in 1 .. Len(loaded) /\ loaded[i] = In(art, b) /\ b \in Nat \ {0} /\ Len(pre) \in Nat
      /\ DOMAIN loaded = 1 .. Len(loaded) /\ DOMAIN pre = 1 .. Len(pre) /\ Len(loaded) \in Nat
  <2>1. Len(pre) \in Nat /\ DOMAIN pre = 1 .. Len(pre)
    BY TheDevice DEF LoadedInv
  <2>2. DOMAIN loaded = 1 .. Len(loaded) /\ Len(loaded) \in Nat
    BY DEF LoadedInv
  <2>3. pre[i].base \in Bases /\ i \in 1 .. Len(loaded) /\ loaded[i] = In(art, b)
    BY Preloaded
  <2>4. b \in Nat \ {0}
    BY <2>3, AllBases
  <2> QED
    BY <2>1, <2>2, <2>3, <2>4
<1>2. /\ loaded[i].path = art.path /\ loaded[i].base = b
      /\ \A j \in 1 .. Len(loaded) : loaded[j].path = art.path \/ loaded[j].base = b => j = i
      /\ File(art.path) = art
  BY <1>1, TheLibrary, TheDevice DEF LoadedInv, In
<1>3. \A j \in 1 .. Len(loaded) : \E f \in device.files : loaded[j].path = f.path /\ File(loaded[j].path) = f
  <2> TAKE j \in 1 .. Len(loaded)
  <2>1. loaded[j] \in Libs(device)
    BY <1>1 DEF LoadedInv
  <2>2. PICK f \in device.files : loaded[j].path = f.path
    BY <2>1 DEF Libs, In
  <2> QED
    BY <2>2, TheDevice DEF LoadedInv
<1>4. handle # NoHandle
  BY <1>1 DEF NoHandle
<1> HIDE DEF b
<1>5. Iterate(LibArt) = handle
  <2> DEFINE places == Containing(LibArt)
  <2>1. \A j \in 1 .. Len(pre) : Map!StrStr(loaded[j].path, LibArt) # 0 <=> pre[j].file = art
    <3> TAKE j \in 1 .. Len(pre)
    <3>1. loaded[j] = In(pre[j].file, pre[j].base)
      BY Preloaded
    <3>2. loaded[j].path = pre[j].file.path
      BY <3>1 DEF In
    <3> QED
      BY <1>1, <3>2 DEF IsArt
  <2>2. i \in places
    BY <1>1, <1>2, <2>1 DEF Containing
  <2>3. places \subseteq 1 .. Len(loaded) /\ places \subseteq Nat
    BY <1>1 DEF Containing
  <2>4. Min(places) \in places /\ \A j \in places : Min(places) <= j
    <3> HIDE DEF places
    <3> QED
      BY <2>2, <2>3, LeastOf
  <2>5. ASSUME NEW j \in places, j < i PROVE FALSE
    <3>1. j \in 1 .. Len(pre)
      BY <1>1, <2>3, <2>5
    <3>2. Map!StrStr(loaded[j].path, LibArt) # 0
      BY DEF Containing
    <3>3. pre[j].file = art
      BY <2>1, <3>1, <3>2
    <3>4. loaded[j] = In(pre[j].file, pre[j].base) /\ j \in 1 .. Len(loaded)
      BY <3>1, Preloaded
    <3>5. loaded[j].path = art.path
      BY <3>3, <3>4 DEF In
    <3> QED
      BY <1>1, <1>2, <2>5, <3>4, <3>5
  <2>6. Min(places) = i
    <3> DEFINE m == Min(places)
    <3>1. m \in places /\ m <= i /\ m \in Nat /\ i \in Nat
      BY <1>1, <2>2, <2>3, <2>4
    <3>2. ~(m < i)
      BY <2>5, <3>1
    <3> HIDE DEF m
    <3>3. m = i
      BY <3>1, <3>2
    <3> QED
      BY <3>3 DEF m
  <2> QED
    BY <1>2, <2>2, <2>6 DEF Iterate
<1>6. ASSUME NEW ns
      PROVE  LoaderOpen(LibArt, ns) = IF device.api < N \/ art.ns = ns THEN handle ELSE NoHandle
  <2> DEFINE hits == {l \in ToSet(loaded) :
                        File(l.path).soname = LibArt /\ (device.api < N \/ File(l.path).ns = ns)}
  <2>1. \A l \in ToSet(loaded) : File(l.path).soname = LibArt => l = loaded[i]
    <3> TAKE l \in ToSet(loaded)
    <3> HAVE File(l.path).soname = LibArt
    <3>1. PICK j \in 1 .. Len(loaded) : l = loaded[j]
      BY <1>1 DEF ToSet
    <3>2. PICK f \in device.files : loaded[j].path = f.path /\ File(loaded[j].path) = f
      BY <1>3
    <3>3. f = art
      BY <3>1, <3>2 DEF IsArt
    <3> QED
      BY <1>2, <3>1, <3>2, <3>3
  <2>2. loaded[i] \in ToSet(loaded) /\ File(loaded[i].path) = art /\ art.soname = LibArt
    BY <1>1, <1>2 DEF ToSet, IsArt
  <2>3. hits = IF device.api < N \/ art.ns = ns THEN {loaded[i]} ELSE {}
    <3>1. hits \subseteq {loaded[i]}
      BY <2>1
    <3>2. loaded[i] \in hits <=> device.api < N \/ art.ns = ns
      BY <2>2
    <3> HIDE DEF hits
    <3> QED
      BY <3>1, <3>2
  <2>4. LoaderOpen(LibArt, ns) =
          IF hits = {} THEN NoHandle
          ELSE [path |-> (CHOOSE l \in hits : TRUE).path, base |-> (CHOOSE l \in hits : TRUE).base]
    BY DEF LoaderOpen
  <2> HIDE DEF hits
  <2>5. CASE device.api < N \/ art.ns = ns
    <3>1. hits = {loaded[i]} /\ (CHOOSE l \in {loaded[i]} : TRUE) = loaded[i]
      BY <2>3, <2>5
    <3> QED
      BY <1>2, <2>4, <2>5, <3>1
  <2>6. CASE ~(device.api < N \/ art.ns = ns)
    BY <2>3, <2>4, <2>6
  <2> QED
    BY <2>5, <2>6
<1>7. NamespaceAt(0) = "default" /\ NamespaceAt(b) = art.ns
  <2>1. \A l \in ToSet(loaded) : l.base = b <=> l = loaded[i]
    BY <1>1, <1>2 DEF ToSet
  <2>2. loaded[i] \in ToSet(loaded)
    BY <1>1 DEF ToSet
  <2>3. (CHOOSE l \in ToSet(loaded) : l.base = b) = loaded[i]
    BY <2>1, <2>2
  <2> QED
    BY <1>1, <1>2, <2>3 DEF NamespaceAt
<1>8. CASE is_android_N
  <2>1. ~(device.api < N)
    BY <1>8 DEF is_android_N, N, N_MR1
  <2> QED
    BY <1>5, <1>8, <2>1 DEF dlopen
<1>9. CASE ~is_android_N /\ device.api < N
  <2>1. dlopen(LibArt) = LoaderOpen(LibArt, "default")
    BY <1>9 DEF dlopen
  <2> QED
    BY <1>6, <1>9, <2>1
<1>10. CASE ~is_android_N /\ ~(device.api < N)
  <2>1. dlopen(LibArt) = OpenAsCaller(LibArt)
    BY <1>10 DEF dlopen
  <2>2. CASE art.ns = "default"
    BY <1>4, <1>6, <1>7, <2>1, <2>2 DEF OpenAsCaller
  <2>3. CASE art.ns # "default"
    <3>1. LoaderOpen(LibArt, NamespaceAt(0)) = NoHandle
      BY <1>6, <1>7, <1>10, <2>3
    <3>2. ~(device.api < Q)
      BY <2>3 DEF IsArt
    <3>3. handle.base = b
      OBVIOUS
    <3>4. LoaderOpen(LibArt, NamespaceAt(Iterate(LibArt).base)) = handle
      BY <1>5, <1>6, <1>7, <3>3
    <3> QED
      BY <2>1, <3>1, <3>2, <3>4 DEF OpenAsCaller
  <2> QED
    BY <2>2, <2>3
<1> QED
  BY <1>8, <1>9, <1>10

\* dlsym finds what libart exports, by the loader or in its file.
LEMMA ArtSymbol ==
  ASSUME device \in Devices, NEW art \in device.files, IsArt(device, art),
         NEW base \in Nat \ {0}, NEW s \in Wanted
  PROVE  dlsym([path |-> art.path, base |-> base], s) =
           IF Exports(art, s) /\ (is_android_N => Elf!Init(art.img))
             THEN base + Min(Definition(art, s)) ELSE Null
<1> DEFINE handle == [path |-> art.path, base |-> base]
<1>1. /\ File(handle.path) = art /\ handle.base = base /\ Head(handle.path) = "/"
      /\ art.img.sections \cap {"hash", "gnu_hash"} # {} /\ Elf!IsImage(art.img)
      /\ handle # NoHandle
  BY TheDevice DEF IsArt, IsDevice, NoHandle
<1>2. Hashed(s)
  BY ConstantsAssumption DEF Wanted, Hashed
<1>3. Exports(art, s) => \E v \in Nat \ {0} : Definition(art, s) = {v} /\ Min(Definition(art, s)) = v
  <2> HAVE Exports(art, s)
  <2>1. PICK v \in Nat \ {0} : Definition(art, s) = {v}
    BY <1>1, ExportsOnce
  <2>2. Min({v}) = v
    BY DEF Min
  <2> QED
    BY <2>1, <2>2
<1>4. CASE is_android_N
  <2>1. dlsym(handle, s) = IF Elf!Init(art.img) THEN Elf!LookupSymbol(art.img, s, base, TRUE) ELSE Null
    BY <1>1, <1>4 DEF dlsym, LookupInFile
  <2> DEFINE found == Elf!LookupSymbol(art.img, s, base, TRUE)
  <2>2. /\ Exports(art, s) => found \in Nat /\ found - base \in Definition(art, s)
        /\ ~Exports(art, s) => found = Null
    BY <1>1, <1>2, LookupFinds
  <2>3. Exports(art, s) => found = base + Min(Definition(art, s))
    <3> HIDE DEF found
    <3> HAVE Exports(art, s)
    <3>1. PICK v \in Nat \ {0} : Definition(art, s) = {v} /\ Min(Definition(art, s)) = v
      BY <1>3
    <3>2. found \in Nat /\ found - base = v
      BY <2>2, <3>1
    <3> QED
      BY <3>1, <3>2
  <2> QED
    BY <1>4, <2>1, <2>2, <2>3
<1>5. CASE ~is_android_N
  BY <1>1, <1>5 DEF dlsym
<1> QED
  BY <1>4, <1>5

LEMMA LoadedStep == LoadedInv /\ [DlNext]_dlvars => LoadedInv'
<1> SUFFICES ASSUME LoadedInv, [DlNext]_dlvars PROVE LoadedInv'
  OBVIOUS
<1>1. CASE UNCHANGED <<device, loaded>>
  BY <1>1 DEF LoadedInv, Libs, Apart, In
<1>2. CASE \E f \in device.files, base \in Bases : Load(f, base)
  BY <1>2, LoadedLoad
<1>3. CASE \E i \in DOMAIN loaded : Unload(i)
  BY <1>3, LoadedUnload
<1> QED
  BY <1>1, <1>2, <1>3
     DEF DlNext, dlvars, InitOpen, InitDone, InitLookup, OpenElf, SymElf, CloseElf

LEMMA InitStep == LoadedInv /\ InitInv /\ [DlNext]_dlvars => InitInv'
<1> SUFFICES ASSUME LoadedInv, InitInv, [DlNext]_dlvars PROVE InitInv'
  OBVIOUS
<1> DEFINE At(art, i, s) ==
             IF Exports(art, s) /\ (is_android_N => Elf!Init(art.img))
               THEN device.preloaded[i].base + Min(Definition(art, s)) ELSE Null
<1>1. CASE UNCHANGED <<device, init>>
  BY <1>1 DEF InitInv, init, Wanted, is_android_N
<1>2. CASE InitOpen
  <2>1. ASSUME NEW art \in device.files, NEW i \in 1 .. Len(device.preloaded),
               IsArt(device, art), device.preloaded[i].file = art
        PROVE  art_handle' = [path |-> art.path, base |-> device.preloaded[i].base]
    BY <1>2, <2>1, ArtOpened DEF InitOpen
  <2>2. device' = device /\ pointers' = pointers /\ init_done_' = init_done_
        /\ init_pc = "open" /\ init_pc' = "lookup"
    BY <1>2 DEF InitOpen
  <2> QED
    BY <2>1, <2>2 DEF InitInv, Wanted, is_android_N
<1>3. ASSUME NEW s \in Wanted, InitLookup(s) PROVE InitInv'
  <2>1. /\ device' = device /\ init_pc = "lookup" /\ init_pc' = init_pc
        /\ art_handle' = art_handle /\ init_done_' = init_done_
        /\ DOMAIN pointers' = DOMAIN pointers \cup {s}
        /\ pointers'[s] = dlsym(art_handle, s)
        /\ \A t \in DOMAIN pointers \ {s} : pointers'[t] = pointers[t]
    BY <1>3 DEF InitLookup
  <2>2. ASSUME NEW art \in device.files, NEW i \in 1 .. Len(device.preloaded),
               IsArt(device, art), device.preloaded[i].file = art
        PROVE  /\ art_handle = [path |-> art.path, base |-> device.preloaded[i].base]
               /\ \A t \in DOMAIN pointers' : pointers'[t] = At(art, i, t)
    <3>1. device.preloaded[i].base \in Nat \ {0}
      BY Preloaded, AllBases
    <3>2. art_handle = [path |-> art.path, base |-> device.preloaded[i].base]
      BY <2>1, <2>2 DEF InitInv
    <3>3. pointers'[s] = At(art, i, s)
      BY <2>1, <2>2, <3>1, <3>2, ArtSymbol DEF LoadedInv
    <3>4. \A t \in DOMAIN pointers : pointers[t] = At(art, i, t)
      BY <2>2 DEF InitInv
    <3> HIDE DEF At
    <3> QED
      BY <2>1, <3>2, <3>3, <3>4
  <2> QED
    BY <2>1, <2>2 DEF InitInv, Wanted, is_android_N
<1>4. CASE InitDone
  <2>1. device' = device /\ pointers' = pointers /\ init_done_' = TRUE
        /\ DOMAIN pointers = Wanted /\ init_pc' = "done"
    BY <1>4 DEF InitDone
  <2> QED
    BY <2>1 DEF InitInv, Wanted, is_android_N
<1> QED
  BY <1>1, <1>2, <1>3, <1>4
     DEF DlNext, dlvars, Load, Unload, OpenElf, SymElf, CloseElf

LEMMA HandleStep == LoadedInv /\ HandleInv /\ [DlNext]_dlvars => HandleInv'
<1> SUFFICES ASSUME LoadedInv, HandleInv, [DlNext]_dlvars PROVE HandleInv'
  OBVIOUS
<1>1. CASE UNCHANGED <<device, loaded, so_dl_info>>
  <2>1. device' = device /\ loaded' = loaded /\ so_dl_info' = so_dl_info
    BY <1>1
  <2>2. Handle' = Handle
    BY <2>1 DEF Handle
  <2> QED
    BY <2>1, <2>2 DEF HandleInv
<1>2. ASSUME NEW f \in device.files, NEW base \in Bases, Load(f, base) PROVE HandleInv'
  <2>1. device' = device /\ so_dl_info' = so_dl_info
    BY <1>2 DEF Load
  <2>2. \A i \in 1 .. Len(loaded) : i \in 1 .. Len(loaded)' /\ loaded'[i] = loaded[i]
    BY <1>2, LoadedLoad
  <2>3. CASE so_dl_info = NoInfo
    BY <2>1, <2>3 DEF HandleInv
  <2>4. CASE so_dl_info # NoInfo
    <3>1. PICK g \in device.files, at \in Bases :
            /\ Handle.path = g.path /\ Handle.base \in Nat \ {0}
            /\ device.api > Map!L_MR1 \/ OnPage(g.segs) => Handle.base = at
            /\ so_dl_info.moved \/ \E i \in 1 .. Len(loaded) : loaded[i] = In(g, at)
      BY <2>4 DEF HandleInv
    <3>2. so_dl_info.moved \/ \E i \in 1 .. Len(loaded)' : loaded'[i] = In(g, at)
      BY <2>2, <3>1
    <3>3. Handle' = Handle
      BY <2>1 DEF Handle
    <3>4. /\ so_dl_info = [handle |-> so_dl_info.handle, moved |-> so_dl_info.moved]
          /\ so_dl_info.moved \in BOOLEAN
      BY <2>4 DEF HandleInv
    <3> QED
      BY <2>1, <3>1, <3>2, <3>3, <3>4 DEF HandleInv, In
  <2> QED
    BY <2>3, <2>4
<1>3. ASSUME NEW k \in DOMAIN loaded, Unload(k) PROVE HandleInv'
  <2>1. /\ device' = device
        /\ so_dl_info' = [so_dl_info EXCEPT !.moved = @ \/ Handle.path = loaded[k].path]
    BY <1>3 DEF Unload, Handle
  <2>2. /\ \A i \in 1 .. Len(loaded) :
             i = k \/ \E j \in 1 .. Len(loaded)' : loaded'[j] = loaded[i]
        /\ loaded[k].path # <<>>
    BY <1>3, LoadedUnload
  <2>3. CASE so_dl_info = NoInfo
    <3>1. so_dl_info' = [handle |-> NoHandle, moved |-> FALSE \/ NoHandle.path = loaded[k].path]
      BY <2>1, <2>3 DEF NoInfo, Handle
    <3>2. NoHandle.path = <<>>
      BY DEF NoHandle
    <3> QED
      BY <2>2, <3>1, <3>2 DEF HandleInv, NoInfo
  <2>4. CASE so_dl_info # NoInfo
    <3>1. PICK f \in device.files, base \in Bases :
            /\ Handle.path = f.path /\ Handle.base \in Nat \ {0}
            /\ device.api > Map!L_MR1 \/ OnPage(f.segs) => Handle.base = base
            /\ so_dl_info.moved \/ \E i \in 1 .. Len(loaded) : loaded[i] = In(f, base)
      BY <2>4 DEF HandleInv
    <3>2. /\ so_dl_info = [handle |-> so_dl_info.handle, moved |-> so_dl_info.moved]
          /\ so_dl_info.moved \in BOOLEAN
      BY <2>4 DEF HandleInv
    <3>3. /\ so_dl_info'.handle = Handle
          /\ so_dl_info'.moved = (so_dl_info.moved \/ Handle.path = loaded[k].path)
          /\ so_dl_info' = [handle |-> so_dl_info'.handle, moved |-> so_dl_info'.moved]
      BY <2>1, <3>2 DEF Handle
    <3>4. so_dl_info'.moved \/ \E j \in 1 .. Len(loaded)' : loaded'[j] = In(f, base)
      <4> SUFFICES ASSUME ~so_dl_info'.moved
                   PROVE  \E j \in 1 .. Len(loaded)' : loaded'[j] = In(f, base)
        OBVIOUS
      <4>1. ~so_dl_info.moved /\ f.path # loaded[k].path
        BY <3>1, <3>3
      <4>2. PICK i \in 1 .. Len(loaded) : loaded[i] = In(f, base)
        BY <3>1, <4>1
      <4>3. loaded[i].path = f.path
        BY <4>2 DEF In
      <4> QED
        BY <2>2, <4>1, <4>2, <4>3
    <3> QED
      BY <2>1, <3>1, <3>3, <3>4 DEF HandleInv, Handle, In
  <2> QED
    BY <2>3, <2>4
<1>4. ASSUME NEW name \in LibNames, OpenElf(name) PROVE HandleInv'
  <2> DEFINE found == Map!GetLoadInfo(loaded, name, device.api)
             ok == found # Map!NotFound /\ Head(found.path) = "/"
  <2>1. /\ device' = device /\ loaded' = loaded
        /\ so_dl_info' = IF ok THEN [handle |-> found, moved |-> FALSE] ELSE NoInfo
    BY <1>4 DEF OpenElf
  <2>2. CASE ~ok
    BY <2>1, <2>2 DEF HandleInv
  <2>3. CASE ok
    <3>1. PICK i \in 1 .. Len(loaded) :
            /\ found.path = loaded[i].path /\ found.base \in Nat \ {0}
            /\ device.api > Map!L_MR1 \/ OnPage(loaded[i].segs) => found.base = loaded[i].base
      <4>1. IF found = Map!NotFound
            THEN \A i \in 1 .. Len(loaded) : ~Map!EndsWith(loaded[i].path, name)
            ELSE \E i \in 1 .. Len(loaded) :
                   /\ Map!EndsWith(loaded[i].path, name)
                   /\ found.path = loaded[i].path /\ found.base \in Nat \ {0}
                   /\ device.api > Map!L_MR1 \/ OnPage(loaded[i].segs) => found.base = loaded[i].base
        BY InfoFinds, TheDevice DEF LoadedInv
      <4> HIDE DEF found
      <4> QED
        BY <2>3, <4>1
    <3>2. loaded[i] \in Libs(device)
      BY DEF LoadedInv
    <3>3. PICK f \in device.files, base \in Bases : loaded[i] = In(f, base)
      BY <3>2 DEF Libs
    <3>4. loaded[i].path = f.path /\ loaded[i].base = base /\ loaded[i].segs = f.segs
      BY <3>3 DEF In
    <3>5. so_dl_info' = [handle |-> found, moved |-> FALSE]
      BY <2>1, <2>3
    <3> HIDE DEF found
    <3>6. so_dl_info'.handle = found /\ so_dl_info'.moved = FALSE
          /\ so_dl_info' = [handle |-> so_dl_info'.handle, moved |-> so_dl_info'.moved]
      BY <3>5
    <3>7. Handle' = found
      BY <3>6 DEF Handle
    <3>8. /\ found.path = f.path
          /\ device.api > Map!L_MR1 \/ OnPage(f.segs) => found.base = base
      BY <3>1, <3>4
    <3>9. \E j \in 1 .. Len(loaded)' : loaded'[j] = In(f, base)
      BY <2>1, <3>3
    <3>10. /\ Handle'.path = f.path /\ Handle'.base \in Nat \ {0}
           /\ device'.api > Map!L_MR1 \/ OnPage(f.segs) => Handle'.base = base
      BY <2>1, <3>1, <3>7, <3>8
    <3>11. so_dl_info'.moved \in BOOLEAN
           /\ so_dl_info' = [handle |-> so_dl_info'.handle, moved |-> so_dl_info'.moved]
      BY <3>6
    <3>12. f \in device'.files
      BY <2>1
    <3> HIDE DEF found
    <3> QED
      BY <3>9, <3>10, <3>11, <3>12 DEF HandleInv
  <2> QED
    BY <2>2, <2>3
<1>5. CASE CloseElf
  BY <1>5 DEF CloseElf, HandleInv
<1> QED
  BY <1>1, <1>2, <1>3, <1>4, <1>5
     DEF DlNext, dlvars, init, InitOpen, InitDone, InitLookup, SymElf

\* The answer is about what is in memory: it is forgotten when something moves.
LEMMA AnswerStep ==
  LoadedInv /\ HandleInv /\ AddressIsTrue /\ LoadedIsFound /\ [DlNext]_dlvars =>
    AddressIsTrue' /\ LoadedIsFound'
<1> SUFFICES ASSUME LoadedInv, HandleInv, AddressIsTrue, LoadedIsFound, [DlNext]_dlvars
             PROVE  AddressIsTrue' /\ LoadedIsFound'
  OBVIOUS
<1>1. CASE UNCHANGED <<device, loaded, so_dl_info, answer>>
  BY <1>1 DEF AddressIsTrue, LoadedIsFound, Asked, Handle, OffPage, OnlyImported, InMemory,
              BaseOf, File
<1>2. CASE answer' = NoAnswer
  <2>1. answer'.op = "none"
    BY <1>2 DEF NoAnswer
  <2> QED
    BY <2>1 DEF AddressIsTrue, LoadedIsFound, Asked
<1>3. ASSUME NEW name \in LibNames, OpenElf(name) PROVE AddressIsTrue' /\ LoadedIsFound'
  <2> DEFINE found == Map!GetLoadInfo(loaded, name, device.api)
             ok == found # Map!NotFound /\ Head(found.path) = "/"
  <2>1. /\ device' = device /\ loaded' = loaded
        /\ so_dl_info' = IF ok THEN [handle |-> found, moved |-> FALSE] ELSE NoInfo
        /\ answer'.op = "open" /\ answer'.name = name /\ answer'.ok = ok
    BY <1>3 DEF OpenElf
  <2>2. IF found = Map!NotFound
        THEN \A i \in 1 .. Len(loaded) : ~Map!EndsWith(loaded[i].path, name)
        ELSE \E i \in 1 .. Len(loaded) :
               Map!EndsWith(loaded[i].path, name) /\ found.path = loaded[i].path
    <3>1. IF found = Map!NotFound
          THEN \A i \in 1 .. Len(loaded) : ~Map!EndsWith(loaded[i].path, name)
          ELSE \E i \in 1 .. Len(loaded) :
                 /\ Map!EndsWith(loaded[i].path, name)
                 /\ found.path = loaded[i].path /\ found.base \in Nat \ {0}
                 /\ device.api > Map!L_MR1 \/ OnPage(loaded[i].segs) => found.base = loaded[i].base
      BY InfoFinds, TheDevice DEF LoadedInv
    <3> HIDE DEF found
    <3> QED
      BY <3>1
  <2>3. \A i \in 1 .. Len(loaded) : \E f \in device.files : loaded[i].path = f.path
    <3> TAKE i \in 1 .. Len(loaded)
    <3>1. loaded[i] \in Libs(device)
      BY DEF LoadedInv
    <3> QED
      BY <3>1 DEF Libs, In
  <2>4. \A f \in device.files :
          /\ Map!EndsWith(f.path, name) => IsSuffix(name, f.path)
          /\ IsSuffix(name, f.path) => Map!EndsWith(f.path, name) \/ NameTwice(f.path, name)
    <3>1. name \in Seq(STRING)
      BY ConstantsAssumption
    <3>2. \A f \in device.files : f.path \in Seq(STRING)
      BY TheDevice DEF LoadedInv, IsDevice
    <3> QED
      BY <3>1, <3>2, EndsWithName
  <2> HIDE DEF found
  <2>5. ok => IsSuffix(name, found.path)
    BY <2>2, <2>3, <2>4
  <2>6. ASSUME ~ok, NEW i \in 1 .. Len(loaded), Head(loaded[i].path) = "/"
        PROVE  ~IsSuffix(name, loaded[i].path) \/ NameTwice(loaded[i].path, name)
    <3>1. PICK f \in device.files : loaded[i].path = f.path
      BY <2>3
    <3>2. CASE found = Map!NotFound
      BY <2>2, <2>4, <3>1, <3>2
    <3>3. CASE found # Map!NotFound
      <4>1. PICK g \in device.files : Map!EndsWith(g.path, name) /\ found.path = g.path
        BY <2>2, <2>3, <3>3
      <4>2. IsSuffix(name, g.path) /\ Head(g.path) # "/"
        BY <2>4, <2>6, <3>3, <4>1
      <4>3. IsSuffix(name, f.path) => (Head(f.path) = "/" <=> Head(g.path) = "/")
        BY <4>2, TheDevice DEF LoadedInv, IsDevice
      <4> QED
        BY <2>6, <3>1, <4>2, <4>3
    <3> QED
      BY <3>2, <3>3
  <2>7. \A l \in ToSet(loaded) : \E i \in 1 .. Len(loaded) : l = loaded[i]
    BY DEF ToSet, LoadedInv
  <2>8. ok => Handle'.path = found.path
    BY <2>1 DEF Handle
  <2>9. ~Asked'
    BY <2>1 DEF Asked
  <2> HIDE DEF ok
  <2>10. IF answer'.ok THEN IsSuffix(answer'.name, Handle'.path)
         ELSE \A l \in ToSet(loaded)' : Head(l.path) = "/" =>
                ~IsSuffix(answer'.name, l.path) \/ NameTwice(l.path, answer'.name)
    BY <2>1, <2>5, <2>6, <2>7, <2>8
  <2> QED
    BY <2>9, <2>10 DEF AddressIsTrue, LoadedIsFound
<1>4. ASSUME NEW symbol \in Symbols, SymElf(symbol) PROVE AddressIsTrue' /\ LoadedIsFound'
  <2>1. /\ device' = device /\ loaded' = loaded /\ so_dl_info' = so_dl_info
        /\ answer'.op = "sym" /\ answer'.symbol = symbol
        /\ answer'.addr = LookupInFile(Handle, symbol, FALSE)
        /\ so_dl_info # NoInfo
    BY <1>4 DEF SymElf, Handle
  <2>2. PICK f \in device.files, base \in Bases :
          /\ Handle.path = f.path /\ Handle.base \in Nat \ {0}
          /\ device.api > Map!L_MR1 \/ OnPage(f.segs) => Handle.base = base
          /\ so_dl_info.moved \/ \E i \in 1 .. Len(loaded) : loaded[i] = In(f, base)
    BY <2>1 DEF HandleInv
  <2>3. File(Handle.path) = f /\ Elf!IsImage(f.img) /\ Hashed(symbol)
    BY <2>2, TheDevice, ConstantsAssumption DEF LoadedInv, IsDevice, Hashed
  <2> DEFINE addr == answer'.addr
             b == Handle.base
             hashed == f.img.sections \cap {"hash", "gnu_hash"} # {}
             cands == Elf!Candidates(f.img, symbol)
             first == f.img.symtab[Min(cands)]
  <2>4. addr = IF Elf!Init(f.img) THEN Elf!LookupSymbol(f.img, symbol, b, FALSE) ELSE Null
    BY <2>1, <2>3 DEF LookupInFile
  <2>5. Elf!Init(f.img) =>
          /\ Exports(f, symbol) /\ hashed => addr # Null /\ addr - b \in Definition(f, symbol)
          /\ ~(Exports(f, symbol) /\ hashed) =>
               IF cands = {} THEN addr = Null
               ELSE /\ addr # Null /\ addr - b = first.value
                    /\ first.value # 0 \/ Exports(f, symbol) => first.value \in Definition(f, symbol)
    BY <2>2, <2>3, <2>4, LookupFinds
  <2>6. addr # Null =>
          \/ ~Exports(f, symbol) /\ cands # {} /\ first.value = 0
          \/ addr - b \in Definition(f, symbol)
    BY <2>4, <2>5
  <2>7. addr = Null => ~Reachable(f, symbol)
    BY <2>4, <2>5 DEF Reachable
  <2>8. \/ so_dl_info.moved \/ OffPage
        \/ InMemory(f.path) /\ BaseOf(f.path) = b
    <3>1. OffPage \/ device.api > Map!L_MR1 \/ OnPage(f.segs)
      <4>1. device.api \in Nat
        BY TheDevice DEF LoadedInv, IsDevice
      <4> QED
        BY <2>3, <4>1 DEF OffPage, OnPage, Map!L_MR1
    <3>2. ASSUME NEW i \in 1 .. Len(loaded), loaded[i] = In(f, base)
          PROVE  InMemory(f.path) /\ BaseOf(f.path) = base
      BY <3>2, TheLibrary
    <3> QED
      BY <2>2, <3>1, <3>2
  <2>9. AddressIsTrue'
    <3>1. Handle' = Handle /\ File(Handle.path)' = f
      BY <2>1, <2>3 DEF Handle, File
    <3>2. OffPage' <=> OffPage
      BY <2>1 DEF OffPage, Handle, File
    <3>3. OnlyImported(answer.symbol)' <=> ~Exports(f, symbol) /\ cands # {} /\ first.value = 0
      BY <2>1, <3>1 DEF OnlyImported
    <3>4. InMemory(Handle.path)' <=> InMemory(f.path)
      BY <2>1, <2>2, <3>1 DEF InMemory
    <3>5. BaseOf(Handle.path)' = BaseOf(f.path)
      BY <2>1, <2>2, <3>1 DEF BaseOf
    <3> HIDE DEF cands, first
    <3>6. addr # Null =>
            \/ so_dl_info.moved \/ OffPage \/ OnlyImported(answer.symbol)'
            \/ InMemory(f.path) /\ addr - BaseOf(f.path) \in Definition(f, symbol)
      BY <2>6, <2>8, <3>3
    <3> QED
      BY <2>1, <3>1, <3>2, <3>4, <3>5, <3>6 DEF AddressIsTrue, Asked
  <2>10. LoadedIsFound'
    BY <2>1, <2>3, <2>7 DEF LoadedIsFound, Asked, Handle, File
  <2> QED
    BY <2>9, <2>10
<1> QED
  BY <1>1, <1>2, <1>3, <1>4
     DEF DlNext, dlvars, init, InitOpen, InitDone, InitLookup, Load, Unload, CloseElf

LEMMA DlInvHolds == DlSpec => []DlInv
<1>1. DlInit => DlInv
  <2> SUFFICES ASSUME DlInit PROVE DlInv
    OBVIOUS
  <2>1. LoadedInv
    BY LoadedInit
  <2>2. InitInv
    BY DEF DlInit, InitInv
  <2>3. HandleInv
    BY DEF DlInit, HandleInv
  <2>4. answer.op = "none"
    BY DEF DlInit, NoAnswer
  <2> QED
    BY <2>1, <2>2, <2>3, <2>4 DEF DlInv, AddressIsTrue, LoadedIsFound, Asked
<1>2. DlInv /\ [DlNext]_dlvars => DlInv'
  BY LoadedStep, InitStep, HandleStep, AnswerStep DEF DlInv
<1> QED
  BY <1>1, <1>2, PTL DEF DlSpec

-----------------------------------------------------------------------------

\* An address that dlsym_elf returns is the symbol's, whatever the library file holds and
\* wherever it was loaded: no lookup by either hash table, or by the full table, gives
\* another or strays.
THEOREM AddressesAreTrue == DlSpec => []AddressIsTrue
BY DlInvHolds, PTL DEF DlInv

\* What is loaded is opened by its name, through the memory map or the loader, and what
\* its file defines is found.
THEOREM LoadedLibrariesAreFound == DlSpec => []LoadedIsFound
BY DlInvHolds, PTL DEF DlInv

\* Once Initialize is done every symbol of libart it wants is at its address, on every
\* version and whatever the app loads and unloads in between.
THEOREM InitializeResolves == DlSpec => []InitResolves
<1>1. DlInv => InitResolves
  <2> SUFFICES ASSUME DlInv, init_done_, NEW s \in Wanted, NEW f \in device.files,
                      f.soname = LibArt
               PROVE  pointers[s] = IF Exports(f, s) /\ (is_android_N => Elf!Init(f.img))
                                      THEN BaseOf(f.path) + Min(Definition(f, s)) ELSE Null
    BY DEF InitResolves
  <2>1. LoadedInv /\ InitInv
    BY DEF DlInv
  <2>2. IsDevice(device)
    BY <2>1, TheDevice DEF LoadedInv
  <2>3. IsArt(device, f)
    BY <2>2 DEF IsDevice, IsArt
  <2>4. PICK i \in 1 .. Len(device.preloaded) : device.preloaded[i].file = f
    <3>1. DOMAIN device.preloaded = 1 .. Len(device.preloaded)
      BY <2>1, TheDevice DEF LoadedInv
    <3> QED
      BY <2>3, <3>1 DEF IsArt
  <2>5. i \in 1 .. Len(loaded) /\ loaded[i] = In(f, device.preloaded[i].base)
    BY <2>1, <2>4, Preloaded
  <2>6. BaseOf(f.path) = device.preloaded[i].base
    BY <2>1, <2>5, TheLibrary
  <2>7. s \in DOMAIN pointers
    BY <2>1 DEF InitInv
  <2> QED
    BY <2>1, <2>3, <2>4, <2>6, <2>7 DEF InitInv
<1> QED
  BY <1>1, DlInvHolds, PTL
==============================================================================
