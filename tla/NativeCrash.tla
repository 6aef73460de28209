------------------------------ MODULE NativeCrash ------------------------------
(***************************************************************************)
(* The native crash catcher (nativecrashcatcher.cpp): initNativeCrashCatcher *)
(* takes over the signal handlers and starts a cleanup thread; sigHandler,  *)
(* on whichever thread faults, writes the report, wakes the cleanup thread, *)
(* which calls the application back, and waits for it before it runs the    *)
(* earlier handler and exits.  Two threads may fault at once, a thread may  *)
(* fault while another is being handled, and any of the notifications may   *)
(* come when nobody waits for it.                                           *)
(***************************************************************************)
EXTENDS Sequences, FiniteSets, Naturals

CONSTANTS AppThreads,  \* threads of the application
          Main,        \* the one that calls initNativeCrashCatcher
          Signals,     \* concernedSignals
          Segv,        \* the signal of a jump to a bad address
          Old,         \* [Signals -> {"function", "constant"}], see ExecOldSigHandlers
          Scenarios    \* how many threads fault, and what goes wrong besides

FaultKinds == {"spurious",   \* pthread_cond_wait returns without a notification
               "interrupt",  \* some other handler runs on a paused thread
               "callback",   \* the application's callback itself crashes
               "unreached",  \* callbackToUI cannot make its call
               "sigaction",  \* sigaction refuses a signal
               "create"}     \* pthread_create fails

Cleanup == "cleanup"
Nobody  == "nobody"
None    == "none"

Threads == AppThreads \cup {Cleanup}

ASSUME ThreadsAssumption ==
    Main \in AppThreads /\ Cleanup \notin AppThreads /\ Nobody \notin Threads
ASSUME SignalsAssumption ==
    Segv \in Signals /\ None \notin Signals /\ Old \in [Signals -> {"function", "constant"}]
ASSUME ScenariosAssumption ==
    Scenarios \subseteq [crashes : Nat, faults : SUBSET FaultKinds]

VARIABLES
    scenario,        \* fixed from the start
    pc,              \* where each thread stands
    sig,             \* the signal it is handling
    handleSigState,
    sigdetail,       \* the report: the fields in it, each with its writer
    mutex, waiters,  \* its owner, and the threads waiting on cond
    installed,       \* signals whose handler is sigHandler
    oldSigHandlers,  \* signals whose earlier handler is recorded
    refused,         \* signals sigaction has refused
    proc,            \* "alive", "killed", or the exit status
    callback,        \* "no", "running", "returned", or "missed": not called at all
    reported,        \* the report the callback was given
    old_ran,         \* history: the signals whose earlier handler was called
    disturbed,       \* history: two threads took charge, or a wait ended by itself
    lost             \* history: has a notification found nobody waiting?

setup   == <<installed, oldSigHandlers, refused>>
history == <<old_ran, disturbed, lost>>
shared  == <<handleSigState, sigdetail, mutex, waiters>>
vars == <<scenario, pc, sig, shared, setup, proc, callback, reported, history>>

Init ==
    /\ scenario \in Scenarios
    /\ pc = [t \in Threads |-> IF t = Main THEN "setup" ELSE IF t = Cleanup THEN "none" ELSE "run"]
    /\ sig = [t \in Threads |-> None]
    /\ handleSigState = 0
    /\ sigdetail = <<>> /\ reported = <<>>
    /\ mutex = Nobody /\ waiters = {}
    /\ installed = {} /\ oldSigHandlers = {} /\ refused = {}
    /\ proc = "alive"
    /\ callback = "no"
    /\ old_ran = {} /\ disturbed = FALSE /\ lost = FALSE

Goto(t, from, to) == proc = "alive" /\ pc[t] = from /\ pc' = [pc EXCEPT ![t] = to]

-----------------------------------------------------------------------------
(* initNativeCrashCatcher, on the main thread, once.                       *)

\* setupSigHandlers: sigaction puts the new handler in place, and only then is
\* the earlier one recorded.
InstallHandler(s) ==
    /\ Goto(Main, "setup", "setup")
    /\ s \notin installed \cup refused /\ installed = oldSigHandlers
    /\ installed' = installed \cup {s}
    /\ UNCHANGED <<scenario, sig, shared, oldSigHandlers, refused, proc, callback, reported,
                   history>>

\* A signal sigaction refuses is passed over: it stays with the system.
InstallHandlerFails(s) ==
    /\ "sigaction" \in scenario.faults
    /\ Goto(Main, "setup", "setup")
    /\ s \notin installed \cup refused /\ installed = oldSigHandlers
    /\ refused' = refused \cup {s}
    /\ UNCHANGED <<scenario, sig, shared, installed, oldSigHandlers, proc, callback, reported,
                   history>>

RecordOldHandler(s) ==
    /\ Goto(Main, "setup", "setup")
    /\ s \in installed \ oldSigHandlers
    /\ oldSigHandlers' = oldSigHandlers \cup {s}
    /\ UNCHANGED <<scenario, sig, shared, installed, refused, proc, callback, reported, history>>

\* Mutant: the last handler installed is never recorded.
SetupDoneEarly == pc[Main] = "setup" /\ installed \cup refused = Signals

\* setupCleanupThread: the last step of the set-up.
SetupDone ==
    pc[Main] = "setup" /\ installed = oldSigHandlers /\ installed \cup refused = Signals

SetupCleanupThread ==
    /\ proc = "alive" /\ SetupDone
    /\ pc' = [pc EXCEPT ![Main] = "run", ![Cleanup] = "lock"]
    /\ UNCHANGED <<scenario, sig, shared, setup, proc, callback, reported, history>>

SetupCleanupThreadFails ==
    /\ "create" \in scenario.faults
    /\ proc = "alive" /\ SetupDone
    /\ pc' = [pc EXCEPT ![Main] = "run"]
    /\ UNCHANGED <<scenario, sig, shared, setup, proc, callback, reported, history>>

-----------------------------------------------------------------------------
(* A thread faults.                                                        *)

Faulted == {t \in Threads : sig[t] # None}

\* Into sigHandler, or death by the system's handler if there is no other yet.
Signal(t, s) ==
    /\ sig' = [sig EXCEPT ![t] = s]
    /\ IF s \in installed
       THEN pc' = [pc EXCEPT ![t] = "check"] /\ UNCHANGED proc
       ELSE proc' = "killed" /\ UNCHANGED pc

Crash(t, s) ==
    /\ proc = "alive" /\ pc[t] \in {"run", "setup"}
    /\ Cardinality(Faulted) < scenario.crashes
    /\ Signal(t, s)
    /\ UNCHANGED <<scenario, shared, setup, callback, reported, history>>

CallbackCrashes(s) ==
    /\ "callback" \in scenario.faults
    /\ proc = "alive" /\ pc[Cleanup] = "callback" /\ callback = "running"
    /\ Signal(Cleanup, s)
    /\ UNCHANGED <<scenario, shared, setup, callback, reported, history>>

-----------------------------------------------------------------------------
(* sigHandler.  handleSigState is read twice and then written, and none of  *)
(* this is atomic.                                                         *)

HandlerKeeps == <<scenario, sig, setup, callback, reported>>

CheckInProgress(t) ==
    /\ Goto(t, "check", IF handleSigState = 1 THEN "pause" ELSE "check_finished")
    /\ UNCHANGED <<shared, proc, history, HandlerKeeps>>

\* pause() returns once a handler has run on the thread, and the code goes on.
PauseReturns(t) ==
    /\ "interrupt" \in scenario.faults
    /\ Goto(t, "pause", "claim")
    /\ UNCHANGED <<shared, proc, history, HandlerKeeps>>

Exit(t, from, status) ==
    /\ proc = "alive" /\ pc[t] = from
    /\ proc' = status
    /\ UNCHANGED <<pc, shared, history, HandlerKeeps>>

CheckFinished(t) ==
    \/ handleSigState = 2 /\ Exit(t, "check_finished", "exit 66")
    \/ /\ handleSigState # 2
       /\ Goto(t, "check_finished", "claim")
       /\ UNCHANGED <<shared, proc, history, HandlerKeeps>>

Claim(t) ==
    /\ Goto(t, "claim", "zero")
    /\ handleSigState' = 1
    /\ disturbed' = (disturbed \/ handleSigState # 0)
    /\ UNCHANGED <<sigdetail, mutex, waiters, proc, old_ran, lost, HandlerKeeps>>

\* assembleCrashInfo: zero the one buffer, sprintf the thread, strcat the signal,
\* strcat the code.  Two threads in here interleave.
NextField == [zero |-> "thread", thread |-> "signo", signo |-> "code", code |-> "notify"]

AssembleCrashInfo(t) ==
    \E field \in DOMAIN NextField :
        /\ Goto(t, field, NextField[field])
        /\ sigdetail' = CASE field = "zero"   -> <<>>
                          [] field = "thread" -> << <<t, field>> >>
                          [] OTHER            -> Append(sigdetail, <<t, field>>)
        /\ UNCHANGED <<handleSigState, mutex, waiters, proc, history, HandlerKeeps>>

\* pthread_cond_signal: wakes one of those that wait, whichever it is.
CondSignal ==
    \/ waiters = {} /\ lost' = TRUE /\ UNCHANGED waiters
    \/ \E w \in waiters : waiters' = waiters \ {w} /\ UNCHANGED lost

\* Mutant: does not wait for the cleanup thread.
NotifyOnly(t) ==
    /\ Goto(t, "notify", "old")
    /\ CondSignal
    /\ UNCHANGED <<handleSigState, sigdetail, mutex, proc, old_ran, disturbed, HandlerKeeps>>

Notify(t) ==
    /\ Goto(t, "notify", "wait")
    /\ CondSignal
    /\ UNCHANGED <<handleSigState, sigdetail, mutex, proc, old_ran, disturbed, HandlerKeeps>>

\* pthread_cond_wait, which unlocks the mutex although this thread does not hold
\* it: a normal mutex does not check its owner.
CondWait(t, from) ==
    /\ Goto(t, from, "waiting")
    /\ waiters' = waiters \cup {t}
    /\ mutex' = Nobody
    /\ UNCHANGED <<handleSigState, sigdetail, proc, history, HandlerKeeps>>

Wait(t) == CondWait(t, "wait")

\* The second half of pthread_cond_wait: locks the mutex again.
WakeUp(t, to) ==
    /\ t \notin waiters /\ mutex = Nobody
    /\ Goto(t, "waiting", to)
    /\ mutex' = t
    /\ UNCHANGED <<handleSigState, sigdetail, waiters, proc, history, HandlerKeeps>>

\* A handler that was a function runs and returns.  SIG_DFL and SIG_IGN are the
\* constants 0 and 1, which the code calls as well: a fault in the handler, which
\* kills the process if its own signal is blocked, or enters sigHandler again.
ExecOldSigHandlers(t) ==
    LET s == sig[t]
        known == s \in oldSigHandlers
    IN /\ proc = "alive" /\ pc[t] = "old"
       /\ old_ran' = IF known THEN old_ran \cup {s} ELSE old_ran
       /\ \/ /\ ~known \/ Old[s] = "function"
             /\ pc' = [pc EXCEPT ![t] = "finish"]
             /\ UNCHANGED <<sig, proc>>
          \/ /\ known /\ Old[s] = "constant" /\ s = Segv
             /\ proc' = "killed"
             /\ UNCHANGED <<scenario, sig, pc>>
          \/ /\ known /\ Old[s] = "constant" /\ s # Segv
             /\ Signal(t, Segv)
       /\ UNCHANGED <<scenario, shared, setup, callback, reported, disturbed, lost>>

Finish(t) ==
    /\ Goto(t, "finish", "exit")
    /\ handleSigState' = 2
    /\ UNCHANGED <<sigdetail, mutex, waiters, proc, history, HandlerKeeps>>

ExitAtLast(t) == Exit(t, "exit", "exit 55")

-----------------------------------------------------------------------------
(* The cleanup thread: one notification, one callback.                     *)

Lock ==
    /\ mutex = Nobody
    /\ Goto(Cleanup, "lock", "cleanup_wait")
    /\ mutex' = Cleanup
    /\ UNCHANGED <<handleSigState, sigdetail, waiters, proc, history, HandlerKeeps>>

\* Mutant: does not wait if a thread is in charge already, which may not have
\* written its report yet.
CleanupWaitUnlessClaimed ==
    \/ handleSigState = 0 /\ CondWait(Cleanup, "cleanup_wait")
    \/ /\ handleSigState # 0
       /\ Goto(Cleanup, "cleanup_wait", "unlock")
       /\ UNCHANGED <<shared, proc, history, HandlerKeeps>>

CleanupWait == CondWait(Cleanup, "cleanup_wait")

Unlock ==
    /\ Goto(Cleanup, "unlock", "callback")
    /\ mutex' = Nobody
    /\ UNCHANGED <<handleSigState, sigdetail, waiters, proc, history, HandlerKeeps>>

\* callbackToUI: the report is copied, then the application runs.
CallbackToUI ==
    /\ proc = "alive" /\ pc[Cleanup] = "callback" /\ callback = "no"
    /\ callback' = "running"
    /\ reported' = sigdetail
    /\ UNCHANGED <<scenario, pc, sig, shared, setup, proc, history>>

CallbackReturns ==
    /\ callback = "running"
    /\ Goto(Cleanup, "callback", "wake_handler")
    /\ callback' = "returned"
    /\ UNCHANGED <<scenario, sig, shared, setup, proc, reported, history>>

\* There is nothing to call, the thread cannot be attached to the VM, or it has
\* no method of that name: callbackToUI returns, and the handler is woken all the same.
CallbackFails ==
    /\ "unreached" \in scenario.faults /\ callback = "no"
    /\ Goto(Cleanup, "callback", "wake_handler")
    /\ callback' = "missed"
    /\ UNCHANGED <<scenario, sig, shared, setup, proc, reported, history>>

\* Mutant: nobody is woken.
WakeNobody ==
    /\ Goto(Cleanup, "wake_handler", "end")
    /\ UNCHANGED <<shared, proc, history, HandlerKeeps>>

WakeHandler ==
    /\ Goto(Cleanup, "wake_handler", "end")
    /\ CondSignal
    /\ UNCHANGED <<handleSigState, sigdetail, mutex, proc, old_ran, disturbed, HandlerKeeps>>

\* A waiter of either side that nobody notified.
SpuriousWakeUp(t) ==
    /\ "spurious" \in scenario.faults
    /\ proc = "alive" /\ t \in waiters
    /\ waiters' = waiters \ {t}
    /\ disturbed' = TRUE
    /\ UNCHANGED <<pc, handleSigState, sigdetail, mutex, proc, old_ran, lost, HandlerKeeps>>

-----------------------------------------------------------------------------
InitStep ==
    \/ \E s \in Signals : InstallHandler(s) \/ InstallHandlerFails(s) \/ RecordOldHandler(s)
    \/ SetupCleanupThread \/ SetupCleanupThreadFails

HandlerStep(t) ==
    \/ CheckInProgress(t) \/ CheckFinished(t) \/ Claim(t) \/ AssembleCrashInfo(t)
    \/ Notify(t) \/ Wait(t)
    \/ sig[t] # None /\ WakeUp(t, "old")
    \/ ExecOldSigHandlers(t) \/ Finish(t) \/ ExitAtLast(t)

CleanupStep ==
    \/ Lock \/ CleanupWait
    \/ sig[Cleanup] = None /\ WakeUp(Cleanup, "unlock")
    \/ Unlock \/ CallbackToUI \/ CallbackFails \/ CallbackReturns \/ WakeHandler

Next ==
    \/ InitStep
    \/ CleanupStep
    \/ \E t \in Threads : HandlerStep(t) \/ PauseReturns(t) \/ SpuriousWakeUp(t)
    \/ \E t \in AppThreads, s \in Signals : Crash(t, s)
    \/ \E s \in Signals : CallbackCrashes(s)

Spec == Init /\ [][Next]_vars

\* Every thread that can run is scheduled; the callback returns.  Nothing makes a
\* thread crash, a wait end by itself or a paused thread go on.
FairSpec ==
    /\ Spec
    /\ WF_vars(InitStep) /\ WF_vars(CleanupStep)
    /\ \A t \in Threads : WF_vars(HandlerStep(t))

-----------------------------------------------------------------------------
(* Properties.                                                             *)

Places == {"none", "run", "setup", "check", "pause", "check_finished", "claim", "zero",
           "thread", "signo", "code", "notify", "wait", "waiting", "old", "finish", "exit",
           "lock", "cleanup_wait", "unlock", "callback", "wake_handler", "end"}

\* Every variable stays in its range: threads at the places of the code, and
\* handleSigState one of the three values sigHandler gives it.
TypeOK ==
    /\ scenario \in Scenarios
    /\ pc \in [Threads -> Places]
    /\ sig \in [Threads -> Signals \cup {None}]
    /\ handleSigState \in 0 .. 2
    /\ sigdetail \in Seq(Threads \X Places) /\ reported \in Seq(Threads \X Places)
    /\ mutex \in Threads \cup {Nobody} /\ waiters \subseteq Threads
    /\ installed \subseteq Signals /\ oldSigHandlers \subseteq installed
    /\ refused \subseteq Signals
    /\ proc \in {"alive", "killed", "exit 55", "exit 66"}
    /\ callback \in {"no", "running", "returned", "missed"}
    /\ old_ran \subseteq Signals
    /\ disturbed \in BOOLEAN /\ lost \in BOOLEAN

Report(t) == << <<t, "thread">>, <<t, "signo">>, <<t, "code">> >>

\* As long as a single thread has taken charge and no wait has ended by itself,
\* the application is given one whole report, of a thread that did fault.
ReportIsWhole ==
    callback \in {"running", "returned"} /\ ~disturbed =>
        \E t \in Faulted : reported = Report(t)

Exited == proc \in {"exit 55", "exit 66"}

CallbackOver == callback \in {"returned", "missed"}

\* The process exits by the catcher's hand only when callbackToUI has come to its
\* end: the callback has returned, or it could not be called.
ExitAfterCallback == Exited => CallbackOver

\* ... which holds under the same condition: a thread that faults while another
\* is in charge steps aside.
SoloExitAfterCallback == ~disturbed => ExitAfterCallback

\* Whenever the catcher exits, the handler that was there before it has been
\* called for the signal of a thread that faulted.
OldHandlerCalled == Exited => \E t \in Faulted : sig[t] \in old_ran

\* ... which holds under the same condition, although the thread in charge may
\* have faulted before the earlier handler was recorded.
SoloOldHandlerCalled == ~disturbed => OldHandlerCalled

\* A fault of the catcher's own making: in the callback, or in the call of an
\* earlier "handler" that is one of the constants 0 and 1.
FaultsWithin == sig[Cleanup] # None \/ \E s \in old_ran : Old[s] = "constant"

\* A thread that enters the handler ends the process, whatever the others do,
\* unless a notification is lost or the catcher faults itself: then the threads
\* wait or pause for ever.
CrashEndsUnlessLost ==
    \A t \in Threads : (pc[t] = "check") ~> (proc # "alive" \/ lost \/ FaultsWithin)
=============================================================================
