----------------------------- MODULE CrashCatcher -----------------------------
(***************************************************************************)
(* CrashCatcher (Kotlin): init() registers for the activities' lifecycle,  *)
(* starts the native catcher (see NativeCrash) and becomes the handler of  *)
(* uncaught exceptions; both kinds of crash are told to the application's  *)
(* callback, and then the activities are to be finished and the process    *)
(* left.  `logger` is declared lateinit and never assigned, so that every  *)
(* use of it throws: clearActivityStack ends in its first line, nothing    *)
(* behind it is ever reached (STOPPING, the exit timer, the second looper), *)
(* and the activity that leaves the stack empty takes the main thread down. *)
(***************************************************************************)
EXTENDS Integers, SequencesExt

CONSTANTS AppThreads,  \* Java threads of the application
          Main,        \* its main thread, which calls init()
          Activities

Cleanup == "cleanup"   \* the native catcher's thread

Threads == AppThreads \cup {Cleanup}

ASSUME MainAssumption == Main \in AppThreads /\ Cleanup \notin AppThreads

NATIVE_CRASH           == "native"
UNCAUGHT_JVM_EXCEPTION == "uncaught"

VARIABLES
    at,          \* where each thread stands
    app,         \* how far init() got: "no", "fields", "native" or "done"
    forceQuitAfterCrashHandled,
    callback,    \* has the application set one?
    actStack,
    proc,        \* "alive", "killed" or "exit 55"
    told,        \* the crashes the callback was given, by thread
    living,      \* the activities there are
    known        \* history: those created since init() registered for them

config  == <<app, forceQuitAfterCrashHandled, callback>>
screens == <<actStack, living, known>>
vars == <<at, config, proc, told, screens>>

Init ==
    /\ at = [t \in Threads |-> IF t = Cleanup THEN "none" ELSE "run"]
    /\ app = "no" /\ forceQuitAfterCrashHandled = TRUE
    /\ callback = FALSE
    /\ actStack = <<>>
    /\ proc = "alive"
    /\ told = [t \in Threads |-> <<>>]
    /\ living = {} /\ known = {}

Goto(t, from, to) == proc = "alive" /\ at[t] = from /\ at' = [at EXCEPT ![t] = to]

Running(t) == proc = "alive" /\ at[t] = "run"

-----------------------------------------------------------------------------
(* init() and setCallback(), on the main thread.                           *)

Registered == app # "no" /\ forceQuitAfterCrashHandled

\* A second call returns at once.
InitFields ==
    /\ Running(Main) /\ app = "no"
    /\ app' = "fields"
    /\ forceQuitAfterCrashHandled' \in BOOLEAN
    /\ UNCHANGED <<at, callback, proc, told, screens>>

InitNative ==
    /\ Running(Main) /\ app = "fields"
    /\ app' = "native"
    /\ at' = [at EXCEPT ![Cleanup] = "waiting"]
    /\ UNCHANGED <<forceQuitAfterCrashHandled, callback, proc, told, screens>>

InitHandler ==
    /\ Running(Main) /\ app = "native"
    /\ app' = "done"
    /\ UNCHANGED <<at, forceQuitAfterCrashHandled, callback, proc, told, screens>>

SetCallback ==
    /\ Running(Main) /\ callback = FALSE
    /\ callback' = TRUE
    /\ UNCHANGED <<at, app, forceQuitAfterCrashHandled, proc, told, screens>>

Constructing == app \in {"fields", "native"}

-----------------------------------------------------------------------------
(* The activities, on the main thread, which comes to them between calls.  *)

\* The state is always RUNNING: the only setState(STOPPING) is never reached.
OnActivityCreated(a) ==
    /\ Running(Main) /\ ~Constructing
    /\ a \notin living
    /\ living' = living \cup {a}
    /\ IF Registered
       THEN actStack' = Append(actStack, a) /\ known' = known \cup {a}
       ELSE UNCHANGED <<actStack, known>>
    /\ UNCHANGED <<at, config, proc, told>>

\* Mutant: the top of the stack is removed.
WithoutTop(s, a) == IF s = <<>> THEN s ELSE SubSeq(s, 1, Len(s) - 1)

Without(s, a) == RemoveFirst(s, a)

\* The activity may have been created before init(), and not be in the stack.
OnActivityDestroyed(a) ==
    /\ Running(Main) /\ ~Constructing
    /\ a \in living
    /\ living' = living \ {a}
    /\ IF Registered
       THEN /\ actStack' = Without(actStack, a)
            /\ at' = [at EXCEPT ![Main] = IF actStack' = <<>> THEN "thrown" ELSE "run"]
       ELSE UNCHANGED <<actStack, at>>
    /\ known' = known \ {a}
    /\ UNCHANGED <<config, proc, told>>

-----------------------------------------------------------------------------
(* Crashes.                                                                *)

Throw(t) ==
    /\ t # Cleanup
    /\ Goto(t, "run", "thrown")
    /\ UNCHANGED <<config, proc, told, screens>>

\* A signal: the thread waits in sigHandler for the cleanup thread, which calls back
\* once; a second one pauses there.  Before the native catcher the process dies.
Signal(t) ==
    /\ t # Cleanup /\ Running(t)
    /\ IF at[Cleanup] = "none"
       THEN proc' = "killed" /\ UNCHANGED at
       ELSE /\ at' = [at EXCEPT ![t] = "signalled",
                               ![Cleanup] = IF @ = "waiting" THEN "callback" ELSE @]
            /\ UNCHANGED proc
    /\ UNCHANGED <<config, told, screens>>

\* The runtime hands what a thread throws to the default handler, which is the
\* system's, and kills the process, until init() has replaced it.
DispatchUncaught(t) ==
    /\ proc = "alive" /\ at[t] = "thrown"
    /\ IF app = "done"
       THEN at' = [at EXCEPT ![t] = "handler"] /\ UNCHANGED proc
       ELSE proc' = "killed" /\ UNCHANGED at
    /\ UNCHANGED <<config, told, screens>>

Type(t) == IF at[t] = "callback" THEN NATIVE_CRASH ELSE UNCAUGHT_JVM_EXCEPTION

\* Mutant: the cleanup thread ends like any other.
AfterClearEnds(t) == "dead"

\* The exception of clearActivityStack.  Out of the handler of uncaught exceptions
\* the runtime drops it and the thread ends; out of the native callback it is
\* pending when the cleanup thread detaches, and is dispatched as uncaught there.
AfterClear(t) ==
    IF t # Cleanup THEN "dead"
    ELSE IF at[t] = "callback" THEN "thrown"
    ELSE "detached"

AfterQuiet(t) == IF t = Cleanup THEN "detached" ELSE "dead"

\* Mutant: only the main thread's crashes are told.
TellMainOnly(t) == IF callback /\ t = Main THEN Append(told[t], Type(t)) ELSE told[t]

Tell(t) == IF callback THEN Append(told[t], Type(t)) ELSE told[t]

\* callbackToUI: the callback, then clearActivityStack, which throws.
CallbackToUI(t) ==
    /\ proc = "alive" /\ at[t] \in {"callback", "handler"}
    /\ told' = [told EXCEPT ![t] = Tell(t)]
    /\ at' = [at EXCEPT ![t] = IF forceQuitAfterCrashHandled THEN AfterClear(t) ELSE AfterQuiet(t)]
    /\ UNCHANGED <<config, proc, screens>>

\* The cleanup thread wakes the handler, which exits.
WakeHandler ==
    /\ proc = "alive" /\ at[Cleanup] = "detached"
    /\ proc' = "exit 55"
    /\ UNCHANGED <<at, config, told, screens>>

-----------------------------------------------------------------------------
CrashStep(t) == DispatchUncaught(t) \/ CallbackToUI(t)

Next ==
    \/ InitFields \/ InitNative \/ InitHandler \/ SetCallback
    \/ \E a \in Activities : OnActivityCreated(a) \/ OnActivityDestroyed(a)
    \/ \E t \in Threads : Throw(t) \/ Signal(t) \/ CrashStep(t)
    \/ WakeHandler

Spec == Init /\ [][Next]_vars

\* Whatever handles a crash is scheduled; nothing obliges a thread to crash.
FairSpec ==
    /\ Spec
    /\ WF_vars(WakeHandler)
    /\ \A t \in Threads : WF_vars(CrashStep(t))

-----------------------------------------------------------------------------
(* Properties.                                                             *)

\* Every variable stays in its range, and only the native catcher's thread is told
\* of more than one crash.
TypeOK ==
    /\ at \in [Threads -> {"none", "waiting", "run", "thrown", "signalled", "callback", "handler",
                           "detached", "dead"}]
    /\ app \in {"no", "fields", "native", "done"}
    /\ forceQuitAfterCrashHandled \in BOOLEAN /\ callback \in BOOLEAN
    /\ actStack \in Seq(Activities)
    /\ proc \in {"alive", "killed", "exit 55"}
    /\ told \in [Threads -> Seq({NATIVE_CRASH, UNCAUGHT_JVM_EXCEPTION})]
    /\ \A t \in AppThreads : Len(told[t]) <= 1
    /\ living \subseteq Activities /\ known \subseteq living

\* The stack lists every activity created since init() and not yet destroyed, each
\* once, whatever order they go in.
StackIsLive ==
    /\ ToSet(actStack) = known
    /\ Len(actStack) = Cardinality(known)

\* Once init() is over and a callback is set, every exception that leaves a thread
\* is told, although several threads may crash at once; only a native crash may
\* end the process before that.
CrashesAreTold ==
    \A t \in Threads :
        (at[t] = "thrown" /\ app = "done" /\ callback) ~>
            (UNCAUGHT_JVM_EXCEPTION \in {told[t][i] : i \in DOMAIN told[t]} \/ proc = "exit 55")

\* A native crash ends the process, although the catcher itself throws on the
\* thread the crashed one waits for.
NativeCrashQuits == \A t \in AppThreads : (at[t] = "signalled") ~> (proc # "alive")

\* If it is to be forced, the app is left after a crash has been told.
ForcedQuit ==
    \A t \in Threads :
        (forceQuitAfterCrashHandled /\ told[t] # <<>>) ~> (proc # "alive")
=============================================================================
