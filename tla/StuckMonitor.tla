----------------------------- MODULE StuckMonitor -----------------------------
(***************************************************************************)
(* The main thread's stuck monitor (CrashCatcher.setMainThreadStuckListener *)
(* and stuckMonitorHandler).  The main looper prints a line before and     *)
(* after each message it handles; the printer turns the lines into messages *)
(* to a monitor thread, which sets a timer for each long one and reports   *)
(* it when the timer goes off first.  Both threads use one lock, and both  *)
(* may be slow: time passes between any two steps.  Times are in ticks; a  *)
(* delay that is over stays at 0.  A message of the looper is known by its *)
(* number, as the code knows it by its own String object.                  *)
(***************************************************************************)
EXTENDS Integers, SequencesExt

CONSTANTS DELAY,      \* before the monitor thread is bothered with a message
          SlowLog,    \* half a second: a message that takes longer is logged
          Limits,     \* values of stuckTimeLimit
          MaxMsgs,    \* bound on the messages printed
          MaxSets,    \* bound on the calls of setMainThreadStuckListener
          Old         \* bound on an age: no delay tells older ages apart

ASSUME DelaysAssumption == DELAY \in Nat \ {0} /\ SlowLog \in Nat /\ DELAY < SlowLog
ASSUME LimitsAssumption == Limits \subseteq Nat \ {0} /\ Limits # {}
ASSUME BoundsAssumption == MaxMsgs \in Nat /\ MaxSets \in Nat
ASSUME OldAssumption == Old \in Nat /\ Old > SlowLog /\ \A l \in Limits : Old > l

Nobody == "nobody"
STARTED == "LOOPER_PROCESS_STARTED"
FINISHED == "LOOPER_PROCESS_FINISHED"
TIMEOUT == "LOOPER_PROCESS_TIMEOUT"

Msgs == 1 .. MaxMsgs

VARIABLES
    stuckListener, stuckTimeLimit,
    printer,      \* does the looper print?
    sets,         \* calls of setMainThreadStuckListener; odd while one is half done
    main,         \* where the main thread stands
    count,        \* number of the message it handles or last handled
    age,          \* ticks since beginTimeStamp
    costTime,
    queue,        \* the monitor thread's messages, by the time they are due
    monitor, taken,
    lock,         \* owner of stuckMonitorLock
    ran,          \* history: how long each message took until its end was told, or 0
    reports,      \* history: how often each was reported
    false_alarms, \* history: those reported that did not take as long
    crossed       \* history: those whose end missed their start, see EndShort, EndLong

setting == <<stuckListener, stuckTimeLimit, printer, sets>>
looper  == <<main, count, age, costTime>>
thread  == <<monitor, taken>>
history == <<ran, reports, false_alarms, crossed>>
vars == <<setting, looper, queue, thread, lock, history>>

NoMessage == [what |-> "none", obj |-> 0, due |-> 0, limit |-> 0]

Init ==
    /\ stuckListener = FALSE /\ stuckTimeLimit \in Limits
    /\ printer = FALSE /\ sets = 0
    /\ main = "idle" /\ count = 0 /\ age = 0 /\ costTime = 0
    /\ queue = <<>>
    /\ monitor = "idle" /\ taken = NoMessage
    /\ lock = Nobody
    /\ ran = [m \in Msgs |-> 0] /\ reports = [m \in Msgs |-> 0]
    /\ false_alarms = {} /\ crossed = {}

-----------------------------------------------------------------------------
(* The queue of the monitor's handler.                                     *)

\* sendMessageDelayed: in front of the first message that is due later.
Send(q, what, obj, due) ==
    LET later == {k \in DOMAIN q : q[k].due > due}
        at    == IF later = {} THEN Len(q) + 1 ELSE Min(later)
    IN InsertAt(q, at, [what |-> what, obj |-> obj, due |-> due, limit |-> stuckTimeLimit])

\* Mutant: the numbers are boxed anew and never the same object.
RemoveNothing(q, what, obj) == q

\* The n-th of a set of places.
Nth(places, n) == CHOOSE k \in places : Cardinality({j \in places : j <= k}) = n

RemoveMessages(q, what, obj) ==
    LET kept == {k \in DOMAIN q : ~(q[k].what = what /\ q[k].obj = obj)}
    IN [n \in 1 .. Cardinality(kept) |-> q[Nth(kept, n)]]

Queued(what, obj) == \E k \in DOMAIN queue : queue[k].what = what /\ queue[k].obj = obj

-----------------------------------------------------------------------------
(* setMainThreadStuckListener, on any thread and without the lock.         *)

SetListener ==
    /\ sets < 2 * MaxSets /\ sets % 2 = 0
    /\ sets' = sets + 1
    /\ stuckListener' \in BOOLEAN
    /\ stuckTimeLimit' \in Limits
    /\ UNCHANGED <<printer, looper, queue, thread, lock, history>>

SetPrinter ==
    /\ sets % 2 = 1
    /\ sets' = sets + 1
    /\ printer' = stuckListener
    /\ UNCHANGED <<stuckListener, stuckTimeLimit, looper, queue, thread, lock, history>>

-----------------------------------------------------------------------------
(* The printer, on the main thread.  The looper looks for a printer before  *)
(* each message and prints the end of the message to the same one: only the *)
(* messages it prints are modelled.                                        *)

\* ">>>>> Dispatching to": the time is taken, then the message is sent.
Dispatching ==
    /\ printer /\ main = "idle" /\ lock = Nobody
    /\ count < MaxMsgs
    /\ main' = "begin" /\ lock' = "main"
    /\ count' = count + 1 /\ age' = 0
    /\ UNCHANGED <<setting, costTime, queue, thread, history>>

SendStarted ==
    /\ main = "begin"
    /\ main' = "work" /\ lock' = Nobody
    /\ queue' = Send(queue, STARTED, count, DELAY)
    /\ UNCHANGED <<setting, count, age, costTime, thread, history>>

\* "<<<<< Finished to": the cost is taken before the messages are seen to.
Finished ==
    /\ main = "work" /\ lock = Nobody
    /\ main' = "end" /\ lock' = "main"
    /\ costTime' = age
    /\ UNCHANGED <<setting, count, age, queue, thread, history>>

\* (History: the start message may have been taken from the queue already.)
EndShort ==
    /\ main = "end" /\ costTime < DELAY
    /\ main' = "idle" /\ lock' = Nobody
    /\ queue' = RemoveMessages(queue, STARTED, count)
    /\ ran' = [ran EXCEPT ![count] = age]
    /\ crossed' = IF Queued(STARTED, count) THEN crossed ELSE crossed \cup {count}
    /\ UNCHANGED <<setting, count, age, costTime, thread, reports, false_alarms>>

Logged == costTime > (IF SlowLog < stuckTimeLimit THEN SlowLog ELSE stuckTimeLimit)

\* (History: the start message may still be due later than this one.)
EndLong ==
    /\ main = "end" /\ costTime >= DELAY /\ ~Logged
    /\ main' = "idle" /\ lock' = Nobody
    /\ queue' = Send(queue, FINISHED, count, 0)
    /\ ran' = [ran EXCEPT ![count] = age]
    /\ crossed' = IF \E k \in DOMAIN queue : queue[k].obj = count /\ queue[k].what = STARTED
                                              /\ queue[k].due > 0
                  THEN crossed \cup {count} ELSE crossed
    /\ UNCHANGED <<setting, count, age, costTime, thread, reports, false_alarms>>

\* The logger of CrashCatcher has never been assigned: the line that is to log a slow
\* message throws, out of the looper, before the end is sent.
EndLogged ==
    /\ main = "end" /\ costTime >= DELAY /\ Logged
    /\ main' = "dead" /\ lock' = Nobody
    /\ crossed' = crossed \cup {count}
    /\ UNCHANGED <<setting, count, age, costTime, queue, thread, ran, reports, false_alarms>>

-----------------------------------------------------------------------------
(* stuckMonitorHandler, on the monitor thread.                             *)

Take ==
    /\ monitor = "idle" /\ queue # <<>> /\ Head(queue).due = 0
    /\ monitor' = "handle" /\ taken' = Head(queue)
    /\ queue' = Tail(queue)
    /\ UNCHANGED <<setting, looper, lock, history>>

Handles(what) == monitor = "handle" /\ taken.what = what /\ lock = Nobody

Handled == monitor' = "idle" /\ taken' = NoMessage

\* Mutant: one timer at a time.
TimerIfNone(obj) ==
    IF \E k \in DOMAIN queue : queue[k].what = TIMEOUT THEN queue
    ELSE Send(queue, TIMEOUT, obj, stuckTimeLimit)

Timer(obj) == Send(queue, TIMEOUT, obj, stuckTimeLimit)

HandleStarted ==
    /\ Handles(STARTED)
    /\ Handled
    /\ queue' = Timer(taken.obj)
    /\ UNCHANGED <<setting, looper, lock, history>>

HandleFinished ==
    /\ Handles(FINISHED)
    /\ Handled
    /\ queue' = RemoveMessages(queue, TIMEOUT, taken.obj)
    /\ UNCHANGED <<setting, looper, lock, history>>

\* stuckListener is tested, and read again when it is called.
HandleTimeout ==
    /\ Handles(TIMEOUT)
    /\ IF stuckListener
       THEN monitor' = "report" /\ lock' = "monitor" /\ UNCHANGED taken
       ELSE Handled /\ UNCHANGED lock
    /\ UNCHANGED <<setting, looper, queue, history>>

Took(n) == IF n = count /\ main \in {"begin", "work", "end"} THEN age ELSE ran[n]

\* The listener is called with the lock held; if it has been taken away since, the
\* thread dies of a NullPointerException.
OnStuck ==
    /\ monitor = "report"
    /\ lock' = Nobody
    /\ IF stuckListener
       THEN /\ Handled
            /\ reports' = [reports EXCEPT ![taken.obj] = @ + 1]
            /\ false_alarms' = IF Took(taken.obj) > taken.limit THEN false_alarms
                               ELSE false_alarms \cup {taken.obj}
       ELSE monitor' = "dead" /\ UNCHANGED <<taken, reports, false_alarms>>
    /\ UNCHANGED <<setting, looper, queue, ran, crossed>>

-----------------------------------------------------------------------------
Tick ==
    /\ age < Old \/ \E k \in DOMAIN queue : queue[k].due > 0
    /\ age' = IF age < Old THEN age + 1 ELSE age
    /\ queue' = [k \in DOMAIN queue |->
                   [queue[k] EXCEPT !.due = IF @ > 0 THEN @ - 1 ELSE 0]]
    /\ UNCHANGED <<setting, main, count, costTime, thread, lock, history>>

MainStep == SendStarted \/ EndShort \/ EndLong \/ EndLogged

MonitorStep == Take \/ HandleStarted \/ HandleFinished \/ HandleTimeout \/ OnStuck

Next ==
    \/ SetListener \/ SetPrinter
    \/ Dispatching \/ Finished \/ MainStep
    \/ MonitorStep
    \/ Tick

Spec == Init /\ [][Next]_vars

\* Time passes and both threads are scheduled; the lock is held for a moment only,
\* but a message need not end.
FairSpec ==
    /\ Spec
    /\ WF_vars(Tick) /\ WF_vars(MainStep) /\ SF_vars(MonitorStep)

-----------------------------------------------------------------------------
(* Properties.                                                             *)

\* A report is true, and the only one of its message, however slow either thread is:
\* the message took longer than the limit set for it before its end was told, or still
\* does; except for a message whose end crossed with its own start, or whose end was
\* lost with the main thread.
ReportIsTrueUnlessCrossed ==
    /\ false_alarms \subseteq crossed
    /\ \A n \in Msgs : reports[n] <= 1

\* A message that does not end is reported, unless the listener is taken away.
StuckIsReported ==
    \A n \in Msgs :
        (main = "work" /\ count = n /\ stuckListener) ~>
            (reports[n] > 0 \/ main # "work" \/ count # n \/ ~stuckListener \/ monitor = "dead")
=============================================================================
