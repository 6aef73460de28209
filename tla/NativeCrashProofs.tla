--------------------------- MODULE NativeCrashProofs ---------------------------
(***************************************************************************)
(* Theorems about NativeCrash, for any number of threads and signals and   *)
(* whatever goes wrong: as long as one thread alone has taken charge and   *)
(* no wait has ended by itself, it gives a whole report, and exits after   *)
(* the callback and the earlier handler.  The handler and the cleanup      *)
(* thread share one condition variable and no mutex that holds: what the   *)
(* argument rests on is who can be waiting when somebody is woken.         *)
(***************************************************************************)
EXTENDS NativeCrash, SequenceTheorems, TLAPS

USE DEF CallbackOver

\* Where the cleanup thread stands when it has not crashed itself.
CleanupPlaces == {"none", "lock", "cleanup_wait", "waiting", "unlock", "callback",
                  "wake_handler", "end"}

\* Places of sigHandler after the state has been set: writing the report, and later.
Writing == {"zero", "thread", "signo", "code", "notify"}
Leaving == {"old", "finish", "exit"}
Charged == Writing \cup {"wait", "waiting"} \cup Leaving

HandlerPlaces == {"check", "pause", "check_finished", "claim"} \cup Charged

InCharge(t) == sig[t] # None /\ pc[t] \in Charged

-----------------------------------------------------------------------------
(* What holds in any case.                                                 *)

\* Who is on the condition variable is inside pthread_cond_wait.
WaitInv == \A t \in waiters : pc[t] = "waiting"

\* A thread is in sigHandler if and only if it has faulted, on a signal taken over.
SigInv ==
    proc = "alive" => \A t \in Threads :
        IF sig[t] # None THEN pc[t] \in HandlerPlaces /\ sig[t] \in installed
        ELSE IF t = Cleanup THEN pc[t] \in CleanupPlaces
        ELSE pc[t] \in {"run", "setup"}

\* The cleanup thread is started last, and calls back before it wakes the handler.
CleanupInv ==
    /\ pc[Cleanup] # "none" => oldSigHandlers = installed
    /\ pc[Cleanup] = "none" => callback = "no"
    /\ pc[Cleanup] \in {"wake_handler", "end"} => CallbackOver
    /\ pc[Main] = "setup" => pc[Cleanup] = "none"
    /\ sig[Cleanup] # None => callback # "no"

BaseInv == TypeOK /\ WaitInv /\ SigInv /\ CleanupInv

-----------------------------------------------------------------------------
(* What holds as long as nothing is disturbed.                             *)

\* One thread is in charge, and none before the state has been set.
OneInv ==
    /\ \A t, u \in Threads : InCharge(t) /\ InCharge(u) => t = u
    /\ handleSigState = 0 => \A t \in Threads : ~InCharge(t)

\* The report while it is written, by the one who writes it.
WritingBy(t) ==
    /\ pc[t] = "thread" => sigdetail = <<>>
    /\ pc[t] = "signo"  => sigdetail = << <<t, "thread">> >>
    /\ pc[t] = "code"   => sigdetail = << <<t, "thread">>, <<t, "signo">> >>
    /\ pc[t] = "notify" => sigdetail = Report(t)

WritingInv == \A t \in Threads : sig[t] # None => WritingBy(t)

\* The report is written, for good.
Written ==
    /\ handleSigState # 0
    /\ \A t \in Threads : sig[t] # None => pc[t] \notin Writing
    /\ \E t \in Faulted : sigdetail = Report(t)

\* The cleanup thread has been woken.
Woken ==
    \/ pc[Cleanup] = "waiting" /\ sig[Cleanup] = None /\ Cleanup \notin waiters
    \/ pc[Cleanup] \in {"unlock", "callback", "wake_handler", "end"}
    \/ callback # "no"

WokenInv == Woken => Written

\* Nobody but the cleanup thread wakes the one in charge, after the callback.
ReturnedFor(t) ==
    (pc[t] = "waiting" /\ t \notin waiters) \/ pc[t] \in Leaving => CallbackOver

ReturnedInv ==
    /\ \A t \in Threads : sig[t] # None => ReturnedFor(t)
    /\ handleSigState = 2 => CallbackOver

\* It has then called the earlier handler, before it finishes.
OldRanFor(t) == pc[t] \in {"finish", "exit"} => sig[t] \in old_ran

OldInv ==
    /\ \A t \in Threads : sig[t] # None => OldRanFor(t)
    /\ handleSigState = 2 => \E t \in Faulted : pc[t] = "exit"

SoloInv == OneInv /\ WritingInv /\ WokenInv /\ ReturnedInv /\ OldInv

\* What the process has told and left behind.
EndInv ==
    /\ callback \in {"running", "returned"} => \E t \in Faulted : reported = Report(t)
    /\ ExitAfterCallback /\ OldHandlerCalled

IInv == BaseInv /\ (~disturbed => SoloInv /\ EndInv)

-----------------------------------------------------------------------------
(* What Append makes of a list of one or two.                              *)

LEMMA AppendTwo == ASSUME NEW a, NEW b PROVE Append(<<a>>, b) = <<a, b>>
<1> DEFINE s == Append(<<a>>, b)
           t == <<a, b>>
           F == {a, b}
<1>1. t \in Seq(F) /\ Len(t) = 2 /\ t[1] = a /\ t[2] = b
  OBVIOUS
<1>2. <<a>> \in Seq(F) /\ Len(<<a>>) = 1 /\ b \in F
  OBVIOUS
<1>3. s \in Seq(F) /\ Len(s) = 2 /\ s[1] = a /\ s[2] = b
  BY <1>2, AppendProperties
<1>4. \A i \in 1 .. 2 : s[i] = t[i]
  BY <1>1, <1>3
<1> HIDE DEF s, t, F
<1>5. s = t
  BY <1>1, <1>3, <1>4, SeqEqual
<1> QED
  BY <1>5 DEF s, t

LEMMA AppendThree == ASSUME NEW a, NEW b, NEW c PROVE Append(<<a, b>>, c) = <<a, b, c>>
<1> DEFINE s == Append(<<a, b>>, c)
           t == <<a, b, c>>
           F == {a, b, c}
<1>1. t \in Seq(F) /\ Len(t) = 3 /\ t[1] = a /\ t[2] = b /\ t[3] = c
  OBVIOUS
<1>2. <<a, b>> \in Seq(F) /\ Len(<<a, b>>) = 2 /\ c \in F
  OBVIOUS
<1>3. s \in Seq(F) /\ Len(s) = 3 /\ s[1] = a /\ s[2] = b /\ s[3] = c
  BY <1>2, AppendProperties
<1>4. \A i \in 1 .. 3 : s[i] = t[i]
  BY <1>1, <1>3
<1> HIDE DEF s, t, F
<1>5. s = t
  BY <1>1, <1>3, <1>4, SeqEqual
<1> QED
  BY <1>5 DEF s, t

-----------------------------------------------------------------------------
LEMMA InitInv == Init => IInv
<1> SUFFICES ASSUME Init PROVE IInv
  OBVIOUS
<1> USE ThreadsAssumption, SignalsAssumption DEF Init, Threads
<1>1. TypeOK
  <2>1. pc \in [Threads -> Places] /\ sig \in [Threads -> Signals \cup {None}]
    BY DEF Places
  <2>2. sigdetail \in Seq(Threads \X Places) /\ reported \in Seq(Threads \X Places)
    OBVIOUS
  <2>3. disturbed \in BOOLEAN /\ lost \in BOOLEAN
    OBVIOUS
  <2> QED
    BY <2>1, <2>2, <2>3 DEF TypeOK
<1>2. WaitInv /\ SigInv /\ CleanupInv
  BY DEF WaitInv, SigInv, CleanupInv, CleanupPlaces
<1>3. \A t \in Threads : sig[t] = None
  OBVIOUS
<1>4. ~Woken
  BY DEF Woken
<1>5. SoloInv
  BY <1>3, <1>4 DEF SoloInv, OneInv, InCharge, WritingInv, WokenInv, ReturnedInv, OldInv
<1>6. EndInv
  BY DEF EndInv, ExitAfterCallback, OldHandlerCalled, Exited
<1> QED
  BY <1>1, <1>2, <1>5, <1>6 DEF IInv, BaseInv

-----------------------------------------------------------------------------
(* Lemmas about a thread that moves.                                       *)

\* One thread is somewhere else, and no other.
Moves(t, to) == /\ pc' \in [Threads -> Places] /\ pc'[t] = to
                /\ \A u \in Threads \ {t} : pc'[u] = pc[u]

LEMMA GotoMoves ==
    ASSUME TypeOK, NEW t \in Threads, NEW from, NEW to \in Places, Goto(t, from, to)
    PROVE  proc = "alive" /\ pc[t] = from /\ Moves(t, to)
BY DEF Goto, Moves, TypeOK

\* A thread goes on inside sigHandler.
LEMMA HandlerBase ==
    ASSUME BaseInv, TypeOK', WaitInv', NEW t \in Threads, sig[t] # None,
           NEW to \in HandlerPlaces, Moves(t, to), proc = "alive",
           UNCHANGED <<sig, installed, oldSigHandlers, callback>>
    PROVE  BaseInv'
<1> USE ThreadsAssumption DEF Moves, Threads
<1>1. SigInv'
  BY DEF BaseInv, SigInv
<1>2. to \notin {"none", "wake_handler", "end", "setup"}
  BY DEF HandlerPlaces, Charged, Writing, Leaving
<1>3. pc[Cleanup] # "none" \/ t # Cleanup
  BY DEF BaseInv, SigInv, HandlerPlaces, Charged, Writing, Leaving
<1>4. CleanupInv'
  BY <1>2, <1>3 DEF BaseInv, CleanupInv
<1> QED
  BY <1>1, <1>4 DEF BaseInv

\* The cleanup thread goes on where it should.
LEMMA CleanupBase ==
    ASSUME BaseInv, TypeOK', WaitInv', sig[Cleanup] = None, pc[Cleanup] # "none",
           NEW to \in CleanupPlaces \ {"none"}, Moves(Cleanup, to), proc = "alive",
           to \in {"wake_handler", "end"} => CallbackOver',
           UNCHANGED <<sig, installed, oldSigHandlers>>
    PROVE  BaseInv'
<1> USE ThreadsAssumption DEF Moves, Threads
<1>1. SigInv'
  BY DEF BaseInv, SigInv
<1>2. CleanupInv'
  BY DEF BaseInv, CleanupInv
<1> QED
  BY <1>1, <1>2 DEF BaseInv

\* Only a thread that faulted is at a place of sigHandler that is not also one of
\* the cleanup thread's own.
LEMMA FaultedThere ==
    ASSUME BaseInv, proc = "alive", NEW t \in Threads, pc[t] \in HandlerPlaces,
           pc[t] # "waiting"
    PROVE  sig[t] # None
BY DEF BaseInv, SigInv, HandlerPlaces, Charged, Writing, Leaving, CleanupPlaces

\* Who does not wait is not on the condition variable.
LEMMA NotWaiting ==
    ASSUME BaseInv, NEW t \in Threads, pc[t] # "waiting" PROVE t \notin waiters
BY DEF BaseInv, WaitInv

LEMMA SetupBase == ASSUME BaseInv, InitStep PROVE BaseInv'
<1> USE ThreadsAssumption, SignalsAssumption DEF Threads
<1>1. ASSUME NEW s \in Signals, InstallHandler(s) \/ InstallHandlerFails(s) \/ RecordOldHandler(s) PROVE BaseInv'
  <2>1. pc' = pc
    BY <1>1, ZenonT(30) DEF InstallHandler, InstallHandlerFails, RecordOldHandler, Goto, BaseInv, TypeOK
  <2>2. TypeOK'
    BY <1>1, <2>1 DEF BaseInv, TypeOK, InstallHandler, InstallHandlerFails, RecordOldHandler, shared, history
  <2>3. WaitInv' /\ SigInv' 
    BY <1>1, <2>1 DEF BaseInv, WaitInv, SigInv, InstallHandler, InstallHandlerFails, RecordOldHandler, shared
  <2>4. CleanupInv'
    BY <1>1, <2>1 DEF BaseInv, TypeOK, CleanupInv, InstallHandler, InstallHandlerFails, RecordOldHandler, Goto
  <2> QED
    BY <2>2, <2>3, <2>4 DEF BaseInv
<1>2. ASSUME SetupCleanupThread \/ SetupCleanupThreadFails PROVE BaseInv'
  <2>1. PICK to \in {"lock", "none"} :
          pc' = [pc EXCEPT ![Main] = "run", ![Cleanup] = to]
    <3>1. CASE SetupCleanupThread
      BY <3>1 DEF SetupCleanupThread
    <3>2. CASE SetupCleanupThreadFails
      <4>1. pc[Cleanup] = "none"
        BY <3>2 DEF SetupCleanupThreadFails, SetupDone, BaseInv, CleanupInv
      <4> QED
        BY <3>2, <4>1 DEF SetupCleanupThreadFails, BaseInv, TypeOK
    <3> QED
      BY <1>2, <3>1, <3>2
  <2>2. /\ UNCHANGED <<scenario, sig, handleSigState, sigdetail, mutex, waiters>>
        /\ UNCHANGED <<installed, oldSigHandlers, proc, callback, reported>>
        /\ UNCHANGED <<old_ran, disturbed, lost>>
        /\ proc = "alive" /\ pc[Main] = "setup" /\ oldSigHandlers = installed /\ UNCHANGED refused
    BY <1>2 DEF SetupCleanupThread, SetupCleanupThreadFails, SetupDone, shared, setup, history
  <2>3. pc' \in [Threads -> Places]
    BY <2>1 DEF BaseInv, TypeOK, Places
  <2>4. TypeOK'
    BY <2>2, <2>3 DEF BaseInv, TypeOK
  <2>5. pc[Cleanup] = "none" /\ sig[Main] = None /\ callback = "no"
    BY <2>2 DEF BaseInv, CleanupInv, SigInv, HandlerPlaces, Charged, Writing, Leaving
  <2>6. /\ pc'[Main] = "run" /\ pc'[Cleanup] = to
        /\ \A t \in Threads \ {Main, Cleanup} : pc'[t] = pc[t]
    BY <2>1 DEF BaseInv, TypeOK
  <2>7. sig[Cleanup] = None
    BY <2>2, <2>5 DEF BaseInv, CleanupInv
  <2>8. WaitInv'
    BY <2>2, <2>5, <2>6 DEF BaseInv, WaitInv, TypeOK
  <2>9. SigInv'
    BY <2>2, <2>6, <2>7, <2>5 DEF BaseInv, SigInv, CleanupPlaces
  <2>10. CleanupInv'
    BY <2>2, <2>5, <2>6, <2>7 DEF CleanupInv
  <2> QED
    BY <2>4, <2>8, <2>9, <2>10 DEF BaseInv
<1> QED
  BY <1>1, <1>2 DEF InitStep

\* A thread that can fault does: it enters the handler, or the process dies.
LEMMA SignalBase ==
    ASSUME BaseInv, NEW t \in Threads, NEW s \in Signals, Signal(t, s), proc = "alive",
           t = Cleanup => callback # "no" /\ pc[t] # "none", t \notin waiters,
           old_ran' \subseteq Signals,
           UNCHANGED <<scenario, shared, setup, callback, reported, disturbed, lost>>
    PROVE  BaseInv'
<1> USE ThreadsAssumption, SignalsAssumption DEF Threads, shared, setup
<1>1. /\ sig' \in [Threads -> Signals \cup {None}] /\ sig'[t] = s
      /\ \A u \in Threads \ {t} : sig'[u] = sig[u]
  BY DEF BaseInv, TypeOK, Signal
<1>2. CASE s \in installed
  <2>1. /\ pc' \in [Threads -> Places] /\ pc'[t] = "check" /\ proc' = proc
        /\ \A u \in Threads \ {t} : pc'[u] = pc[u]
    BY <1>2 DEF BaseInv, TypeOK, Signal, Places
  <2>2. TypeOK'
    BY <1>1, <2>1 DEF BaseInv, TypeOK
  <2>3. WaitInv'
    BY <2>1 DEF BaseInv, WaitInv, TypeOK
  <2>4. SigInv'
    BY <1>1, <1>2, <2>1 DEF BaseInv, SigInv, HandlerPlaces
  <2>5. CleanupInv'
    BY <1>1, <2>1 DEF BaseInv, CleanupInv
  <2> QED
    BY <2>2, <2>3, <2>4, <2>5 DEF BaseInv
<1>3. CASE s \notin installed
  <2>1. pc' = pc /\ proc' = "killed"
    BY <1>3 DEF Signal
  <2>2. TypeOK'
    BY <1>1, <2>1 DEF BaseInv, TypeOK
  <2>3. WaitInv' /\ SigInv'
    BY <2>1 DEF BaseInv, WaitInv, SigInv
  <2>4. CleanupInv'
    BY <1>1, <2>1 DEF BaseInv, CleanupInv
  <2> QED
    BY <2>2, <2>3, <2>4 DEF BaseInv
<1> QED
  BY <1>2, <1>3

LEMMA CrashBase ==
    ASSUME BaseInv, NEW t \in Threads, NEW s \in Signals,
           (t \in AppThreads /\ Crash(t, s)) \/ (t = Cleanup /\ CallbackCrashes(s))
    PROVE  BaseInv'
<1>1. CASE t \in AppThreads /\ Crash(t, s)
  <2>1. t # Cleanup /\ t \notin waiters
    BY <1>1, ThreadsAssumption, NotWaiting DEF Crash
  <2> QED
    BY <1>1, <2>1, SignalBase DEF Crash, history, BaseInv, TypeOK
<1>2. CASE t = Cleanup /\ CallbackCrashes(s)
  <2>1. t \notin waiters
    BY <1>2, NotWaiting DEF CallbackCrashes
  <2> QED
    BY <1>2, <2>1, SignalBase DEF CallbackCrashes, history, BaseInv, TypeOK
<1> QED
  BY <1>1, <1>2

\* Each step of sigHandler moves the thread, which has faulted, within sigHandler.
LEMMA HandlerMoves ==
    ASSUME BaseInv, NEW t \in Threads, HandlerStep(t) \/ PauseReturns(t)
    PROVE  proc = "alive" /\ sig[t] # None /\ pc[t] \in HandlerPlaces
<1>1. proc = "alive" /\ (sig[t] # None \/ pc[t] \in HandlerPlaces \ {"waiting"})
  BY DEF HandlerStep, PauseReturns, CheckInProgress, CheckFinished, Claim,
     AssembleCrashInfo, NextField, Notify, Wait, CondWait, WakeUp, ExecOldSigHandlers,
     Finish, ExitAtLast, Exit, Goto, HandlerPlaces, Charged, Writing, Leaving
<1>2. sig[t] # None
  BY <1>1, FaultedThere
<1> QED
  BY <1>1, <1>2 DEF BaseInv, SigInv

\* A step that leaves all threads where they are.
LEMMA StillBase ==
    ASSUME BaseInv, UNCHANGED <<pc, sig, installed, oldSigHandlers, callback>>,
           TypeOK', waiters' \subseteq waiters, proc = "alive"
    PROVE  BaseInv'
BY DEF BaseInv, WaitInv, SigInv, CleanupInv

LEMMA HandlerStepBase ==
    ASSUME BaseInv, NEW t \in Threads, HandlerStep(t) \/ PauseReturns(t)
    PROVE  BaseInv'
<1> USE DEF HandlerKeeps, shared, history, setup
<1>0. TypeOK /\ proc = "alive" /\ sig[t] # None
  BY HandlerMoves DEF BaseInv
<1>1. ASSUME NEW from \in HandlerPlaces \ {"waiting"}, NEW to \in HandlerPlaces \cap Places,
             Goto(t, from, to), waiters' \subseteq waiters, TypeOK',
             UNCHANGED <<sig, installed, oldSigHandlers, callback>>
      PROVE  BaseInv'
  <2>1. Moves(t, to) /\ pc[t] = from
    BY <1>0, <1>1, GotoMoves
  <2>2. WaitInv'
    BY <1>0, <1>1, <2>1 DEF BaseInv, WaitInv, TypeOK, Moves
  <2> QED
    BY <1>0, <1>1, <2>1, <2>2, HandlerBase
<1>2. CASE CheckInProgress(t) \/ PauseReturns(t)
  <2>1. pc' \in [Threads -> Places]
    BY <1>0, <1>2 DEF CheckInProgress, PauseReturns, Goto, TypeOK, Places
  <2>2. TypeOK'
    BY <1>0, <1>2, <2>1 DEF CheckInProgress, PauseReturns, TypeOK
  <2> QED
    BY <1>1, <1>2, <2>2 DEF CheckInProgress, PauseReturns, HandlerPlaces, Charged, Places
<1>3. CASE CheckFinished(t)
  <2>1. CASE Exit(t, "check_finished", "exit 66")
    BY <1>0, <2>1, StillBase DEF Exit, TypeOK
  <2>2. CASE Goto(t, "check_finished", "claim") /\ UNCHANGED <<shared, proc, history, HandlerKeeps>>
    <3>1. TypeOK'
      BY <1>0, <2>2 DEF Goto, TypeOK, Places
    <3> QED
      BY <1>1, <2>2, <3>1 DEF HandlerPlaces, Charged, Places
  <2> QED
    BY <1>3, <2>1, <2>2 DEF CheckFinished
<1>4. CASE Claim(t)
  <2>1. pc' \in [Threads -> Places] /\ disturbed' \in BOOLEAN
    BY <1>0, <1>4 DEF Claim, Goto, TypeOK, Places
  <2>2. TypeOK'
    BY <1>0, <1>4, <2>1 DEF Claim, TypeOK
  <2> QED
    BY <1>1, <1>4, <2>2 DEF Claim, HandlerPlaces, Charged, Writing, Places
<1>5. CASE AssembleCrashInfo(t)
  <2>1. PICK field \in DOMAIN NextField :
          /\ Goto(t, field, NextField[field])
          /\ sigdetail' = CASE field = "zero"   -> <<>>
                            [] field = "thread" -> << <<t, field>> >>
                            [] OTHER            -> Append(sigdetail, <<t, field>>)
          /\ UNCHANGED <<handleSigState, mutex, waiters, proc, history, HandlerKeeps>>
    BY <1>5 DEF AssembleCrashInfo
  <2>2. /\ field \in (HandlerPlaces \cap Places) \ {"waiting"}
        /\ NextField[field] \in HandlerPlaces \cap Places
    BY DEF NextField, HandlerPlaces, Charged, Writing, Places
  <2>3. sigdetail' \in Seq(Threads \X Places)
    <3>1. <<t, field>> \in Threads \X Places /\ sigdetail \in Seq(Threads \X Places)
      BY <1>0, <2>2 DEF TypeOK
    <3>2. ASSUME NEW F, NEW e \in F, NEW q \in Seq(F)
          PROVE  <<>> \in Seq(F) /\ <<e>> \in Seq(F) /\ Append(q, e) \in Seq(F)
      OBVIOUS
    <3>3. sigdetail' = <<>> \/ sigdetail' = << <<t, field>> >>
            \/ sigdetail' = Append(sigdetail, <<t, field>>)
      BY <2>1
    <3> QED
      BY <3>1, <3>2, <3>3
  <2>4. TypeOK'
    BY <1>0, <2>1, <2>2, <2>3 DEF Goto, TypeOK
  <2> QED
    BY <1>1, <2>1, <2>2, <2>4
<1>6. CASE Notify(t)
  <2>1. pc' \in [Threads -> Places] /\ waiters' \subseteq waiters /\ lost' \in BOOLEAN
    BY <1>0, <1>6 DEF Notify, CondSignal, Goto, TypeOK, Places
  <2>2. TypeOK'
    BY <1>0, <1>6, <2>1 DEF Notify, TypeOK
  <2> QED
    BY <1>1, <1>6, <2>1, <2>2 DEF Notify, HandlerPlaces, Charged, Writing, Places
<1>7. CASE Wait(t)
  <2>1. Moves(t, "waiting")
    BY <1>0, <1>7, GotoMoves DEF Wait, CondWait, Places
  <2>2. TypeOK' /\ WaitInv'
    BY <1>0, <1>7, <2>1 DEF Wait, CondWait, BaseInv, WaitInv, TypeOK, Moves
  <2> QED
    BY <1>0, <1>7, <2>1, <2>2, HandlerBase DEF Wait, CondWait, HandlerPlaces, Charged
<1>8. CASE WakeUp(t, "old")
  <2>1. Moves(t, "old")
    BY <1>0, <1>8, GotoMoves DEF WakeUp, Places
  <2>2. TypeOK' /\ WaitInv'
    BY <1>0, <1>8, <2>1 DEF WakeUp, BaseInv, WaitInv, TypeOK, Moves
  <2> QED
    BY <1>0, <1>8, <2>1, <2>2, HandlerBase DEF WakeUp, HandlerPlaces, Charged, Leaving
<1>9. CASE ExecOldSigHandlers(t)
  <2>1. pc[t] = "old" /\ old_ran' \subseteq Signals
    BY <1>0, <1>9 DEF ExecOldSigHandlers, TypeOK
  <2>2. CASE pc' = [pc EXCEPT ![t] = "finish"] /\ UNCHANGED <<sig, proc>>
    <3>1. TypeOK'
      BY <1>0, <1>9, <2>1, <2>2 DEF ExecOldSigHandlers, TypeOK, Places
    <3> QED
      BY <1>0, <1>1, <1>9, <2>1, <2>2, <3>1
         DEF ExecOldSigHandlers, Goto, HandlerPlaces, Charged, Leaving, Places
  <2>3. CASE proc' = "killed" /\ UNCHANGED <<scenario, sig, pc>>
    <3>1. TypeOK'
      BY <1>0, <1>9, <2>1, <2>3 DEF ExecOldSigHandlers, TypeOK
    <3> QED
      BY <1>0, <1>9, <2>3, <3>1, StillBase DEF ExecOldSigHandlers
  <2>4. CASE Signal(t, Segv)
    <3>1. t \notin waiters
      BY <2>1, NotWaiting
    <3>2. t = Cleanup => callback # "no" /\ pc[t] # "none"
      BY <1>0, <2>1 DEF BaseInv, CleanupInv
    <3> QED
      BY <1>0, <1>9, <2>1, <2>4, <3>1, <3>2, SignalBase, SignalsAssumption
         DEF ExecOldSigHandlers
  <2> QED
    BY <1>9, <2>2, <2>3, <2>4 DEF ExecOldSigHandlers
<1>10. CASE Finish(t)
  <2>1. TypeOK'
    BY <1>0, <1>10 DEF Finish, Goto, TypeOK, Places
  <2> QED
    BY <1>1, <1>10, <2>1 DEF Finish, HandlerPlaces, Charged, Leaving, Places
<1>11. CASE ExitAtLast(t)
  BY <1>0, <1>11, StillBase DEF ExitAtLast, Exit, TypeOK
<1> QED
  BY <1>2, <1>3, <1>4, <1>5, <1>6, <1>7, <1>8, <1>9, <1>10, <1>11 DEF HandlerStep

LEMMA SpuriousBase ==
    ASSUME BaseInv, NEW t \in Threads, SpuriousWakeUp(t) PROVE BaseInv'
<1>1. TypeOK' /\ waiters' \subseteq waiters /\ proc = "alive"
  BY DEF SpuriousWakeUp, BaseInv, TypeOK, HandlerKeeps, setup
<1> QED
  BY <1>1, StillBase DEF SpuriousWakeUp, HandlerKeeps, setup

LEMMA CleanupStepBase == ASSUME BaseInv, CleanupStep PROVE BaseInv'
<1> USE ThreadsAssumption DEF Threads, HandlerKeeps, shared, history, setup
<1>0. TypeOK /\ Cleanup \in Threads
  BY DEF BaseInv
<1>1. ASSUME NEW from \in CleanupPlaces \ {"none"}, NEW to \in CleanupPlaces \ {"none"},
             Goto(Cleanup, from, to), sig[Cleanup] = None, TypeOK', WaitInv',
             to \in {"wake_handler", "end"} => CallbackOver',
             UNCHANGED <<sig, installed, oldSigHandlers>>
      PROVE  BaseInv'
  <2>1. Moves(Cleanup, to) /\ pc[Cleanup] = from /\ proc = "alive"
    BY <1>0, <1>1, GotoMoves DEF CleanupPlaces, Places
  <2> QED
    BY <1>1, <2>1, CleanupBase
<1>2. proc = "alive" /\ pc[Cleanup] \in CleanupPlaces \ {"waiting"} => sig[Cleanup] = None
  BY DEF BaseInv, SigInv, CleanupPlaces, HandlerPlaces, Charged, Writing, Leaving
<1>3. CASE Lock
  <2>1. TypeOK' /\ WaitInv'
    BY <1>0, <1>3 DEF Lock, Goto, TypeOK, BaseInv, WaitInv, Places
  <2> QED
    BY <1>1, <1>2, <1>3, <2>1 DEF Lock, Goto, CleanupPlaces
<1>4. CASE CleanupWait
  <2>1. TypeOK' /\ WaitInv'
    BY <1>0, <1>4 DEF CleanupWait, CondWait, Goto, TypeOK, BaseInv, WaitInv, Places
  <2> QED
    BY <1>1, <1>2, <1>4, <2>1 DEF CleanupWait, CondWait, Goto, CleanupPlaces
<1>5. CASE sig[Cleanup] = None /\ WakeUp(Cleanup, "unlock")
  <2>1. TypeOK' /\ WaitInv'
    BY <1>0, <1>5 DEF WakeUp, Goto, TypeOK, BaseInv, WaitInv, Places
  <2> QED
    BY <1>1, <1>5, <2>1 DEF WakeUp, Goto, CleanupPlaces
<1>6. CASE Unlock
  <2>1. TypeOK' /\ WaitInv'
    BY <1>0, <1>6 DEF Unlock, Goto, TypeOK, BaseInv, WaitInv, Places
  <2> QED
    BY <1>1, <1>2, <1>6, <2>1 DEF Unlock, Goto, CleanupPlaces
<1>7. CASE CallbackToUI
  <2>1. TypeOK'
    BY <1>0, <1>7 DEF CallbackToUI, TypeOK
  <2>2. CleanupInv'
    BY <1>2, <1>7 DEF CallbackToUI, BaseInv, CleanupInv, CleanupPlaces
  <2> QED
    BY <1>7, <2>1, <2>2 DEF CallbackToUI, BaseInv, WaitInv, SigInv
<1>8. CASE CallbackReturns \/ CallbackFails
  <2>1. TypeOK' /\ WaitInv'
    BY <1>0, <1>8 DEF CallbackReturns, CallbackFails, Goto, TypeOK, BaseInv, WaitInv, Places
  <2> QED
    BY <1>1, <1>2, <1>8, <2>1 DEF CallbackReturns, CallbackFails, Goto, CleanupPlaces
<1>9. CASE WakeHandler
  <2>1. pc' \in [Threads -> Places] /\ waiters' \subseteq waiters /\ lost' \in BOOLEAN
    BY <1>0, <1>9 DEF WakeHandler, CondSignal, Goto, TypeOK, Places
  <2>2. TypeOK' /\ WaitInv'
    BY <1>0, <1>9, <2>1 DEF WakeHandler, Goto, TypeOK, BaseInv, WaitInv
  <2>3. CallbackOver'
    BY <1>9 DEF WakeHandler, Goto, BaseInv, CleanupInv
  <2> QED
    BY <1>1, <1>2, <1>9, <2>2, <2>3 DEF WakeHandler, Goto, CleanupPlaces
<1> QED
  BY <1>3, <1>4, <1>5, <1>6, <1>7, <1>8, <1>9 DEF CleanupStep

LEMMA BaseStep == BaseInv /\ [Next]_vars => BaseInv'
<1> SUFFICES ASSUME BaseInv, [Next]_vars PROVE BaseInv'
  OBVIOUS
<1>1. ASSUME NEW t \in AppThreads, NEW s \in Signals, Crash(t, s) PROVE BaseInv'
  <2>1. t \in Threads
    BY DEF Threads
  <2>2. (t \in AppThreads /\ Crash(t, s)) \/ (t = Cleanup /\ CallbackCrashes(s))
    BY <1>1
  <2> QED
    BY <2>1, <2>2, CrashBase
<1>2. ASSUME NEW s \in Signals, CallbackCrashes(s) PROVE BaseInv'
  <2>1. Cleanup \in Threads
    BY DEF Threads
  <2> QED
    BY <1>2, <2>1, CrashBase
<1>3. CASE UNCHANGED vars
  BY <1>3 DEF vars, shared, setup, history, BaseInv, TypeOK, WaitInv, SigInv, CleanupInv
<1> QED
  BY <1>1, <1>2, <1>3, SetupBase, CleanupStepBase, HandlerStepBase, SpuriousBase DEF Next

-----------------------------------------------------------------------------
(* Two ways in which SoloInv and EndInv survive a step: it is a step of the *)
(* thread in charge, or of one that is not.                                *)

\* Nobody but t is in charge, and t keeps its part.
LEMMA Onward ==
    ASSUME BaseInv, EndInv, NEW t \in Threads, sig[t] # None, sig'[t] # None,
           \A u \in Threads \ {t} : pc'[u] = pc[u] /\ sig'[u] = sig[u] /\ ~InCharge(u),
           handleSigState' # 0, Woken' => Written',
           WritingBy(t)', ReturnedFor(t)', OldRanFor(t)',
           handleSigState' = 2 => CallbackOver' /\ pc'[t] = "exit",
           UNCHANGED <<callback, reported>>, proc' \in {"alive", "killed"}
    PROVE  SoloInv' /\ EndInv'
<1>1. \A u \in Threads \ {t} : sig'[u] # None => pc'[u] \notin Charged
  BY DEF InCharge
<1>2. OneInv'
  BY <1>1 DEF OneInv, InCharge
<1>3. \A u \in Threads \ {t} : sig'[u] # None => WritingBy(u)' /\ ReturnedFor(u)' /\ OldRanFor(u)'
  BY <1>1 DEF WritingBy, ReturnedFor, OldRanFor, Charged, Writing, Leaving
<1>4. WritingInv' /\ WokenInv' /\ ReturnedInv' /\ OldInv'
  BY <1>3 DEF WritingInv, WokenInv, ReturnedInv, OldInv, Faulted
<1>5. EndInv'
  BY DEF EndInv, ExitAfterCallback, OldHandlerCalled, Exited, Faulted
<1> QED
  BY <1>2, <1>4, <1>5 DEF SoloInv

\* Threads that are not in charge, before and after.
LEMMA Aside ==
    ASSUME BaseInv, SoloInv, EndInv, NEW A \in SUBSET Threads,
           \A t \in A : /\ ~InCharge(t) /\ ~InCharge(t)'
                        /\ sig[t] # None => sig'[t] # None,
           \A u \in Threads \ A : pc'[u] = pc[u] /\ sig'[u] = sig[u],
           Woken' => Woken, CallbackOver \/ waiters \ A \subseteq waiters',
           UNCHANGED <<handleSigState, sigdetail, callback, reported, old_ran>>,
           proc' \in {"alive", "killed"}
    PROVE  SoloInv' /\ EndInv'
<1>1. \A u \in Threads : InCharge(u)' <=> InCharge(u)
  BY DEF InCharge
<1>2. OneInv'
  BY <1>1 DEF SoloInv, OneInv
<1>3. \A t \in A : sig'[t] # None => pc'[t] \notin Charged
  BY DEF InCharge
<1>4. WritingInv'
  <2> SUFFICES ASSUME NEW u \in Threads, sig'[u] # None PROVE WritingBy(u)'
    BY DEF WritingInv
  <2> QED
    BY <1>3 DEF SoloInv, WritingInv, WritingBy, Report, Charged, Writing
<1>5. Written => Written'
  BY <1>3 DEF Written, Report, Faulted, Charged
<1>6. WokenInv'
  BY <1>5 DEF SoloInv, WokenInv
<1>7. ReturnedInv'
  <2> SUFFICES ASSUME NEW u \in Threads, sig'[u] # None PROVE ReturnedFor(u)'
    BY DEF SoloInv, ReturnedInv
  <2> QED
    BY <1>3 DEF SoloInv, ReturnedInv, ReturnedFor, Charged, Leaving
<1>8. OldInv'
  <2>1. ASSUME NEW u \in Threads, sig'[u] # None PROVE OldRanFor(u)'
    BY <1>3, <2>1 DEF SoloInv, OldInv, OldRanFor, Charged, Leaving
  <2>2. ASSUME NEW u \in Faulted, pc[u] = "exit" PROVE u \in Faulted' /\ pc'[u] = "exit"
    BY <2>2 DEF InCharge, Faulted, Charged, Leaving
  <2> QED
    BY <2>1, <2>2 DEF SoloInv, OldInv
<1>9. EndInv'
  <2>1. ~Exited'
    BY DEF Exited
  <2>2. Faulted \subseteq Faulted'
    BY DEF Faulted
  <2> QED
    BY <2>1, <2>2 DEF EndInv, ExitAfterCallback, OldHandlerCalled, Report
<1> QED
  BY <1>2, <1>4, <1>6, <1>7, <1>8, <1>9 DEF SoloInv

-----------------------------------------------------------------------------
(* The steps, as long as nothing is disturbed.                             *)

\* What wakes the cleanup thread is a notification, and nothing else.
LEMMA StaysUnwoken ==
    ASSUME BaseInv, NEW t \in Threads, sig[t] # None, Cleanup \in waiters => Cleanup \in waiters',
           \A u \in Threads \ {t} : pc'[u] = pc[u] /\ sig'[u] = sig[u],
           UNCHANGED callback
    PROVE  Woken' => Woken
BY DEF Threads, Woken, BaseInv, CleanupInv

LEMMA HandlerSolo ==
    ASSUME BaseInv, BaseInv', SoloInv, EndInv, ~disturbed',
           NEW t \in Threads, HandlerStep(t) \/ PauseReturns(t)
    PROVE  SoloInv' /\ EndInv'
<1> USE DEF HandlerKeeps, shared, history, setup
<1>0. TypeOK /\ proc = "alive" /\ sig[t] # None /\ pc[t] \in HandlerPlaces
  BY HandlerMoves DEF BaseInv
<1>1. ASSUME pc[t] \in Charged
      PROVE  (\A u \in Threads \ {t} : ~InCharge(u)) /\ handleSigState # 0
  BY <1>0, <1>1 DEF SoloInv, OneInv, InCharge
<1>2. ASSUME NEW from \in HandlerPlaces \ Charged, NEW to \in {"pause", "check_finished", "claim"},
             Goto(t, from, to), UNCHANGED <<shared, proc, history, HandlerKeeps>>
      PROVE  SoloInv' /\ EndInv'
  <2>1. Moves(t, to) /\ pc[t] = from
    BY <1>0, <1>2, GotoMoves DEF Places
  <2>2. ~InCharge(t) /\ ~InCharge(t)'
    BY <2>1 DEF InCharge, Moves, Charged, Writing, Leaving
  <2>3. Woken' => Woken
    BY <1>0, <1>2, <2>1, StaysUnwoken DEF Moves
  <2>4. /\ {t} \in SUBSET Threads
        /\ \A u \in {t} : ~InCharge(u) /\ ~InCharge(u)' /\ (sig[u] # None => sig'[u] # None)
        /\ \A u \in Threads \ {t} : pc'[u] = pc[u] /\ sig'[u] = sig[u]
    BY <1>2, <2>1, <2>2 DEF Moves
  <2> QED
    BY <1>0, <1>2, <2>3, <2>4, Aside
<1>3. CASE CheckInProgress(t) \/ PauseReturns(t)
  BY <1>2, <1>3 DEF CheckInProgress, PauseReturns, HandlerPlaces, Charged, Writing, Leaving
<1>4. CASE CheckFinished(t)
  <2>1. CASE handleSigState = 2 /\ Exit(t, "check_finished", "exit 66")
    <3>1. UNCHANGED <<pc, sig, shared, callback, reported, old_ran>>
      BY <2>1 DEF Exit
    <3>2. SoloInv'
      BY <3>1 DEF SoloInv, OneInv, InCharge, WritingInv, WritingBy, Report, WokenInv, Woken,
         Written, Faulted, ReturnedInv, ReturnedFor, OldInv, OldRanFor
    <3>3. CallbackOver /\ \E u \in Faulted : sig[u] \in old_ran
      BY <2>1 DEF SoloInv, ReturnedInv, OldInv, OldRanFor, Faulted
    <3>4. EndInv'
      BY <3>1, <3>3 DEF EndInv, ExitAfterCallback, OldHandlerCalled, Faulted, Report
    <3> QED
      BY <3>2, <3>4
  <2>2. CASE Goto(t, "check_finished", "claim") /\ UNCHANGED <<shared, proc, history, HandlerKeeps>>
    BY <1>2, <2>2 DEF HandlerPlaces, Charged, Writing, Leaving
  <2> QED
    BY <1>4, <2>1, <2>2 DEF CheckFinished
<1>5. CASE Claim(t)
  <2>1. Moves(t, "zero")
    BY <1>0, <1>5, GotoMoves DEF Claim, Places
  <2>2. handleSigState = 0 /\ handleSigState' = 1
    BY <1>5 DEF Claim
  <2>3. \A u \in Threads : ~InCharge(u)
    BY <2>2 DEF SoloInv, OneInv
  <2>4. ~Woken
    BY <2>2 DEF SoloInv, WokenInv, Written
  <2>5. ~Woken'
    BY <1>0, <1>5, <2>1, <2>4, StaysUnwoken DEF Claim, Moves
  <2>6. WritingBy(t)' /\ ReturnedFor(t)' /\ OldRanFor(t)'
    BY <2>1 DEF Moves, WritingBy, ReturnedFor, OldRanFor, Leaving
  <2> QED
    BY <1>0, <1>5, <2>1, <2>2, <2>3, <2>5, <2>6, Onward DEF Claim, Moves
<1>6. CASE AssembleCrashInfo(t)
  <2>1. PICK field \in DOMAIN NextField :
          /\ Goto(t, field, NextField[field])
          /\ sigdetail' = CASE field = "zero"   -> <<>>
                            [] field = "thread" -> << <<t, field>> >>
                            [] OTHER            -> Append(sigdetail, <<t, field>>)
          /\ UNCHANGED <<handleSigState, mutex, waiters, proc, history, HandlerKeeps>>
    BY <1>6 DEF AssembleCrashInfo
  <2>2. field \in Writing /\ NextField[field] \in Writing /\ NextField[field] \in Places
    BY DEF NextField, Writing, Places
  <2>3. Moves(t, NextField[field]) /\ pc[t] = field
    BY <1>0, <2>1, <2>2, GotoMoves
  <2>4. (\A u \in Threads \ {t} : ~InCharge(u)) /\ handleSigState # 0
    BY <1>1, <2>2, <2>3 DEF Charged
  <2>5. ~Woken
    BY <1>0, <2>2, <2>3 DEF SoloInv, WokenInv, Written
  <2>6. ~Woken'
    BY <1>0, <2>1, <2>3, <2>5, StaysUnwoken DEF Moves
  <2>7. WritingBy(t)
    BY <1>0 DEF SoloInv, WritingInv
  <2>8. WritingBy(t)'
    <3>1. CASE field = "zero"
      BY <2>1, <2>3, <3>1 DEF NextField, Moves, WritingBy
    <3>2. CASE field = "thread"
      BY <2>1, <2>3, <3>2 DEF NextField, Moves, WritingBy
    <3>3. CASE field = "signo"
      <4>1. sigdetail' = Append(<< <<t, "thread">> >>, <<t, "signo">>)
        BY <2>1, <2>3, <2>7, <3>3 DEF WritingBy
      <4> QED
        BY <2>3, <3>3, <4>1, AppendTwo DEF NextField, Moves, WritingBy
    <3>4. CASE field = "code"
      <4>1. sigdetail' = Append(<< <<t, "thread">>, <<t, "signo">> >>, <<t, "code">>)
        BY <2>1, <2>3, <2>7, <3>4 DEF WritingBy
      <4> QED
        BY <2>3, <3>4, <4>1, AppendThree DEF NextField, Moves, WritingBy, Report
    <3> QED
      BY <3>1, <3>2, <3>3, <3>4 DEF NextField
  <2>9. ReturnedFor(t)' /\ OldRanFor(t)'
    BY <2>2, <2>3 DEF Moves, ReturnedFor, OldRanFor, Writing, Leaving
  <2>10. handleSigState # 2
    BY <2>2, <2>3, <2>4 DEF SoloInv, OldInv, Faulted, InCharge, Charged, Writing, Leaving
  <2> QED
    BY <1>0, <2>1, <2>3, <2>4, <2>6, <2>8, <2>9, <2>10, Onward DEF Moves
<1>7. CASE Notify(t)
  <2>1. Moves(t, "wait") /\ pc[t] = "notify"
    BY <1>0, <1>7, GotoMoves DEF Notify, Places
  <2>2. (\A u \in Threads \ {t} : ~InCharge(u)) /\ handleSigState # 0
    BY <1>1, <2>1 DEF Charged, Writing
  <2>3. sigdetail = Report(t)
    BY <1>0, <2>1 DEF SoloInv, WritingInv, WritingBy
  <2>4. Written'
    BY <1>0, <1>7, <2>1, <2>2, <2>3
       DEF Notify, Moves, Written, Faulted, Report, InCharge, Charged, Writing
  <2>5. WritingBy(t)' /\ ReturnedFor(t)' /\ OldRanFor(t)'
    BY <2>1 DEF Moves, WritingBy, ReturnedFor, OldRanFor, Leaving
  <2>6. handleSigState # 2
    BY <2>1, <2>2 DEF SoloInv, OldInv, Faulted, InCharge, Charged, Writing, Leaving
  <2> QED
    BY <1>0, <1>7, <2>1, <2>2, <2>4, <2>5, <2>6, Onward DEF Notify, Moves
<1>8. ASSUME NEW to, Moves(t, to), to \notin Writing, sig'[t] # None, pc[t] \in Charged \ Writing,
             \A u \in Threads \ {t} : sig'[u] = sig[u], UNCHANGED <<handleSigState, sigdetail>>
      PROVE  Written => Written'
  BY <1>8 DEF Moves, Written, Faulted, Report
<1>9. CASE Wait(t)
  <2>1. Moves(t, "waiting") /\ pc[t] = "wait"
    BY <1>0, <1>9, GotoMoves DEF Wait, CondWait, Places
  <2>2. (\A u \in Threads \ {t} : ~InCharge(u)) /\ handleSigState # 0
    BY <1>1, <2>1 DEF Charged
  <2>3. Woken' => Woken
    BY <1>0, <1>9, <2>1, StaysUnwoken DEF Wait, CondWait, Moves
  <2>4. Woken' => Written'
    BY <1>0, <1>8, <1>9, <2>1, <2>3
       DEF Wait, CondWait, SoloInv, WokenInv, Charged, Writing
  <2>5. WritingBy(t)' /\ ReturnedFor(t)' /\ OldRanFor(t)'
    BY <1>9, <2>1 DEF Wait, CondWait, Moves, WritingBy, ReturnedFor, OldRanFor, Leaving
  <2>6. handleSigState # 2
    BY <2>1, <2>2 DEF SoloInv, OldInv, Faulted, InCharge, Charged, Leaving
  <2> QED
    BY <1>0, <1>9, <2>1, <2>2, <2>4, <2>5, <2>6, Onward DEF Wait, CondWait, Moves
<1>10. CASE WakeUp(t, "old")
  <2>1. Moves(t, "old") /\ pc[t] = "waiting"
    BY <1>0, <1>10, GotoMoves DEF WakeUp, Places
  <2>2. (\A u \in Threads \ {t} : ~InCharge(u)) /\ handleSigState # 0
    BY <1>1, <2>1 DEF Charged
  <2>3. CallbackOver
    BY <1>0, <1>10, <2>1 DEF WakeUp, SoloInv, ReturnedInv, ReturnedFor
  <2>4. Written'
    BY <1>0, <1>8, <1>10, <2>1, <2>3
       DEF WakeUp, SoloInv, WokenInv, Woken, Charged, Writing
  <2>5. WritingBy(t)' /\ ReturnedFor(t)' /\ OldRanFor(t)'
    BY <1>10, <2>1, <2>3 DEF WakeUp, Moves, WritingBy, ReturnedFor, OldRanFor
  <2>6. handleSigState # 2
    BY <2>1, <2>2 DEF SoloInv, OldInv, Faulted, InCharge, Charged, Leaving
  <2> QED
    BY <1>0, <1>10, <2>1, <2>2, <2>4, <2>5, <2>6, Onward DEF WakeUp, Moves
<1>11. CASE ExecOldSigHandlers(t)
  <2>1. pc[t] = "old"
    BY <1>11 DEF ExecOldSigHandlers
  <2>2. (\A u \in Threads \ {t} : ~InCharge(u)) /\ handleSigState # 0
    BY <1>1, <2>1 DEF Charged, Leaving
  <2>3. CallbackOver
    BY <1>0, <2>1 DEF SoloInv, ReturnedInv, ReturnedFor, Leaving
  <2>4. sig[t] \in oldSigHandlers
    BY <1>0, <2>3 DEF BaseInv, SigInv, CleanupInv
  <2>5. sig[t] \in old_ran'
    BY <1>11, <2>4 DEF ExecOldSigHandlers
  <2>6. handleSigState # 2
    BY <2>1, <2>2 DEF SoloInv, OldInv, Faulted, InCharge, Charged, Leaving
  <2>7. PICK to \in {"old", "check", "finish"} :
          /\ Moves(t, to) /\ proc' \in {"alive", "killed"} /\ sig'[t] # None
          /\ \A u \in Threads \ {t} : sig'[u] = sig[u]
          /\ to = "finish" => UNCHANGED sig
    <3>1. CASE pc' = [pc EXCEPT ![t] = "finish"] /\ UNCHANGED <<sig, proc>>
      BY <1>0, <3>1 DEF Moves, TypeOK, Places
    <3>2. CASE proc' = "killed" /\ UNCHANGED <<scenario, sig, pc>>
      BY <1>0, <2>1, <3>2 DEF Moves, TypeOK
    <3>3. CASE Signal(t, Segv)
      BY <1>0, <2>1, <3>3, SignalsAssumption DEF Signal, Moves, TypeOK, Places
    <3> QED
      BY <1>11, <3>1, <3>2, <3>3 DEF ExecOldSigHandlers
  <2>8. UNCHANGED <<shared, callback, reported>>
    BY <1>11 DEF ExecOldSigHandlers
  <2>9. Written'
    BY <1>0, <1>8, <2>1, <2>3, <2>7, <2>8
       DEF SoloInv, WokenInv, Woken, Charged, Writing, Leaving
  <2>10. WritingBy(t)' /\ ReturnedFor(t)' /\ OldRanFor(t)'
    BY <2>3, <2>5, <2>7, <2>8 DEF Moves, WritingBy, ReturnedFor, OldRanFor
  <2> QED
    BY <1>0, <2>2, <2>6, <2>7, <2>8, <2>9, <2>10, Onward DEF Moves
<1>12. CASE Finish(t)
  <2>1. Moves(t, "exit") /\ pc[t] = "finish"
    BY <1>0, <1>12, GotoMoves DEF Finish, Places
  <2>2. (\A u \in Threads \ {t} : ~InCharge(u)) /\ handleSigState' = 2
    BY <1>1, <1>12, <2>1 DEF Finish, Charged, Leaving
  <2>3. CallbackOver /\ sig[t] \in old_ran
    BY <1>0, <2>1 DEF SoloInv, ReturnedInv, ReturnedFor, OldInv, OldRanFor, Leaving
  <2>4. Written
    BY <2>3 DEF SoloInv, WokenInv, Woken
  <2>5. Written'
    BY <1>0, <1>12, <2>1, <2>2, <2>4
       DEF Finish, Moves, Written, Faulted, Report, Writing
  <2>6. WritingBy(t)' /\ ReturnedFor(t)' /\ OldRanFor(t)'
    BY <1>12, <2>1, <2>3 DEF Finish, Moves, WritingBy, ReturnedFor, OldRanFor
  <2> QED
    BY <1>0, <1>12, <2>1, <2>2, <2>3, <2>5, <2>6, Onward DEF Finish, Moves
<1>13. CASE ExitAtLast(t)
  <2>1. UNCHANGED <<pc, sig, shared, callback, reported, old_ran>> /\ pc[t] = "exit"
    BY <1>13 DEF ExitAtLast, Exit
  <2>2. SoloInv'
    BY <2>1 DEF SoloInv, OneInv, InCharge, WritingInv, WritingBy, Report, WokenInv, Woken,
       Written, Faulted, ReturnedInv, ReturnedFor, OldInv, OldRanFor
  <2>3. CallbackOver /\ t \in Faulted /\ sig[t] \in old_ran
    BY <1>0, <2>1 DEF SoloInv, ReturnedInv, ReturnedFor, OldInv, OldRanFor, Leaving, Faulted
  <2>4. EndInv'
    BY <2>1, <2>3 DEF EndInv, ExitAfterCallback, OldHandlerCalled, Faulted, Report
  <2> QED
    BY <2>2, <2>4
<1> QED
  BY <1>3, <1>4, <1>5, <1>6, <1>7, <1>9, <1>10, <1>11, <1>12, <1>13 DEF HandlerStep

LEMMA SetupSolo ==
    ASSUME BaseInv, BaseInv', SoloInv, EndInv, InitStep
    PROVE  SoloInv' /\ EndInv'
<1> USE ThreadsAssumption DEF Threads
<1>1. \A t \in {Main, Cleanup} : pc'[t] = pc[t] \/ (sig[t] = None /\ pc'[t] \in {"run", "lock"})
  <2>1. CASE \E s \in Signals : InstallHandler(s) \/ InstallHandlerFails(s) \/ RecordOldHandler(s)
    BY <2>1 DEF InstallHandler, InstallHandlerFails, RecordOldHandler, Goto, BaseInv, TypeOK
  <2>2. CASE SetupCleanupThread \/ SetupCleanupThreadFails
    <3>1. pc[Main] = "setup" /\ proc = "alive"
      BY <2>2 DEF SetupCleanupThread, SetupCleanupThreadFails, SetupDone
    <3>2. pc[Cleanup] = "none" /\ sig[Main] = None
      BY <3>1 DEF BaseInv, CleanupInv, SigInv, HandlerPlaces, Charged, Writing, Leaving
    <3>3. sig[Cleanup] = None
      BY <3>2 DEF BaseInv, CleanupInv
    <3> QED
      BY <2>2, <3>2, <3>3 DEF SetupCleanupThread, SetupCleanupThreadFails, BaseInv, TypeOK
  <2> QED
    BY <2>1, <2>2 DEF InitStep
<1>2. /\ \A u \in Threads \ {Main, Cleanup} : pc'[u] = pc[u]
      /\ UNCHANGED <<sig, handleSigState, sigdetail, waiters, callback, reported, old_ran, proc>>
      /\ proc = "alive"
  BY DEF InitStep, InstallHandler, InstallHandlerFails, RecordOldHandler, SetupCleanupThread,
     SetupCleanupThreadFails, Goto, shared, history, setup, BaseInv, TypeOK
<1>3. PICK A \in SUBSET {Main, Cleanup} :
        /\ \A t \in A : sig[t] = None /\ pc'[t] \in {"run", "lock"}
        /\ \A t \in {Main, Cleanup} \ A : pc'[t] = pc[t]
  <2> WITNESS {t \in {Main, Cleanup} : pc'[t] # pc[t]} \in SUBSET {Main, Cleanup}
  <2> QED
    BY <1>1
<1>4. Woken' => Woken
  BY <1>1, <1>2 DEF Woken
<1>5. \A t \in A : ~InCharge(t) /\ ~InCharge(t)' /\ (sig[t] # None => sig'[t] # None)
  BY <1>2, <1>3 DEF InCharge
<1>6. A \in SUBSET Threads /\ \A u \in Threads \ A : pc'[u] = pc[u] /\ sig'[u] = sig[u]
  BY <1>2, <1>3
<1> QED
  BY <1>2, <1>4, <1>5, <1>6, Aside

LEMMA CrashSolo ==
    ASSUME BaseInv, BaseInv', SoloInv, EndInv, NEW t \in Threads, NEW s \in Signals,
           (t \in AppThreads /\ Crash(t, s)) \/ (t = Cleanup /\ CallbackCrashes(s))
    PROVE  SoloInv' /\ EndInv'
<1>1. /\ Signal(t, s) /\ proc = "alive" /\ pc[t] \in {"run", "setup", "callback"}
      /\ t = Cleanup => callback = "running"
      /\ UNCHANGED <<shared, callback, reported, old_ran>>
  BY ThreadsAssumption DEF Crash, CallbackCrashes, history, Threads
<1>2. /\ sig'[t] # None /\ pc'[t] \in {pc[t], "check"}
      /\ \A u \in Threads \ {t} : pc'[u] = pc[u] /\ sig'[u] = sig[u]
      /\ proc' \in {"alive", "killed"}
  BY <1>1, SignalsAssumption DEF Signal, BaseInv, TypeOK
<1>3. ~InCharge(t) /\ ~InCharge(t)'
  BY <1>1, <1>2 DEF InCharge, Charged, Writing, Leaving
<1>4. Woken' => Woken
  BY <1>1, <1>2 DEF Woken, Threads, shared
<1>5. /\ {t} \in SUBSET Threads
      /\ \A u \in {t} : ~InCharge(u) /\ ~InCharge(u)' /\ (sig[u] # None => sig'[u] # None)
  BY <1>2, <1>3
<1> QED
  BY <1>1, <1>2, <1>4, <1>5, Aside DEF shared

LEMMA CleanupSolo ==
    ASSUME BaseInv, BaseInv', SoloInv, EndInv, CleanupStep
    PROVE  SoloInv' /\ EndInv'
<1> USE DEF HandlerKeeps, shared, history, setup
<1>0. /\ TypeOK /\ Cleanup \in Threads /\ proc = "alive" /\ UNCHANGED sig
      /\ sig[Cleanup] = None
  <2>1. proc = "alive" /\ pc[Cleanup] \in CleanupPlaces \ {"waiting"} => sig[Cleanup] = None
    BY DEF BaseInv, SigInv, CleanupPlaces, HandlerPlaces, Charged, Writing, Leaving, Threads
  <2> QED
    BY <2>1 DEF CleanupStep, Lock, CleanupWait, CondWait, WakeUp, Unlock, CallbackToUI,
       CallbackFails, CallbackReturns, WakeHandler, Goto, CleanupPlaces, BaseInv, Threads
<1>1. ASSUME NEW from \in Places, NEW to \in Places, Goto(Cleanup, from, to),
             Woken' => Woken, CallbackOver \/ waiters \subseteq waiters',
             UNCHANGED <<handleSigState, sigdetail, callback, reported, old_ran, proc>>
      PROVE  SoloInv' /\ EndInv'
  <2>1. Moves(Cleanup, to)
    BY <1>0, <1>1, GotoMoves
  <2>2. ~InCharge(Cleanup) /\ ~InCharge(Cleanup)'
    BY <1>0 DEF InCharge
  <2>3. /\ {Cleanup} \in SUBSET Threads
        /\ \A u \in {Cleanup} : ~InCharge(u) /\ ~InCharge(u)' /\ (sig[u] # None => sig'[u] # None)
        /\ \A u \in Threads \ {Cleanup} : pc'[u] = pc[u] /\ sig'[u] = sig[u]
    BY <1>0, <2>1, <2>2 DEF Moves
  <2> QED
    BY <1>0, <1>1, <2>3, Aside
<1>2. CASE Lock
  <2>1. pc'[Cleanup] = "cleanup_wait"
    BY <1>0, <1>2 DEF Lock, Goto, TypeOK
  <2> QED
    BY <1>1, <1>2, <2>1 DEF Lock, Woken, Places
<1>3. CASE CleanupWait
  <2>1. pc'[Cleanup] = "waiting"
    BY <1>0, <1>3 DEF CleanupWait, CondWait, Goto, TypeOK
  <2> QED
    BY <1>1, <1>3, <2>1 DEF CleanupWait, CondWait, Woken, Places
<1>4. CASE sig[Cleanup] = None /\ WakeUp(Cleanup, "unlock")
  BY <1>1, <1>4 DEF WakeUp, Woken, Places, Goto
<1>5. CASE Unlock
  BY <1>1, <1>5 DEF Unlock, Woken, Places, Goto
<1>6. CASE WakeHandler
  <2>1. CallbackOver
    BY <1>6 DEF WakeHandler, Goto, BaseInv, CleanupInv
  <2> QED
    BY <1>1, <1>6, <2>1 DEF WakeHandler, Woken, Places
<1>7. CASE CallbackToUI
  <2>1. /\ UNCHANGED <<pc, sig, shared, proc, old_ran>> /\ pc[Cleanup] = "callback"
        /\ callback = "no" /\ callback' = "running" /\ reported' = sigdetail
    BY <1>7 DEF CallbackToUI
  <2>2. Written
    BY <2>1 DEF SoloInv, WokenInv, Woken
  <2>3. OneInv' /\ WritingInv' /\ OldInv'
    BY <2>1 DEF SoloInv, OneInv, InCharge, WritingInv, WritingBy, Report, OldInv, OldRanFor, Faulted
  <2>4. WokenInv'
    BY <2>1, <2>2 DEF WokenInv, Written, Faulted, Report
  <2>5. ReturnedInv'
    BY <2>1 DEF SoloInv, ReturnedInv, ReturnedFor
  <2>6. EndInv'
    BY <1>0, <2>1, <2>2 DEF EndInv, ExitAfterCallback, OldHandlerCalled, Exited, Written, Faulted, Report
  <2> QED
    BY <2>3, <2>4, <2>5, <2>6 DEF SoloInv
<1>8. CASE CallbackReturns \/ CallbackFails
  <2>1. /\ Moves(Cleanup, "wake_handler") /\ pc[Cleanup] = "callback"
        /\ CallbackOver' /\ (callback' = "returned" => callback = "running")
        /\ UNCHANGED <<shared, reported, proc, old_ran>>
    BY <1>0, <1>8, GotoMoves DEF CallbackReturns, CallbackFails, Places
  <2>2. Written
    BY <2>1 DEF SoloInv, WokenInv, Woken
  <2>3. OneInv' /\ WritingInv' /\ OldInv'
    BY <1>0, <2>1 DEF SoloInv, OneInv, InCharge, WritingInv, WritingBy, Report, OldInv,
       OldRanFor, Faulted, Moves
  <2>4. WokenInv'
    BY <1>0, <2>1, <2>2 DEF WokenInv, Written, Faulted, Report, Moves
  <2>5. ReturnedInv'
    BY <2>1 DEF ReturnedInv, ReturnedFor
  <2>6. EndInv'
    BY <1>0, <2>1 DEF EndInv, ExitAfterCallback, OldHandlerCalled, Exited, Faulted, Report
  <2> QED
    BY <2>3, <2>4, <2>5, <2>6 DEF SoloInv
<1> QED
  BY <1>2, <1>3, <1>4, <1>5, <1>6, <1>7, <1>8 DEF CleanupStep

LEMMA SoloStep ==
    ASSUME BaseInv, ~disturbed => SoloInv /\ EndInv, [Next]_vars, ~disturbed'
    PROVE  SoloInv' /\ EndInv'
<1>0. BaseInv' /\ Cleanup \in Threads /\ AppThreads \subseteq Threads
  BY BaseStep DEF Threads
<1>1. CASE UNCHANGED vars
  BY <1>1 DEF vars, shared, setup, history, SoloInv, OneInv, InCharge, WritingInv, WritingBy,
     Report, WokenInv, Woken, Written, Faulted, ReturnedInv, ReturnedFor, OldInv, OldRanFor,
     EndInv, ExitAfterCallback, OldHandlerCalled, Exited
<1>2. CASE InitStep
  <2>1. UNCHANGED disturbed
    BY <1>2 DEF InitStep, InstallHandler, InstallHandlerFails, RecordOldHandler, SetupCleanupThread,
       SetupCleanupThreadFails, history
  <2> QED
    BY <1>0, <1>2, <2>1, SetupSolo
<1>3. CASE CleanupStep
  <2>1. UNCHANGED disturbed
    BY <1>3 DEF CleanupStep, Lock, CleanupWait, CondWait, WakeUp, Unlock, CallbackToUI,
       CallbackFails, CallbackReturns, WakeHandler, history
  <2> QED
    BY <1>0, <1>3, <2>1, CleanupSolo
<1>4. ASSUME NEW t \in Threads, HandlerStep(t) \/ PauseReturns(t) PROVE SoloInv' /\ EndInv'
  <2>1. ~disturbed
    <3>1. CASE Claim(t)
      BY <3>1 DEF Claim
    <3>2. CASE ~Claim(t)
      <4>1. UNCHANGED disturbed
        BY <1>4, <3>2 DEF HandlerStep, PauseReturns, CheckInProgress, CheckFinished,
           AssembleCrashInfo, Notify, Wait, CondWait, WakeUp, ExecOldSigHandlers, Finish,
           ExitAtLast, Exit, history
      <4> QED
        BY <4>1
    <3> QED
      BY <3>1, <3>2
  <2> QED
    BY <1>0, <1>4, <2>1, HandlerSolo
<1>5. ASSUME NEW t \in Threads, SpuriousWakeUp(t) PROVE FALSE
  BY <1>5 DEF SpuriousWakeUp
<1>6. ASSUME NEW t \in Threads, NEW s \in Signals,
             (t \in AppThreads /\ Crash(t, s)) \/ (t = Cleanup /\ CallbackCrashes(s))
      PROVE  SoloInv' /\ EndInv'
  <2>1. UNCHANGED disturbed
    BY <1>6 DEF Crash, CallbackCrashes, history
  <2> QED
    BY <1>0, <1>6, <2>1, CrashSolo
<1>7. ASSUME NEW t \in AppThreads, NEW s \in Signals, Crash(t, s) PROVE SoloInv' /\ EndInv'
  <2>1. t \in Threads /\ ((t \in AppThreads /\ Crash(t, s)) \/ (t = Cleanup /\ CallbackCrashes(s)))
    BY <1>0, <1>7
  <2> QED
    BY <1>6, <2>1
<1>8. ASSUME NEW s \in Signals, CallbackCrashes(s) PROVE SoloInv' /\ EndInv'
  BY <1>0, <1>6, <1>8
<1> QED
  BY <1>1, <1>2, <1>3, <1>4, <1>5, <1>7, <1>8 DEF Next

-----------------------------------------------------------------------------
(* The theorems.                                                           *)

\* The inductive invariant: where each thread may stand, in any case, and, as long
\* as nothing is disturbed, who is in charge, what the one report holds, who has
\* been woken and what has been called.
THEOREM Invariant == Spec => []IInv
<1>1. IInv /\ [Next]_vars => IInv'
  BY BaseStep, SoloStep DEF IInv
<1> QED
  BY InitInv, <1>1, PTL DEF Spec

\* Every variable keeps its type, and every thread the places of its code.
THEOREM TypeCorrect == Spec => []TypeOK
<1>1. IInv => TypeOK
  BY DEF IInv, BaseInv
<1> QED
  BY Invariant, <1>1, PTL

\* For any number of threads and signals: what the application is given is one
\* whole report of a thread that faulted, unless sigHandler was disturbed.
THEOREM WholeReport == Spec => []ReportIsWhole
<1>1. IInv => ReportIsWhole
  BY DEF IInv, EndInv, ReportIsWhole
<1> QED
  BY Invariant, <1>1, PTL

\* ... the process exits after the callback, unless sigHandler was disturbed.
THEOREM CallbackFirst == Spec => []SoloExitAfterCallback
<1>1. IInv => SoloExitAfterCallback
  BY DEF IInv, EndInv, SoloExitAfterCallback
<1> QED
  BY Invariant, <1>1, PTL

\* ... and the handler that was there before has been called by then.
THEOREM OldHandlerFirst == Spec => []SoloOldHandlerCalled
<1>1. IInv => SoloOldHandlerCalled
  BY DEF IInv, EndInv, SoloOldHandlerCalled
<1> QED
  BY Invariant, <1>1, PTL
=============================================================================
