-------------------------- MODULE CrashCatcherProofs --------------------------
(***************************************************************************)
(* Theorems about CrashCatcher, for any number of threads and activities:  *)
(* the stack of activities is true, through crashes and the set-up.        *)
(***************************************************************************)
EXTENDS CrashCatcher, ListTheorems, FiniteSetTheorems

\* Before init() has registered for the activities it knows of none: registration is
\* for good.
RegisteredInv == ~Registered => known = {}

\* A thread other than the native catcher's is told of one crash, its last.
ToldInv == \A t \in AppThreads : told[t] = <<>> \/ (at[t] = "dead" /\ Len(told[t]) = 1)

\* The stack has the known activities and no other, each once.
StackInv ==
    /\ Distinct(actStack) /\ ToSet(actStack) = known
    /\ IsFiniteSet(known) /\ Cardinality(known) = Len(actStack)

IInv == TypeOK /\ RegisteredInv /\ ToldInv /\ StackInv

LEMMA InitInv == Init => IInv
<1> SUFFICES ASSUME Init PROVE IInv
  OBVIOUS
<1>1. TypeOK
  <2>1. told \in [Threads -> Seq({NATIVE_CRASH, UNCAUGHT_JVM_EXCEPTION})]
    BY DEF Init
  <2>2. \A t \in AppThreads : Len(told[t]) <= 1
    BY DEF Init, Threads
  <2>3. actStack \in Seq(Activities)
    BY DEF Init
  <2> QED
    BY <2>1, <2>2, <2>3 DEF Init, TypeOK
<1>2. StackInv
  BY FS_EmptySet DEF Init, StackInv, Distinct, ToSet
<1> QED
  BY <1>1, <1>2 DEF Init, IInv, RegisteredInv, ToldInv, Threads

-----------------------------------------------------------------------------
\* Steps that have nothing to do with the activities: a thread goes on.
LEMMA OtherThreads ==
    ASSUME IInv, UNCHANGED <<app, forceQuitAfterCrashHandled, actStack, living, known>>,
           TypeOK', ToldInv'
    PROVE  IInv'
BY DEF IInv, RegisteredInv, Registered, StackInv, Distinct

\* The steps of init() and setCallback().
LEMMA SetUpInv ==
    ASSUME IInv, InitFields \/ InitNative \/ InitHandler \/ SetCallback
    PROVE  IInv'
<1> USE DEF config, screens
<1>1. TypeOK'
  BY DEF IInv, TypeOK, InitFields, InitNative, InitHandler, SetCallback
<1>2. RegisteredInv'
  BY DEF IInv, RegisteredInv, Registered, InitFields, InitNative, InitHandler, SetCallback
<1>3. ToldInv'
  <2>1. told' = told /\ \A t \in AppThreads : at'[t] = at[t]
    BY MainAssumption DEF IInv, TypeOK, Threads, InitFields, InitNative, InitHandler, SetCallback
  <2> QED
    BY <2>1 DEF IInv, ToldInv
<1>4. UNCHANGED <<actStack, known>>
  BY DEF InitFields, InitNative, InitHandler, SetCallback
<1> QED
  BY <1>1, <1>2, <1>3, <1>4 DEF IInv, StackInv, Distinct

\* An activity that is new is not in the stack.
LEMMA CreatedInv ==
    ASSUME IInv, NEW a \in Activities, OnActivityCreated(a)
    PROVE  IInv'
<1> USE DEF OnActivityCreated, config
<1>1. a \notin known /\ actStack \in Seq(Activities)
  BY DEF IInv, TypeOK
<1>2. CASE Registered
  <2>1. /\ actStack' \in Seq(Activities) /\ Distinct(actStack')
        /\ ToSet(actStack') = known' /\ Len(actStack') = Len(actStack) + 1
    <3>1. actStack' = Append(actStack, a) /\ known' = known \cup {a}
      BY <1>2
    <3>2. Distinct(actStack) /\ ToSet(actStack) = known
      BY DEF IInv, StackInv
    <3> QED
      BY <1>1, <3>1, <3>2, Appended
  <2>2. IsFiniteSet(known') /\ Cardinality(known') = Cardinality(known) + 1
    BY <1>1, <1>2, FS_AddElement DEF IInv, StackInv
  <2> QED
    BY <1>2, <2>1, <2>2
       DEF IInv, TypeOK, RegisteredInv, Registered, ToldInv, StackInv
<1>3. CASE ~Registered
  BY <1>3 DEF IInv, TypeOK, RegisteredInv, Registered, ToldInv, StackInv, Distinct
<1> QED
  BY <1>2, <1>3

\* One that goes may be anywhere in the stack, or, created before init(), not in it.
LEMMA DestroyedInv ==
    ASSUME IInv, NEW a \in Activities, OnActivityDestroyed(a)
    PROVE  IInv'
<1> USE DEF OnActivityDestroyed, config
<1>1. actStack \in Seq(Activities) /\ Distinct(actStack) /\ ToSet(actStack) = known
  BY DEF IInv, TypeOK, StackInv
<1>2. actStack' \in Seq(Activities) /\ StackInv'
  <2>1. CASE Registered /\ a \in known
    <3>1. /\ actStack' \in Seq(Activities) /\ Distinct(actStack')
          /\ ToSet(actStack') = known' /\ Len(actStack') = Len(actStack) - 1
      BY <1>1, <2>1, Removed DEF Without
    <3>2. IsFiniteSet(known') /\ Cardinality(known') = Cardinality(known) - 1
      BY <2>1, FS_RemoveElement DEF IInv, StackInv
    <3> QED
      BY <3>1, <3>2 DEF IInv, StackInv
  <2>2. CASE Registered /\ a \notin known
    <3>1. actStack' = actStack /\ known' = known
      BY <1>1, <2>2, NotRemoved DEF Without
    <3> QED
      BY <1>1, <3>1 DEF IInv, StackInv, Distinct
  <2>3. CASE ~Registered
    <3>1. actStack' = actStack /\ known' = known
      BY <2>3 DEF IInv, RegisteredInv
    <3> QED
      BY <1>1, <3>1 DEF IInv, StackInv, Distinct
  <2> QED
    BY <2>1, <2>2, <2>3
<1>3. /\ UNCHANGED <<config, proc, told>> /\ living' = living \ {a} /\ known' = known \ {a}
      /\ at[Main] = "run"
      /\ \/ at' = at
         \/ at' = [at EXCEPT ![Main] = "thrown"] \/ at' = [at EXCEPT ![Main] = "run"]
  BY DEF Running
<1>4. TypeOK'
  BY <1>2, <1>3 DEF IInv, TypeOK
<1>5. RegisteredInv'
  BY <1>3 DEF IInv, RegisteredInv, Registered
<1>6. ToldInv'
  BY <1>3, MainAssumption DEF IInv, TypeOK, ToldInv, Threads
<1> QED
  BY <1>2, <1>4, <1>5, <1>6 DEF IInv

\* A thread crashes, and is dispatched to the handler or to the native catcher.
LEMMA CrashInv ==
    ASSUME IInv, NEW t \in Threads, Throw(t) \/ Signal(t) \/ DispatchUncaught(t)
    PROVE  IInv'
<1> USE DEF Throw, Signal, DispatchUncaught, Goto, Running, config, screens
<1>1. TypeOK'
  BY DEF IInv, TypeOK
<1>2. ToldInv'
  BY <1>1, MainAssumption DEF IInv, TypeOK, ToldInv, Threads
<1> QED
  BY <1>1, <1>2, OtherThreads

\* It is told of, once.
LEMMA TellInv ==
    ASSUME IInv, NEW t \in Threads, CallbackToUI(t)
    PROVE  IInv'
<1> USE DEF CallbackToUI, config, screens
<1>1. Tell(t) \in Seq({NATIVE_CRASH, UNCAUGHT_JVM_EXCEPTION})
  BY DEF IInv, TypeOK, Tell, Type
<1>2. t # Cleanup => Len(Tell(t)) <= 1 /\ (told[t] = <<>>)
  BY DEF IInv, ToldInv, Tell, Threads
<1>3. /\ AfterClear(t) \in {"dead", "thrown", "detached"}
      /\ AfterQuiet(t) \in {"dead", "detached"}
      /\ t # Cleanup => AfterClear(t) = "dead" /\ AfterQuiet(t) = "dead"
  BY DEF AfterClear, AfterQuiet
<1>4. TypeOK'
  BY <1>1, <1>2, <1>3, MainAssumption DEF IInv, TypeOK, Threads
<1>5. ToldInv'
  <2> SUFFICES ASSUME NEW u \in AppThreads
               PROVE  told'[u] = <<>> \/ (at'[u] = "dead" /\ Len(told'[u]) = 1)
    BY DEF ToldInv
  <2>1. CASE u = t
    <3>1. at'[u] = "dead" /\ told'[u] = Tell(t)
      BY <2>1, <1>3, MainAssumption DEF IInv, TypeOK, Threads
    <3>2. Tell(t) = <<>> \/ Len(Tell(t)) = 1
      BY <2>1, <1>2, MainAssumption DEF Tell
    <3> QED
      BY <3>1, <3>2
  <2>2. CASE u # t
    BY <2>2 DEF IInv, TypeOK, ToldInv, Threads
  <2> QED
    BY <2>1, <2>2
<1> QED
  BY <1>4, <1>5, OtherThreads

LEMMA NextInv == IInv /\ [Next]_vars => IInv'
<1> SUFFICES ASSUME IInv, [Next]_vars PROVE IInv'
  OBVIOUS
<1>1. CASE InitFields \/ InitNative \/ InitHandler \/ SetCallback
  BY <1>1, SetUpInv
<1>2. ASSUME NEW a \in Activities, OnActivityCreated(a) PROVE IInv'
  BY <1>2, CreatedInv
<1>3. ASSUME NEW a \in Activities, OnActivityDestroyed(a) PROVE IInv'
  BY <1>3, DestroyedInv
<1>4. ASSUME NEW t \in Threads, Throw(t) \/ Signal(t) \/ DispatchUncaught(t) PROVE IInv'
  BY <1>4, CrashInv
<1>5. ASSUME NEW t \in Threads, CallbackToUI(t) PROVE IInv'
  BY <1>5, TellInv
<1>6. CASE WakeHandler
  <2>1. TypeOK' /\ ToldInv'
    BY <1>6 DEF WakeHandler, IInv, TypeOK, ToldInv, config, screens
  <2> QED
    BY <1>6, <2>1, OtherThreads DEF WakeHandler, config, screens
<1>7. CASE UNCHANGED vars
  <2>1. TypeOK' /\ ToldInv'
    BY <1>7 DEF vars, IInv, TypeOK, ToldInv, config, screens
  <2> QED
    BY <1>7, <2>1, OtherThreads DEF vars, config, screens
<1> QED
  BY <1>1, <1>2, <1>3, <1>4, <1>5, <1>6, <1>7 DEF Next, CrashStep

-----------------------------------------------------------------------------
\* The inductive invariant holds in every state.
THEOREM Invariant == Spec => []IInv
BY InitInv, NextInv, PTL DEF Spec

\* Every variable stays in its range, and only the native catcher's thread is told
\* of more than one crash.
THEOREM TypeCorrect == Spec => []TypeOK
<1>1. IInv => TypeOK
  BY DEF IInv
<1> QED
  BY <1>1, Invariant, PTL

\* The stack lists every activity created since init() and not yet destroyed, each
\* once, whatever order they go in.
THEOREM StackTrue == Spec => []StackIsLive
<1>1. IInv => StackIsLive
  BY DEF IInv, StackInv, StackIsLive
<1> QED
  BY <1>1, Invariant, PTL
=============================================================================
