---------------------------- MODULE GcProbeProofs ----------------------------
(***************************************************************************)
(* Theorems about GcProbe, for any number of listeners, calls and          *)
(* collections: the chain of probes does not break, and does not fork      *)
(* unless a listener is added beside a probe that was let go.              *)
(***************************************************************************)
EXTENDS GcProbe, ListTheorems

\* A probe that the class knows of is one that there is.
ChainInv == probe => Probes >= 1

\* The listeners that the finalizer has called so far.
Called == {gcListeners[j] : j \in 1 .. next - 1}

\* Is the loop under way to come to a listener yet?
Due(l) == IF next > 0 /\ l \notin Called THEN 1 ELSE 0

\* What a listener has heard, and will hear from the probe in the queue or from the
\* loop under way, is no more than the collections there were.
HeardInv ==
    /\ Probes <= 1
    /\ \A l \in Listeners : heard[l] + queue + Due(l) <= gcs

IInv ==
    /\ TypeOK
    /\ Distinct(gcListeners)
    /\ ChainInv
    /\ ~readded => HeardInv

-----------------------------------------------------------------------------
LEMMA InitInv == Init => IInv
<1> SUFFICES ASSUME Init PROVE IInv
  OBVIOUS
<1>1. TypeOK
  <2>1. 0 \in 0 .. MaxCalls /\ 0 \in 0 .. MaxGcs
    BY GcAssumption
  <2>2. gcListeners \in Seq(Listeners) /\ Len(gcListeners) = 0
    BY DEF Init
  <2>3. heard \in [Listeners -> Nat]
    BY DEF Init
  <2>4. probe \in BOOLEAN /\ readded \in BOOLEAN
    BY DEF Init
  <2> QED
    BY <2>1, <2>2, <2>3, <2>4 DEF Init, TypeOK
<1>2. Distinct(gcListeners)
  BY DEF Init, Distinct
<1>3. ~probe
  BY DEF Init
<1>4. HeardInv
  BY DEF Init, HeardInv, Probes, Due
<1> QED
  BY <1>1, <1>2, <1>3, <1>4 DEF IInv, ChainInv

\* A listener comes: the list grows, and perhaps a probe is made.
LEMMA AddInv ==
    ASSUME IInv, NEW l \in Listeners, AddGcListener(l)
    PROVE  IInv'
<1> USE GcAssumption DEF AddGcListener, Call, Unlocked, NeedsProbe
<1>1. /\ gcListeners' \in Seq(Listeners) /\ Distinct(gcListeners')
      /\ next' = 0 /\ calls' \in 0 .. MaxCalls
  BY Appended DEF IInv, TypeOK
<1>2. /\ fresh \in Nat /\ queue \in Nat /\ next = 0
      /\ UNCHANGED <<queue, next, gcs, heard, unheard>>
  BY DEF IInv, TypeOK
<1>3. probe \in BOOLEAN /\ probe' = TRUE
  BY DEF IInv, TypeOK
<1>4. readded \in BOOLEAN /\ readded' \in BOOLEAN
      /\ (~readded' => ~readded /\ (~probe => ~(Probes > 0)))
  BY DEF IInv, TypeOK
<1>5. fresh' = IF probe THEN fresh ELSE fresh + 1
  BY <1>3
<1>6. TypeOK'
  BY <1>1, <1>2, <1>3, <1>4, <1>5 DEF IInv, TypeOK
<1>7. ChainInv'
  <2>1. CASE probe
    BY <2>1, <1>2, <1>5 DEF IInv, ChainInv, Probes
  <2>2. CASE ~probe
    BY <2>2, <1>2, <1>5 DEF ChainInv, Probes
  <2> QED
    BY <2>1, <2>2
<1>8. ASSUME ~readded' PROVE HeardInv'
  <2>1. ~readded /\ HeardInv
    BY <1>4, <1>8 DEF IInv
  <2>2. Probes' <= 1
    <3>1. CASE probe
      BY <2>1, <3>1, <1>2, <1>5 DEF HeardInv, Probes
    <3>2. CASE ~probe
      BY <3>2, <1>2, <1>4, <1>5, <1>8 DEF Probes
    <3> QED
      BY <3>1, <3>2
  <2>3. \A k \in Listeners : Due(k) = 0 /\ Due(k)' = 0
    BY <1>2 DEF Due
  <2> QED
    BY <2>1, <2>2, <2>3, <1>2 DEF HeardInv
<1> QED
  BY <1>1, <1>6, <1>7, <1>8 DEF IInv

\* Listeners go: no probe does.
LEMMA RemovalInv ==
    ASSUME IInv, Call, gcListeners' \in Seq(Listeners), Distinct(gcListeners'),
           gcListeners' # <<>> => gcListeners # <<>>, probe' = (probe /\ gcListeners' # <<>>),
           unheard' \subseteq unheard, UNCHANGED <<fresh, queue, next, gcs, heard, readded>>
    PROVE  IInv'
<1> USE GcAssumption DEF Call, Unlocked
<1>1. TypeOK'
  BY DEF IInv, TypeOK
<1>2. ChainInv'
  BY DEF IInv, TypeOK, ChainInv, Probes
<1>3. ASSUME ~readded' PROVE HeardInv'
  <2>1. \A k \in Listeners : Due(k) = 0 /\ Due(k)' = 0
    BY DEF Due
  <2> QED
    BY <1>3, <2>1 DEF IInv, TypeOK, HeardInv, Probes
<1> QED
  BY <1>1, <1>2, <1>3 DEF IInv

\* The list without one of its members, or as it was.
LEMMA RemovedFrom ==
    ASSUME IInv, NEW l \in Listeners
    PROVE  /\ RemoveFirst(gcListeners, l) \in Seq(Listeners)
           /\ Distinct(RemoveFirst(gcListeners, l))
           /\ RemoveFirst(gcListeners, l) # <<>> => gcListeners # <<>>
<1>1. gcListeners \in Seq(Listeners) /\ Distinct(gcListeners)
  BY DEF IInv, TypeOK
<1>2. CASE l \in ToSet(gcListeners)
  <2>1. gcListeners # <<>>
    BY <1>2 DEF ToSet
  <2> QED
    BY <1>1, <1>2, <2>1, Removed
<1>3. CASE l \notin ToSet(gcListeners)
  BY <1>1, <1>3, NotRemoved
<1> QED
  BY <1>2, <1>3

\* A collection: whatever it puts in the queue, it counts once.
LEMMA GcInv ==
    ASSUME IInv, Gc
    PROVE  IInv'
<1> USE GcAssumption
<1>1. PICK found \in 0 .. fresh :
        /\ queue' = queue + found /\ fresh' = fresh - found
        /\ unheard' = IF found > 0 \/ Probes = 0 THEN unheard \cup ToSet(gcListeners) ELSE unheard
  BY DEF Gc
<1>2. ToSet(gcListeners) \subseteq Listeners
  BY DEF IInv, TypeOK, ToSet
<1>3. /\ gcs < MaxGcs /\ gcs' = gcs + 1
      /\ UNCHANGED <<probe, gcListeners, next, calls, heard, readded>>
  BY DEF Gc
<1>4. TypeOK'
  <2>1. fresh' \in Nat /\ queue' \in Nat /\ gcs' \in 0 .. MaxGcs /\ unheard' \subseteq Listeners
    BY <1>1, <1>2, <1>3 DEF IInv, TypeOK
  <2> QED
    BY <1>3, <2>1 DEF IInv, TypeOK, Unlocked
<1>5. Probes' = Probes /\ (Probes <= 1 => found <= 1)
  BY <1>1, <1>3 DEF IInv, TypeOK, Probes
<1>6. ChainInv'
  BY <1>3, <1>5 DEF IInv, ChainInv
<1>7. ASSUME ~readded' PROVE HeardInv'
  <2>1. Probes <= 1 /\ found \in 0 .. 1
    BY <1>1, <1>3, <1>5, <1>7 DEF IInv, HeardInv
  <2> SUFFICES ASSUME NEW k \in Listeners PROVE heard'[k] + queue' + Due(k)' <= gcs'
    BY <1>5, <2>1 DEF HeardInv
  <2>2. Due(k)' = Due(k) /\ Due(k) \in {0, 1}
    BY <1>3 DEF Due, Called
  <2>3. heard[k] \in Nat /\ queue \in Nat /\ gcs \in Nat
    BY DEF IInv, TypeOK
  <2>4. heard[k] + queue + Due(k) <= gcs
    BY <1>3, <1>7 DEF IInv, HeardInv
  <2> QED
    BY <1>1, <1>3, <2>1, <2>2, <2>3, <2>4
<1> QED
  BY <1>3, <1>4, <1>6, <1>7 DEF IInv

\* The finalizer starts: nobody has been called.
LEMMA FinalizeInv ==
    ASSUME IInv, Finalize
    PROVE  IInv'
<1> USE DEF Finalize, Unlocked, history
<1>1. TypeOK'
  BY DEF IInv, TypeOK
<1>2. Probes' = Probes
  BY DEF IInv, TypeOK, Probes
<1>3. ASSUME ~readded' PROVE HeardInv'
  <2>1. \A k \in Listeners : Due(k) = 0 /\ Due(k)' = 1
    BY DEF Due, Called
  <2> QED
    BY <1>2, <1>3, <2>1 DEF IInv, TypeOK, HeardInv
<1> QED
  BY <1>1, <1>2, <1>3 DEF IInv, ChainInv

\* The listener that is called has not been before, since nobody is in the list twice.
LEMMA CallInv ==
    ASSUME IInv, CallListener
    PROVE  IInv'
<1> DEFINE l == gcListeners[next]
<1>1. next \in 1 .. Len(gcListeners) /\ l \in Listeners
  BY DEF IInv, TypeOK, CallListener
<1>2. /\ heard' = [heard EXCEPT ![l] = @ + 1] /\ unheard' \subseteq unheard
      /\ next' = next + 1
      /\ UNCHANGED <<probe, gcListeners, fresh, queue, calls, gcs, readded>>
  BY DEF CallListener
<1>3. TypeOK'
  BY <1>1, <1>2 DEF IInv, TypeOK, Unlocked
<1>4. Probes' = Probes
  BY <1>1, <1>2 DEF IInv, TypeOK, Probes
<1>5. l \notin Called /\ Called' = Called \cup {l}
  <2>1. 1 .. next' - 1 = (1 .. next - 1) \cup {next}
    BY <1>1, <1>2
  <2> QED
    BY <1>1, <1>2, <2>1 DEF IInv, Distinct, Called
<1>6. ASSUME ~readded' PROVE HeardInv'
  <2> SUFFICES ASSUME NEW k \in Listeners PROVE heard'[k] + queue' + Due(k)' <= gcs'
    BY <1>2, <1>4, <1>6 DEF IInv, HeardInv
  <2>1. heard[k] + queue + Due(k) <= gcs
    BY <1>2, <1>6 DEF IInv, HeardInv
  <2>2. heard[k] \in Nat /\ queue \in Nat /\ gcs \in Nat
    BY DEF IInv, TypeOK
  <2>3. CASE k = l
    <3>1. Due(k) = 1 /\ Due(k)' = 0 /\ heard'[k] = heard[k] + 1
      BY <2>3, <1>1, <1>2, <1>5 DEF Due, IInv, TypeOK
    <3> QED
      BY <1>2, <2>1, <2>2, <3>1
  <2>4. CASE k # l
    <3>1. Due(k)' = Due(k) /\ Due(k) \in {0, 1} /\ heard'[k] = heard[k]
      BY <2>4, <1>1, <1>2, <1>5 DEF Due, IInv, TypeOK
    <3> QED
      BY <1>2, <2>1, <2>2, <3>1
  <2> QED
    BY <2>3, <2>4
<1> QED
  BY <1>2, <1>3, <1>4, <1>6 DEF IInv, ChainInv

\* However the loop ends, the next probe takes the place of the one that is gone.
LEMMA LoopEndsInv ==
    ASSUME IInv, next > 0, ReplaceProbe,
           gcListeners' \in Seq(Listeners), Distinct(gcListeners'), unheard' \subseteq unheard,
           UNCHANGED <<queue, calls, gcs, heard, readded>>
    PROVE  IInv'
<1> USE DEF ReplaceProbe
<1>1. TypeOK'
  <2>1. probe' \in BOOLEAN /\ readded' \in BOOLEAN /\ probe'
    BY DEF IInv, TypeOK
  <2>2. fresh' \in Nat /\ next' \in 0 .. Len(gcListeners') + 1
    BY DEF IInv, TypeOK
  <2> QED
    BY <2>1, <2>2 DEF IInv, TypeOK
<1>2. Probes' = Probes
  BY DEF IInv, TypeOK, Probes
<1>3. Probes >= 1
  BY DEF IInv, TypeOK, Probes
<1>4. ASSUME ~readded' PROVE HeardInv'
  <2>1. \A k \in Listeners : Due(k)' = 0 /\ Due(k) \in {0, 1}
    BY DEF Due
  <2> QED
    <3>1. HeardInv
      BY <1>4 DEF IInv
    <3>2. \A k \in Listeners : heard[k] \in Nat /\ queue \in Nat /\ gcs \in Nat
      BY DEF IInv, TypeOK
    <3> QED
      BY <1>2, <2>1, <3>1, <3>2 DEF HeardInv
<1> QED
  BY <1>1, <1>2, <1>3, <1>4 DEF IInv, ChainInv

LEMMA NextInv == IInv /\ [Next]_vars => IInv'
<1> SUFFICES ASSUME IInv, [Next]_vars PROVE IInv'
  OBVIOUS
<1>1. ASSUME NEW l \in Listeners, AddGcListener(l) PROVE IInv'
  BY <1>1, AddInv
<1>2. ASSUME NEW l \in Listeners, RemoveGcListener(l) PROVE IInv'
  BY <1>2, RemovedFrom, RemovalInv DEF RemoveGcListener
<1>3. CASE RemoveAllGcListeners
  <2>1. /\ gcListeners' = <<>> /\ Distinct(gcListeners')
        /\ unheard' \subseteq unheard /\ probe' = FALSE
    BY <1>3 DEF RemoveAllGcListeners, Distinct
  <2>2. gcListeners' \in Seq(Listeners)
    BY <2>1
  <2>3. probe' = (probe /\ gcListeners' # <<>>)
    BY <2>1
  <2> QED
    BY <1>3, <2>1, <2>2, <2>3, RemovalInv DEF RemoveAllGcListeners
<1>4. CASE Gc
  BY <1>4, GcInv
<1>5. CASE Finalize
  BY <1>5, FinalizeInv
<1>6. CASE CallListener
  BY <1>6, CallInv
<1>7. CASE FinalizeDone
  <2>1. next > 0
    BY <1>7 DEF FinalizeDone, IInv, TypeOK
  <2> QED
    BY <1>7, <2>1, LoopEndsInv DEF FinalizeDone, IInv, TypeOK, history
<1>8. CASE ListenerThrows
  BY <1>8, LoopEndsInv DEF ListenerThrows, IInv, TypeOK
<1>9. CASE ListenerRemovesItself
  <2>1. next - 1 \in 1 .. Len(gcListeners) /\ gcListeners[next - 1] \in Listeners
    BY <1>9 DEF ListenerRemovesItself, IInv, TypeOK
  <2>2. gcListeners' \in Seq(Listeners) /\ Distinct(gcListeners')
    BY <1>9, <2>1, RemovedFrom DEF ListenerRemovesItself
  <2> QED
    BY <1>9, <2>1, <2>2, LoopEndsInv DEF ListenerRemovesItself, IInv, TypeOK
<1>10. CASE UNCHANGED vars
  BY <1>10 DEF vars, history, IInv, TypeOK, ChainInv, HeardInv, Probes, Due, Called, Unlocked, Distinct
<1> QED
  BY <1>1, <1>2, <1>3, <1>4, <1>5, <1>6, <1>7, <1>8, <1>9, <1>10 DEF Next, FinalizerStep

-----------------------------------------------------------------------------
\* The inductive invariant holds in every state: what is said of each probe, of the
\* loop under way and of what was heard.
THEOREM Invariant == Spec => []IInv
BY InitInv, NextInv, PTL DEF Spec

\* Every variable stays in its range; between calls the reference is there whenever a
\* listener is.
THEOREM TypeCorrect == Spec => []TypeOK
<1>1. IInv => TypeOK
  BY DEF IInv
<1> QED
  BY <1>1, Invariant, PTL

\* As long as somebody listens there is a probe to be finalized, whatever a listener
\* does and however removals and collections interleave.
THEOREM ChainKept == Spec => []ProbeKept
<1>1. IInv => ProbeKept
  <2> SUFFICES ASSUME IInv, gcListeners # <<>> PROVE Probes >= 1
    BY DEF ProbeKept
  <2>1. CASE next = 0
    BY <2>1 DEF IInv, TypeOK, Unlocked, ChainInv
  <2>2. CASE next > 0
    BY <2>2 DEF IInv, TypeOK, Probes
  <2> QED
    BY <2>1, <2>2 DEF IInv, TypeOK
<1> QED
  BY <1>1, Invariant, PTL

\* No listener hears more than once of one collection, unless one was added while the
\* probe of listeners that were all removed still awaited a collection.
THEOREM OneCallback == Spec => []OneCallbackUnlessReadded
<1>1. IInv => OneCallbackUnlessReadded
  <2> SUFFICES ASSUME IInv, ~readded, NEW l \in Listeners PROVE heard[l] <= gcs
    BY DEF OneCallbackUnlessReadded, OneCallbackPerGc
  <2> QED
    <3>1. heard[l] + queue + Due(l) <= gcs /\ Due(l) \in {0, 1}
      BY DEF IInv, HeardInv, Due
    <3> QED
      BY <3>1 DEF IInv, TypeOK
<1> QED
  BY <1>1, Invariant, PTL
=============================================================================
