-------------------------------- MODULE GcProbe --------------------------------
(***************************************************************************)
(* GcProbe: an object nobody holds on to is finalized after a collection,  *)
(* and its finalizer calls the listeners and makes the next such object.   *)
(* Everything runs under one lock, which the finalizer keeps while it calls *)
(* the listeners; a listener may call GcProbe again from within.  The      *)
(* light and the heavy probe are the same code behind a weak and a soft     *)
(* reference: a collection may leave a softly held probe alone.            *)
(***************************************************************************)
EXTENDS Integers, SequencesExt

CONSTANTS Listeners,
          Soft,      \* is it the heavy probe?
          Reactions, \* what a listener may do: a subset of {"remove", "throw"}
          MaxCalls,  \* bound on the calls of the add and remove methods
          MaxGcs     \* bound on the collections

ASSUME GcAssumption ==
    /\ Soft \in BOOLEAN /\ Reactions \subseteq {"remove", "throw"}
    /\ MaxCalls \in Nat /\ MaxGcs \in Nat

VARIABLES
    probe,        \* is `probe` non-null?
    gcListeners,
    fresh,        \* probes no collection has found yet
    queue,        \* probes that await their finalizer
    next,         \* index of the finalizer's loop, 0 when it is not running
    calls, gcs,
    heard,        \* history: callbacks of each listener
    unheard,      \* history: listeners a collection has still to be told to
    readded       \* history: was a probe made while another one lived on?

history == <<heard, unheard, readded>>
vars == <<probe, gcListeners, fresh, queue, next, calls, gcs, history>>

Probes == fresh + queue + (IF next > 0 THEN 1 ELSE 0)

Init ==
    /\ probe = FALSE
    /\ gcListeners = <<>>
    /\ fresh = 0 /\ queue = 0 /\ next = 0
    /\ calls = 0 /\ gcs = 0
    /\ heard = [l \in Listeners |-> 0] /\ unheard = {} /\ readded = FALSE

Unlocked == next = 0

Call == Unlocked /\ calls < MaxCalls /\ calls' = calls + 1

\* Mutant: a probe for each listener.
AlwaysNeedsProbe == TRUE

NeedsProbe == ~probe

\* Each listener is added at most once at a time.
AddGcListener(l) ==
    /\ Call
    /\ l \notin ToSet(gcListeners)
    /\ gcListeners' = Append(gcListeners, l)
    /\ IF NeedsProbe
       THEN probe' = TRUE /\ fresh' = fresh + 1
       ELSE UNCHANGED <<probe, fresh>>
    /\ readded' = (readded \/ (~probe /\ Probes > 0))
    /\ UNCHANGED <<queue, next, gcs, heard, unheard>>

\* Only the reference is dropped: the probe itself lives until it is finalized.
RemoveGcListener(l) ==
    /\ Call
    /\ gcListeners' = RemoveFirst(gcListeners, l)
    /\ probe' = (probe /\ gcListeners' # <<>>)
    /\ unheard' = unheard \ {l}
    /\ UNCHANGED <<fresh, queue, next, gcs, heard, readded>>

RemoveAllGcListeners ==
    /\ Call
    /\ gcListeners' = <<>>
    /\ probe' = FALSE
    /\ unheard' = {}
    /\ UNCHANGED <<fresh, queue, next, gcs, heard, readded>>

\* A collection queues what it finds; more than one of two probes, or none.  It has to
\* be told to those who listen, unless it leaves a softly held probe alone or the probe
\* of the one before is still being worked off; if there is no probe at all it has to be.
Gc ==
    /\ gcs < MaxGcs
    /\ gcs' = gcs + 1
    /\ \E found \in 0 .. fresh :
         /\ ~Soft => found = fresh
         /\ queue' = queue + found
         /\ fresh' = fresh - found
         /\ unheard' = IF found > 0 \/ Probes = 0 THEN unheard \cup ToSet(gcListeners)
                                               ELSE unheard
    /\ UNCHANGED <<probe, gcListeners, next, calls, heard, readded>>

Finalize ==
    /\ Unlocked /\ queue > 0
    /\ queue' = queue - 1
    /\ next' = 1
    /\ UNCHANGED <<probe, gcListeners, fresh, calls, gcs, history>>

\* One round of the loop over the listeners.
CallListener ==
    /\ next \in DOMAIN gcListeners
    /\ LET l == gcListeners[next]
       IN /\ heard' = [heard EXCEPT ![l] = @ + 1]
          /\ unheard' = unheard \ {l}
    /\ next' = next + 1
    /\ UNCHANGED <<probe, gcListeners, fresh, queue, calls, gcs, readded>>

\* After the loop, or after what it threw was caught: the next probe.
ReplaceProbe ==
    /\ next' = 0
    /\ probe' = TRUE
    /\ fresh' = fresh + 1

\* History: the listeners that the loop would have come to yet, and that no other
\* finalizer will.
PassedOver == IF queue > 0 THEN {} ELSE {gcListeners[j] : j \in next .. Len(gcListeners)}

FinalizeDone ==
    /\ next = Len(gcListeners) + 1
    /\ ReplaceProbe
    /\ UNCHANGED <<gcListeners, queue, calls, gcs, history>>

\* Mutant: the next probe is made in the try block, and not after it.
ListenerThrowsEndsChain ==
    /\ "throw" \in Reactions
    /\ next > 1
    /\ next' = 0
    /\ unheard' = unheard \ PassedOver
    /\ UNCHANGED <<probe, gcListeners, fresh, queue, calls, gcs, heard, readded>>

\* A listener throws; the ones behind it are not called.
ListenerThrows ==
    /\ "throw" \in Reactions
    /\ next > 1
    /\ ReplaceProbe
    /\ unheard' = unheard \ PassedOver
    /\ UNCHANGED <<gcListeners, queue, calls, gcs, heard, readded>>

\* A listener removes itself from within.  The loop then ends, quietly if its index
\* is the new size and with an exception otherwise.
ListenerRemovesItself ==
    /\ "remove" \in Reactions
    /\ next > 1
    /\ LET l == gcListeners[next - 1]
       IN /\ gcListeners' = RemoveFirst(gcListeners, l)
          /\ unheard' = unheard \ ({l} \cup PassedOver)
    /\ ReplaceProbe
    /\ UNCHANGED <<queue, calls, gcs, heard, readded>>

FinalizerStep == Finalize \/ CallListener \/ FinalizeDone

Next ==
    \/ \E l \in Listeners : AddGcListener(l) \/ RemoveGcListener(l)
    \/ RemoveAllGcListeners
    \/ Gc
    \/ FinalizerStep \/ ListenerThrows \/ ListenerRemovesItself

Spec == Init /\ [][Next]_vars

\* The finalizer thread of the runtime works off its queue.
FairSpec == Spec /\ WF_vars(FinalizerStep)

-----------------------------------------------------------------------------
(* Properties.                                                             *)

\* Every variable stays in its range; between calls the reference is there whenever a
\* listener is.
TypeOK ==
    /\ probe \in BOOLEAN
    /\ gcListeners \in Seq(Listeners)
    /\ gcListeners # <<>> /\ Unlocked => probe
    /\ fresh \in Nat /\ queue \in Nat /\ next \in 0 .. Len(gcListeners) + 1
    /\ calls \in 0 .. MaxCalls /\ gcs \in 0 .. MaxGcs
    /\ heard \in [Listeners -> Nat] /\ unheard \subseteq Listeners
    /\ readded \in BOOLEAN

\* As long as somebody listens there is a probe to be finalized, whatever a
\* listener does and however removals and collections interleave: the chain of
\* probes, each made by the one before, never breaks.
ProbeKept == gcListeners # <<>> => Probes >= 1

\* One callback for one collection.
OneCallbackPerGc == \A l \in Listeners : heard[l] <= gcs

\* ... which holds as long as no listener is added while the probe of listeners
\* that were all removed still awaits a collection.
OneCallbackUnlessReadded == ~readded => OneCallbackPerGc

\* A collection is told to every listener that stays registered and is not behind
\* one that throws or removes itself: to the listener that threw at the collection before,
\* too, which needs the chain of probes to go on whatever a listener does.
GcHeard == \A l \in Listeners : (l \in unheard) ~> (l \notin unheard)
=============================================================================
